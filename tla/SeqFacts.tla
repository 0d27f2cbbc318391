------------------------------ MODULE SeqFacts ------------------------------
(***************************************************************************)
(* Facts that the proofs of this project share: what a sequence contains   *)
(* after Append, Tail and RemoveAt, and that these keep a sequence free of *)
(* repetitions and in order; induction over the naturals and sequences;    *)
(* and what a fold that adds up computes, in whatever order it is done.    *)
(***************************************************************************)
EXTENDS SequencesExt, SequenceTheorems, FiniteSetTheorems, WellFoundedInduction, TLAPS

\* What is left when the first d elements are dropped.
LEMMA SuffixProperties ==
    ASSUME NEW S, NEW q \in Seq(S), NEW d \in 0..Len(q)
    PROVE  /\ SubSeq(q, d + 1, Len(q)) \in Seq(S)
           /\ Len(SubSeq(q, d + 1, Len(q))) = Len(q) - d
           /\ \A k \in 1..(Len(q) - d) : SubSeq(q, d + 1, Len(q))[k] = q[k + d]
<1> DEFINE b == SubSeq(q, d + 1, Len(q))
<1>1. Len(q) \in Nat /\ d \in Nat /\ d <= Len(q) /\ \A k \in 1..Len(q) : q[k] \in S
  OBVIOUS
<1>2. d + 1 \in Int /\ Len(q) \in Int /\ \A k \in (d + 1)..Len(q) : q[k] \in S
  BY <1>1
<1>3. /\ b \in Seq(S)
      /\ Len(b) = IF d + 1 <= Len(q) THEN Len(q) - (d + 1) + 1 ELSE 0
      /\ \A k \in 1..(Len(q) - (d + 1) + 1) : b[k] = q[(d + 1) + k - 1]
  BY <1>2, SubSeqProperties
<1> HIDE DEF b
<1>4. Len(q) - (d + 1) + 1 = Len(q) - d
  BY <1>1
<1>5. Len(b) = Len(q) - d
  BY <1>1, <1>3
<1>6. ASSUME NEW k \in 1..(Len(q) - d) PROVE b[k] = q[k + d]
  <2>1. (d + 1) + k - 1 = k + d
    BY <1>1
  <2> QED
    BY <2>1, <1>3, <1>4
<1> QED
  BY <1>3, <1>5, <1>6 DEF b

\* Removing one index keeps the others, in their order.
LEMMA RemoveAtProperties ==
    ASSUME NEW S, NEW q \in Seq(S), NEW i \in 1..Len(q)
    PROVE  /\ RemoveAt(q, i) \in Seq(S)
           /\ Len(RemoveAt(q, i)) = Len(q) - 1
           /\ \A k \in 1..(Len(q) - 1) :
                 RemoveAt(q, i)[k] = IF k < i THEN q[k] ELSE q[k + 1]
<1>0. Len(q) \in Nat /\ DOMAIN q = 1..Len(q) /\ \A k \in 1..Len(q) : q[k] \in S
  OBVIOUS
<1>1. PICK a : a = SubSeq(q, 1, i - 1)
  OBVIOUS
<1>2. PICK b : b = SubSeq(q, i + 1, Len(q))
  OBVIOUS
<1>3. a \in Seq(S) /\ Len(a) = i - 1 /\ \A k \in 1..(i - 1) : a[k] = q[k]
  BY <1>0, <1>1
<1>4. b \in Seq(S) /\ Len(b) = Len(q) - i /\ \A k \in 1..(Len(q) - i) : b[k] = q[k + i]
  <2>1. i \in 0..Len(q)
    BY <1>0
  <2> QED
    BY <2>1, <1>2, SuffixProperties
<1>5. RemoveAt(q, i) = a \o b
  BY <1>1, <1>2 DEF RemoveAt
<1>6. /\ RemoveAt(q, i) \in Seq(S)
      /\ Len(RemoveAt(q, i)) = Len(a) + Len(b)
      /\ \A k \in 1..(Len(a) + Len(b)) :
            RemoveAt(q, i)[k] = IF k <= Len(a) THEN a[k] ELSE b[k - Len(a)]
  <2>1. a \in Seq(S) /\ b \in Seq(S)
    BY <1>3, <1>4
  <2> QED
    BY ONLY <2>1, <1>5, ConcatProperties
<1>7. ASSUME NEW k \in 1..(Len(q) - 1)
      PROVE  RemoveAt(q, i)[k] = IF k < i THEN q[k] ELSE q[k + 1]
  <2>1. CASE k < i
    <3>1. k \in 1..(Len(a) + Len(b)) /\ k <= Len(a) /\ k \in 1..(i - 1)
      BY <1>0, <1>3, <1>4, <2>1
    <3> QED
      BY <3>1, <1>3, <1>6, <2>1
  <2>2. CASE k >= i
    <3>1. k - (i - 1) \in 1..(Len(q) - i) /\ (k - (i - 1)) + i = k + 1
      BY <1>0, <2>2
    <3>2. RemoveAt(q, i)[k] = b[k - (i - 1)]
      BY <1>0, <1>3, <1>4, <1>6, <2>2
    <3> QED
      BY <2>2, <3>1, <3>2, <1>4
  <2> QED
    BY <1>0, <2>1, <2>2
<1> QED
  BY <1>0, <1>3, <1>4, <1>6, <1>7

\* What a sequence without repetitions contains once an index is removed:
\* everything but the element there.
LEMMA RemoveAtMember ==
    ASSUME NEW S, NEW q \in Seq(S), NEW i \in 1..Len(q), IsInjective(q)
    PROVE  \A m : m \in Range(RemoveAt(q, i)) <=> m \in Range(q) /\ m # q[i]
<1> DEFINE r == RemoveAt(q, i)
<1>1. /\ r \in Seq(S) /\ Len(r) = Len(q) - 1
      /\ \A k \in 1..(Len(q) - 1) : r[k] = IF k < i THEN q[k] ELSE q[k + 1]
  BY RemoveAtProperties
<1> HIDE DEF r
<1>2. /\ Len(q) \in Nat /\ DOMAIN r = 1..(Len(q) - 1) /\ DOMAIN q = 1..Len(q)
      /\ i \in 1..Len(q)
  BY <1>1
<1>3. \A j, k \in 1..Len(q) : j # k => q[j] # q[k]
  BY <1>2 DEF IsInjective
<1>4. ASSUME NEW m, NEW k \in DOMAIN r, r[k] = m
      PROVE  \E j \in DOMAIN q : q[j] = m /\ j # i
  <2>1. CASE k < i
    BY <1>1, <1>2, <1>4, <2>1
  <2>2. CASE k >= i
    <3>1. k + 1 \in DOMAIN q /\ q[k + 1] = m /\ k + 1 # i
      BY <1>1, <1>2, <1>4, <2>2
    <3> QED
      BY <3>1
  <2> QED
    BY <1>2, <2>1, <2>2
<1>5. ASSUME NEW m, NEW k \in DOMAIN q, q[k] = m, m # q[i]
      PROVE  \E j \in DOMAIN r : r[j] = m
  <2>1. CASE k < i
    <3>1. k \in DOMAIN r /\ r[k] = m
      BY <1>1, <1>2, <1>5, <2>1
    <3> QED
      BY <3>1
  <2>2. CASE k > i
    <3>1. k - 1 \in 1..(Len(q) - 1) /\ ~(k - 1 < i) /\ (k - 1) + 1 = k
      BY <1>2, <2>2
    <3>2. k - 1 \in DOMAIN r /\ r[k - 1] = m
      BY <3>1, <1>1, <1>2, <1>5
    <3> QED
      BY <3>2
  <2> QED
    BY <1>2, <1>5, <2>1, <2>2
<1>6. ASSUME NEW m PROVE m \in Range(r) <=> m \in Range(q) /\ m # q[i]
  BY <1>2, <1>3, <1>4, <1>5 DEF Range
<1> QED
  BY <1>6 DEF r

LEMMA AppendMember ==
    ASSUME NEW S, NEW q \in Seq(S), NEW e \in S
    PROVE  \A m : m \in Range(Append(q, e)) <=> m \in Range(q) \/ m = e
<1> DEFINE r == Append(q, e)
<1>1. /\ Len(q) \in Nat /\ r \in Seq(S) /\ Len(r) = Len(q) + 1
      /\ \A i \in 1..Len(q) : r[i] = q[i]
      /\ r[Len(q) + 1] = e
  BY AppendProperties
<1> HIDE DEF r
<1>2. DOMAIN r = 1..(Len(q) + 1) /\ DOMAIN q = 1..Len(q)
  BY <1>1
<1>3. ASSUME NEW m PROVE m \in Range(r) <=> m \in Range(q) \/ m = e
  BY <1>1, <1>2 DEF Range
<1> QED
  BY <1>3 DEF r

LEMMA TailMember ==
    ASSUME NEW S, NEW q \in Seq(S), q # <<>>, IsInjective(q)
    PROVE  /\ Head(q) \in S /\ Head(q) \in Range(q)
           /\ Tail(q) \in Seq(S)
           /\ IsInjective(Tail(q))
           /\ \A m : m \in Range(Tail(q)) <=> m \in Range(q) /\ m # Head(q)
<1> DEFINE r == Tail(q)
<1>1. /\ Head(q) = q[1] /\ Head(q) \in S
      /\ Len(q) \in Nat /\ Len(q) >= 1
      /\ r \in Seq(S) /\ Len(r) = Len(q) - 1
      /\ \A i \in 1..(Len(q) - 1) : r[i] = q[i + 1]
  BY HeadTailProperties, EmptySeq
<1> HIDE DEF r
<1>2. DOMAIN r = 1..(Len(q) - 1) /\ DOMAIN q = 1..Len(q)
  BY <1>1
<1>3. \A j, k \in 1..Len(q) : j # k => q[j] # q[k]
  BY <1>2 DEF IsInjective
<1>4. ASSUME NEW m, NEW k \in DOMAIN r, r[k] = m
      PROVE  \E j \in DOMAIN q : q[j] = m /\ j # 1
  <2>1. k + 1 \in DOMAIN q /\ q[k + 1] = m /\ k + 1 # 1
    BY <1>1, <1>2, <1>4
  <2> QED
    BY <2>1
<1>5. ASSUME NEW m, NEW k \in DOMAIN q, q[k] = m, m # q[1]
      PROVE  \E j \in DOMAIN r : r[j] = m
  <2>1. k - 1 \in 1..(Len(q) - 1) /\ (k - 1) + 1 = k
    BY <1>1, <1>2, <1>5
  <2>2. k - 1 \in DOMAIN r /\ r[k - 1] = m
    BY <2>1, <1>1, <1>2, <1>5
  <2> QED
    BY <2>2
<1>6. ASSUME NEW m PROVE m \in Range(r) <=> m \in Range(q) /\ m # q[1]
  <2>1. 1 \in 1..Len(q)
    BY <1>1
  <2> QED
    BY <2>1, <1>2, <1>3, <1>4, <1>5 DEF Range
<1>7. Head(q) \in Range(q)
  <2>1. 1 \in DOMAIN q
    BY <1>1, <1>2
  <2> QED
    BY <2>1, <1>1 DEF Range
<1>8. IsInjective(r)
  <2>1. ASSUME NEW j \in 1..(Len(q) - 1), NEW k \in 1..(Len(q) - 1), j # k
        PROVE  r[j] # r[k]
    <3>1. j + 1 \in 1..Len(q) /\ k + 1 \in 1..Len(q) /\ j + 1 # k + 1
      BY <1>1, <2>1
    <3> QED
      BY <3>1, <1>1, <1>3
  <2> QED
    BY <2>1, <1>2 DEF IsInjective
<1> QED
  BY <1>1, <1>6, <1>7, <1>8 DEF r

LEMMA Singleton ==
    ASSUME NEW S, NEW e \in S
    PROVE  /\ <<e>> \in Seq(S)
           /\ <<e>> # <<>>
           /\ Head(<<e>>) = e
           /\ Tail(<<e>>) = <<>>
<1>1. <<e>> \in Seq(S) /\ Len(<<e>>) = 1 /\ <<e>>[1] = e
  OBVIOUS
<1>2. <<e>> # <<>> /\ Head(<<e>>) = e
  BY <1>1
<1>3. Tail(<<e>>) \in Seq(S) /\ Len(Tail(<<e>>)) = 0
  BY <1>1, <1>2, HeadTailProperties
<1>4. Tail(<<e>>) = <<>>
  BY <1>3, EmptySeq
<1> QED
  BY <1>1, <1>2, <1>4

LEMMA EmptyRange == Range(<<>>) = {} /\ IsInjective(<<>>)
  BY DEF Range, IsInjective

-----------------------------------------------------------------------------
(* Induction.  The library's induction theorems take an operator; that a   *)
(* set of naturals has a least element does not.                           *)

LEMMA Least ==
    ASSUME NEW T, T \subseteq Nat, T # {}
    PROVE  \E m \in T : \A k \in T : m <= k
<1> DEFINE less == {ss \in Nat \X Nat : ss[1] < ss[2]}
<1>1. IsWellFoundedOn(less, Nat)
  BY NatLessThanWellFounded DEF OpToRel
<1> HIDE DEF less
<1>2. PICK x \in T : \A y \in T : <<y, x>> \notin less
  BY <1>1, WFMin
<1>3. \A y \in T : ~(y < x)
  BY <1>2 DEF less
<1> QED
  BY <1>3

LEMMA Induction ==
    ASSUME NEW S, 0 \in S, \A n \in Nat : n \in S => n + 1 \in S
    PROVE  Nat \subseteq S
<1> DEFINE T == Nat \ S
<1>1. SUFFICES ASSUME T # {} PROVE FALSE
  OBVIOUS
<1>2. PICK m \in T : \A k \in T : m <= k
  BY <1>1, Least
<1>3. m # 0 /\ m - 1 \in Nat
  OBVIOUS
<1>4. m - 1 \in S
  BY <1>2, <1>3
<1> QED
  BY <1>3, <1>4

LEMMA SeqInduction ==
    ASSUME NEW S, NEW P, <<>> \in P,
           \A q \in Seq(S) : \A e \in S : q \in P => Append(q, e) \in P
    PROVE  Seq(S) \subseteq P
<1> DEFINE Done == {n \in Nat : \A q \in Seq(S) : Len(q) = n => q \in P}
<1>1. 0 \in Done
  <2>1. \A q \in Seq(S) : Len(q) = 0 => q = <<>>
    BY EmptySeq
  <2> QED
    BY <2>1
<1>2. ASSUME NEW n \in Nat, n \in Done PROVE n + 1 \in Done
  <2>1. ASSUME NEW q \in Seq(S), Len(q) = n + 1 PROVE q \in P
    <3>1. q # <<>>
      BY <2>1, EmptySeq
    <3>2. PICK r \in Seq(S), e \in S : q = Append(r, e)
      BY <3>1, SequenceEmptyOrAppend
    <3>3. Len(r) = n
      BY <2>1, <3>2, AppendProperties, LenProperties
    <3> QED
      BY <1>2, <3>2, <3>3
  <2> QED
    BY <2>1
<1>3. Nat \subseteq Done
  <2> HIDE DEF Done
  <2> QED
    BY <1>1, <1>2, Induction
<1> QED
  BY <1>3, LenProperties

\* Selecting from a sequence is a recursion over it, which has a solution.
LEMMA SelectionExists ==
    ASSUME NEW q, Len(q) \in Nat, NEW S
    PROVE  \E T : T = [n \in 0..Len(q) |->
                         IF n = 0 THEN <<>> ELSE IF q[n] \in S THEN Append(T[n - 1], q[n]) ELSE T[n - 1]]
<1> DEFINE Body(T, n) == IF n = 0 THEN <<>> ELSE IF q[n] \in S THEN Append(T[n - 1], q[n]) ELSE T[n - 1]
           Done == {m \in Nat : \E T : T = [n \in 0..m |-> Body(T, n)]}
<1>1. 0 \in Done
  <2> DEFINE T == [n \in 0..0 |-> <<>>]
  <2>1. T = [n \in 0..0 |-> Body(T, n)]
    OBVIOUS
  <2> HIDE DEF T
  <2> QED
    BY <2>1
<1>2. ASSUME NEW m \in Nat, m \in Done PROVE m + 1 \in Done
  <2>1. PICK T : T = [n \in 0..m |-> Body(T, n)]
    BY <1>2
  <2> DEFINE V == [n \in 0..(m + 1) |-> Body(T, n)]
  <2>2. \A n \in 0..m : V[n] = T[n]
    <3>1. 0..m \subseteq 0..(m + 1)
      OBVIOUS
    <3> HIDE DEF Body
    <3> QED
      BY <2>1, <3>1
  <2>3. ASSUME NEW n \in 0..(m + 1) PROVE Body(V, n) = Body(T, n)
    <3>1. CASE n = 0
      BY <3>1
    <3>2. CASE n # 0
      <4>1. n - 1 \in 0..m
        BY <3>2
      <4>2. V[n - 1] = T[n - 1]
        BY <4>1, <2>2
      <4> HIDE DEF V
      <4> QED
        BY <4>2
    <3> QED
      BY <3>1, <3>2
  <2>4. V = [n \in 0..(m + 1) |-> Body(V, n)]
    BY <2>3
  <2> HIDE DEF V
  <2>5. \E X : X = [n \in 0..(m + 1) |-> Body(X, n)]
    BY <2>4
  <2>6. m + 1 \in Nat
    OBVIOUS
  <2> HIDE DEF Body
  <2> QED
    BY ONLY <2>5, <2>6
<1>3. Len(q) \in Done
  <2> HIDE DEF Done
  <2>1. Nat \subseteq Done
    BY <1>1, <1>2, Induction
  <2> QED
    BY <2>1
<1> QED
  BY <1>3

-----------------------------------------------------------------------------
(* Sums.  MapThenFoldSet takes one element after the other out of a set;   *)
(* T is what its recursion computes for every subset of S when it adds up  *)
(* the weights w.                                                          *)

Chosen(t) == CHOOSE x \in t : TRUE

Sums(T, w, S) ==
    T = [t \in SUBSET S |-> IF t = {} THEN 0 ELSE w[Chosen(t)] + T[t \ {Chosen(t)}]]

LEMMA ChosenIn == ASSUME NEW t, t # {} PROVE Chosen(t) \in t
  BY DEF Chosen

\* The subsets of S with at most n elements.
Small(S, n) == {t \in SUBSET S : Cardinality(t) <= n}

LEMMA SmallFacts ==
    ASSUME NEW S, IsFiniteSet(S), NEW n \in Nat
    PROVE  /\ Small(S, 0) = {{}}
           /\ Small(S, n) \subseteq Small(S, n + 1)
           /\ \A t \in Small(S, n + 1) : \A x \in t : t \ {x} \in Small(S, n)
           /\ Small(S, Cardinality(S)) = SUBSET S
           /\ {} \in Small(S, n)
<1>1. \A t \in SUBSET S : IsFiniteSet(t) /\ Cardinality(t) \in Nat /\ Cardinality(t) <= Cardinality(S)
  BY FS_Subset, FS_CardinalityType
<1>2. \A t \in SUBSET S : Cardinality(t) = 0 <=> t = {}
  BY <1>1, FS_EmptySet
<1>3. ASSUME NEW t \in Small(S, n + 1), NEW x \in t PROVE t \ {x} \in Small(S, n)
  <2>1. IsFiniteSet(t) /\ t \in SUBSET S
    BY <1>1 DEF Small
  <2>2. Cardinality(t \ {x}) = Cardinality(t) - 1
    BY <2>1, FS_RemoveElement
  <2>3. t \ {x} \in SUBSET S /\ Cardinality(t) \in Nat /\ Cardinality(t) <= n + 1
    BY <1>1 DEF Small
  <2> QED
    BY <2>2, <2>3 DEF Small
<1>4. Small(S, 0) = {{}} /\ {} \in Small(S, n)
  <2>1. Cardinality({}) = 0 /\ {} \in SUBSET S
    BY FS_EmptySet
  <2> QED
    BY <2>1, <1>1, <1>2 DEF Small
<1>5. Small(S, n) \subseteq Small(S, n + 1)
  BY <1>1 DEF Small
<1>6. Small(S, Cardinality(S)) = SUBSET S
  BY <1>1 DEF Small
<1> QED
  BY <1>3, <1>4, <1>5, <1>6

\* The recursion has a solution.
LEMMA SumsExist ==
    ASSUME NEW S, IsFiniteSet(S), NEW w
    PROVE  \E T : Sums(T, w, S)
<1> DEFINE Body(T, t) == IF t = {} THEN 0 ELSE w[Chosen(t)] + T[t \ {Chosen(t)}]
           Done == {n \in Nat : \E T : T = [t \in Small(S, n) |-> Body(T, t)]}
<1>1. 0 \in Done
  <2> DEFINE T == [t \in Small(S, 0) |-> 0]
  <2>1. T = [t \in Small(S, 0) |-> Body(T, t)]
    BY SmallFacts
  <2> QED
    BY <2>1
<1>2. ASSUME NEW n \in Nat, n \in Done PROVE n + 1 \in Done
  <2>1. PICK T : T = [t \in Small(S, n) |-> Body(T, t)]
    BY <1>2
  <2> DEFINE V == [t \in Small(S, n + 1) |-> Body(T, t)]
  <2>2. \A t \in Small(S, n) : V[t] = T[t]
    BY <2>1, SmallFacts
  <2>3. ASSUME NEW t \in Small(S, n + 1) PROVE Body(V, t) = Body(T, t)
    <3>1. CASE t = {}
      BY <3>1
    <3>2. CASE t # {}
      <4>1. t \ {Chosen(t)} \in Small(S, n)
        BY <3>2, SmallFacts, ChosenIn
      <4>2. V[t \ {Chosen(t)}] = T[t \ {Chosen(t)}]
        BY <4>1, <2>2
      <4> HIDE DEF V
      <4> QED
        BY <4>2
    <3> QED
      BY <3>1, <3>2
  <2>4. V = [t \in Small(S, n + 1) |-> Body(V, t)]
    BY <2>3
  <2> HIDE DEF V
  <2>5. \E X : X = [t \in Small(S, n + 1) |-> Body(X, t)]
    BY <2>4
  <2>6. n + 1 \in Nat
    OBVIOUS
  <2> HIDE DEF Body
  <2> QED
    BY ONLY <2>5, <2>6
<1>3. Cardinality(S) \in Done
  <2> HIDE DEF Done
  <2>1. Nat \subseteq Done
    BY <1>1, <1>2, Induction
  <2> QED
    BY <2>1, FS_CardinalityType
<1>4. PICK T : T = [t \in Small(S, Cardinality(S)) |-> Body(T, t)]
  BY <1>3
<1>5. Small(S, Cardinality(S)) = SUBSET S
  BY SmallFacts, FS_CardinalityType
<1> QED
  BY <1>4, <1>5 DEF Sums

LEMMA SumsStep ==
    ASSUME NEW S, NEW w, NEW T, Sums(T, w, S)
    PROVE  /\ T[{}] = 0
           /\ \A t \in SUBSET S : t # {} => T[t] = w[Chosen(t)] + T[t \ {Chosen(t)}]
  BY DEF Sums

\* The sum is a number, whichever element is taken first.
LEMMA SumsNat ==
    ASSUME NEW S, IsFiniteSet(S), NEW w, NEW T, Sums(T, w, S), \A x \in S : w[x] \in Nat
    PROVE  \A t \in SUBSET S : T[t] \in Nat
<1> DEFINE Done == {n \in Nat : \A t \in Small(S, n) : T[t] \in Nat}
<1>0. /\ T[{}] = 0
      /\ \A t \in SUBSET S : t # {} => T[t] = w[Chosen(t)] + T[t \ {Chosen(t)}]
  BY SumsStep
<1>1. 0 \in Done
  <2>1. \A t \in Small(S, 0) : t = {}
    BY SmallFacts
  <2>2. T[{}] \in Nat
    BY <1>0
  <2>3. \A t \in Small(S, 0) : T[t] \in Nat
    BY <2>1, <2>2
  <2> QED
    BY <2>3
<1>2. ASSUME NEW n \in Nat, n \in Done PROVE n + 1 \in Done
  <2>1. ASSUME NEW t \in Small(S, n + 1) PROVE T[t] \in Nat
    <3>1. CASE t = {}
      BY <3>1, <1>0
    <3>2. CASE t # {}
      <4>1. Chosen(t) \in t /\ t \in SUBSET S
        BY <3>2, ChosenIn DEF Small
      <4>2. T[t \ {Chosen(t)}] \in Nat
        BY <4>1, <1>2, SmallFacts
      <4>3. w[Chosen(t)] \in Nat /\ T[t] = w[Chosen(t)] + T[t \ {Chosen(t)}]
        BY <3>2, <4>1, <1>0
      <4> QED
        BY <4>2, <4>3
    <3> QED
      BY <3>1, <3>2
  <2> QED
    BY <2>1
<1>3. Cardinality(S) \in Done
  <2> HIDE DEF Done
  <2>1. Nat \subseteq Done
    BY <1>1, <1>2, Induction
  <2> QED
    BY <2>1, FS_CardinalityType
<1> QED
  BY <1>3, SmallFacts, FS_CardinalityType

AnyOrder(T, w, S) == \A t \in SUBSET S : \A x \in t : T[t] = w[x] + T[t \ {x}]

LEMMA SumsAnyOrder ==
    ASSUME NEW S, IsFiniteSet(S), NEW w, NEW T, Sums(T, w, S), \A x \in S : w[x] \in Nat
    PROVE  AnyOrder(T, w, S)
<1> DEFINE Done == {n \in Nat : \A t \in Small(S, n) : \A x \in t : T[t] = w[x] + T[t \ {x}]}
<1>s. \A t \in SUBSET S : T[t] \in Nat
  BY SumsNat
<1>r. \A t \in SUBSET S : t # {} => T[t] = w[Chosen(t)] + T[t \ {Chosen(t)}]
  BY SumsStep
<1>1. 0 \in Done
  BY SmallFacts
<1>2. ASSUME NEW n \in Nat, n \in Done PROVE n + 1 \in Done
  <2>1. ASSUME NEW t \in Small(S, n + 1), NEW x \in t PROVE T[t] = w[x] + T[t \ {x}]
    <3>1. t \in SUBSET S /\ t # {} /\ Chosen(t) \in t
      BY <2>1, ChosenIn DEF Small
    <3>2. PICK c \in t : T[t] = w[c] + T[t \ {c}]
      BY <3>1, <1>r
    <3>3. CASE x = c
      BY <3>2, <3>3
    <3>4. CASE x # c
      <4>1. t \ {c} \in Small(S, n) /\ t \ {x} \in Small(S, n)
        BY <3>1, SmallFacts
      <4>2. x \in t \ {c} /\ c \in t \ {x}
        BY <3>1, <3>4
      <4>3. T[t \ {c}] = w[x] + T[(t \ {c}) \ {x}] /\ T[t \ {x}] = w[c] + T[(t \ {x}) \ {c}]
        BY <4>1, <4>2, <1>2
      <4>4. PICK rest \in SUBSET S : rest = (t \ {c}) \ {x} /\ rest = (t \ {x}) \ {c}
        BY <3>1
      <4>5. w[x] \in Nat /\ w[c] \in Nat /\ T[rest] \in Nat
        BY <3>1, <1>s
      <4>6. T[t] = w[c] + (w[x] + T[rest]) /\ T[t \ {x}] = w[c] + T[rest]
        BY <3>2, <4>3, <4>4
      <4>7. w[c] + (w[x] + T[rest]) = w[x] + (w[c] + T[rest])
        BY <4>5
      <4> QED
        BY <4>6, <4>7
    <3> QED
      BY <3>3, <3>4
  <2> QED
    BY <2>1
<1>3. Cardinality(S) \in Done
  <2> HIDE DEF Done
  <2>1. Nat \subseteq Done
    BY <1>1, <1>2, Induction
  <2> QED
    BY <2>1, FS_CardinalityType
<1> QED
  BY <1>3, SmallFacts, FS_CardinalityType DEF AnyOrder

\* Where the weights agree, so do the sums.
LEMMA SumsAgree ==
    ASSUME NEW A, NEW B, NEW S \in SUBSET (A \cap B), IsFiniteSet(S), NEW w, NEW u, NEW T, NEW U,
           Sums(T, w, A), Sums(U, u, B), \A x \in S : w[x] = u[x]
    PROVE  \A t \in SUBSET S : T[t] = U[t]
<1> DEFINE Done == {n \in Nat : \A t \in Small(S, n) : T[t] = U[t]}
<1>1. 0 \in Done
  BY SmallFacts, SumsStep
<1>2. ASSUME NEW n \in Nat, n \in Done PROVE n + 1 \in Done
  <2>1. ASSUME NEW t \in Small(S, n + 1) PROVE T[t] = U[t]
    <3>1. CASE t = {}
      BY <3>1, SumsStep
    <3>2. CASE t # {}
      <4>1. Chosen(t) \in t /\ t \in SUBSET S /\ t \in SUBSET A /\ t \in SUBSET B
        BY <3>2, ChosenIn DEF Small
      <4>2. T[t \ {Chosen(t)}] = U[t \ {Chosen(t)}]
        BY <4>1, <1>2, SmallFacts
      <4>3. T[t] = w[Chosen(t)] + T[t \ {Chosen(t)}] /\ U[t] = u[Chosen(t)] + U[t \ {Chosen(t)}]
        BY <3>2, <4>1, SumsStep
      <4> QED
        BY <4>1, <4>2, <4>3
    <3> QED
      BY <3>1, <3>2
  <2> QED
    BY <2>1
<1>3. Cardinality(S) \in Done
  <2> HIDE DEF Done
  <2>1. Nat \subseteq Done
    BY <1>1, <1>2, Induction
  <2> QED
    BY <2>1, FS_CardinalityType
<1> QED
  BY <1>3, SmallFacts, FS_CardinalityType
=============================================================================
