--------------------------- MODULE SendingTabProofs ---------------------------
(***************************************************************************)
(* Proofs about a tab that sends: that the table of a run adds up and      *)
(* counts every request of it (LoadRunner), and that the pane shows an     *)
(* exact prefix of the current response (RequestTab).                      *)
(***************************************************************************)
EXTENDS SendingTab, SeqFacts

-----------------------------------------------------------------------------
(* Latencies in order.                                                     *)

Orders(s, p) ==
    /\ p \in [DOMAIN s -> DOMAIN s]
    /\ IsInjective(p)
    /\ \A i, j \in DOMAIN s : i < j => s[p[i]] <= s[p[j]]

\* A number is put between those that are not greater and those that are.
LEMMA Inserted ==
    ASSUME NEW q \in Seq(Nat), NEW e \in Nat, NEW p, Orders(q, p)
    PROVE  \E o : Orders(Append(q, e), o)
<1> DEFINE n == Len(q)
           r == Append(q, e)
           Bigger == {k \in 1..n : q[p[k]] > e} \cup {n + 1}
<1>1. n \in Nat /\ DOMAIN q = 1..n /\ p \in [1..n -> 1..n] /\ \A i \in 1..n : q[i] \in Nat
  BY LenProperties DEF Orders
<1>2. /\ r \in Seq(Nat) /\ DOMAIN r = 1..(n + 1) /\ r[n + 1] = e
      /\ \A i \in 1..n : r[i] = q[i]
  BY AppendProperties, LenProperties
<1>3. Bigger \subseteq Nat /\ Bigger # {}
  BY <1>1
<1>4. PICK m \in Bigger : \A k \in Bigger : m <= k
  BY <1>3, Least
<1> HIDE DEF n, r
<1>5. m \in 1..(n + 1)
  BY <1>1, <1>4
<1>6. \A i, j \in 1..n : i < j => q[p[i]] <= q[p[j]]
  BY <1>1 DEF Orders
<1>7. \A i \in 1..n : i < m => q[p[i]] <= e
  <2>1. ASSUME NEW i \in 1..n, i < m, q[p[i]] > e PROVE FALSE
    <3>1. i \in Bigger
      BY <2>1
    <3> QED
      BY <1>1, <1>4, <1>5, <2>1, <3>1
  <2> QED
    BY <1>1, <2>1
<1>8. \A i \in 1..n : i >= m => e <= q[p[i]]
  <2>1. ASSUME NEW i \in 1..n, i >= m PROVE e <= q[p[i]]
    <3>1. m \in 1..n /\ q[p[m]] > e
      BY <1>1, <1>4, <1>5, <2>1
    <3>2. q[p[m]] <= q[p[i]]
      BY <1>1, <1>6, <2>1, <3>1
    <3> QED
      BY <1>1, <3>1, <3>2
  <2> QED
    BY <2>1
<1> HIDE DEF Bigger
<1> DEFINE o == [i \in 1..(n + 1) |-> IF i < m THEN p[i] ELSE IF i = m THEN n + 1 ELSE p[i - 1]]
<1>9. \A i \in 1..(n + 1) :
          /\ i < m => i \in 1..n /\ o[i] = p[i]
          /\ i = m => o[i] = n + 1
          /\ i > m => i - 1 \in 1..n /\ i - 1 >= m /\ o[i] = p[i - 1]
  BY <1>1, <1>5
<1>10. o \in [1..(n + 1) -> 1..(n + 1)]
  <2>1. ASSUME NEW i \in 1..(n + 1)
        PROVE  (IF i < m THEN p[i] ELSE IF i = m THEN n + 1 ELSE p[i - 1]) \in 1..(n + 1)
    <3>1. i < m => i \in 1..n
      BY <1>1, <1>5, <2>1
    <3>2. i > m => i - 1 \in 1..n
      BY <1>1, <1>5, <2>1
    <3>3. i < m \/ i = m \/ i > m
      BY <1>1, <1>5, <2>1
    <3> QED
      BY <1>1, <1>5, <3>1, <3>2, <3>3
  <2> QED
    BY <2>1
<1> HIDE DEF o
<1>11. \A a, b \in 1..n : p[a] = p[b] => a = b
  BY <1>1 DEF Orders, IsInjective
<1>12. IsInjective(o)
  <2>1. ASSUME NEW i \in 1..(n + 1), NEW j \in 1..(n + 1), i < j, o[i] = o[j] PROVE FALSE
    <3>1. CASE j < m
      BY <1>1, <1>5, <1>9, <1>11, <2>1, <3>1
    <3>2. CASE j = m
      BY <1>1, <1>5, <1>9, <2>1, <3>2
    <3>3. CASE j > m /\ i < m
      <4>1. p[i] = p[j - 1] /\ i \in 1..n /\ j - 1 \in 1..n /\ i < j - 1
        BY <1>1, <1>5, <1>9, <2>1, <3>3
      <4> QED
        BY <1>11, <4>1
    <3>4. CASE j > m /\ i = m
      BY <1>1, <1>5, <1>9, <2>1, <3>4
    <3>5. CASE j > m /\ i > m
      <4>1. p[i - 1] = p[j - 1] /\ i - 1 \in 1..n /\ j - 1 \in 1..n /\ i - 1 < j - 1
        BY <1>1, <1>5, <1>9, <2>1, <3>5
      <4> QED
        BY <1>11, <4>1
    <3> QED
      BY <1>1, <1>5, <2>1, <3>1, <3>2, <3>3, <3>4, <3>5
  <2>2. ASSUME NEW i \in 1..(n + 1), NEW j \in 1..(n + 1), o[i] = o[j] PROVE i = j
    BY <1>1, <2>1, <2>2
  <2> QED
    BY <1>10, <2>2 DEF IsInjective
<1>13. ASSUME NEW i \in 1..(n + 1), NEW j \in 1..(n + 1), i < j PROVE r[o[i]] <= r[o[j]]
  <2>1. \A k \in 1..(n + 1) :
            /\ k < m => k \in 1..n /\ r[o[k]] = q[p[k]]
            /\ k = m => r[o[k]] = e
            /\ k > m => k - 1 \in 1..n /\ k - 1 >= m /\ r[o[k]] = q[p[k - 1]]
    BY <1>1, <1>2, <1>9
  <2>2. CASE j < m
    <3>1. i < m
      BY <1>1, <1>5, <1>13, <2>2
    <3> QED
      BY <1>6, <1>13, <2>1, <2>2, <3>1
  <2>3. CASE j = m
    <3>1. i < m
      BY <1>1, <1>5, <1>13, <2>3
    <3> QED
      BY <1>7, <1>13, <2>1, <2>3, <3>1
  <2>4. CASE j > m /\ i < m
    <3>1. i < j - 1 /\ i \in 1..n /\ j - 1 \in 1..n
      BY <1>1, <1>5, <1>13, <2>1, <2>4
    <3> QED
      BY <1>6, <2>1, <2>4, <3>1
  <2>5. CASE j > m /\ i = m
    BY <1>8, <2>1, <2>5
  <2>6. CASE j > m /\ i > m
    <3>1. i - 1 < j - 1 /\ i - 1 \in 1..n /\ j - 1 \in 1..n
      BY <1>1, <1>5, <1>13, <2>1, <2>6
    <3> QED
      BY <1>6, <2>1, <2>6, <3>1
  <2> QED
    BY <1>1, <1>5, <2>2, <2>3, <2>4, <2>5, <2>6
<1> QED
  BY <1>2, <1>10, <1>12, <1>13 DEF Orders, r

LEMMA OrderExists == ASSUME NEW s \in Seq(Nat) PROVE \E p : Orders(s, p)
<1> DEFINE Done == {q \in Seq(Nat) : \E p : Orders(q, p)}
<1>1. <<>> \in Done
  <2> DEFINE p == [i \in {} |-> i]
  <2>1. DOMAIN <<>> = {} /\ <<>> \in Seq(Nat)
    OBVIOUS
  <2>2. Orders(<<>>, p)
    BY <2>1 DEF Orders, IsInjective
  <2> QED
    BY <2>1, <2>2
<1>2. \A q \in Seq(Nat) : \A e \in Nat : q \in Done => Append(q, e) \in Done
  <2>1. ASSUME NEW q \in Seq(Nat), NEW e \in Nat, q \in Done PROVE Append(q, e) \in Done
    BY <2>1, Inserted, AppendProperties
  <2> QED
    BY <2>1
<1>3. Seq(Nat) \subseteq Done
  <2> HIDE DEF Done
  <2> QED
    BY <1>1, <1>2, SeqInduction
<1> QED
  BY <1>3

Sorts(t, s) ==
    /\ Len(t) = Len(s)
    /\ \A i \in 1..Len(s) : \E j \in 1..Len(s) : t[i] = s[j]
    /\ \A i, j \in 1..Len(s) : i < j => t[i] <= t[j]

LEMMA InOrderSorts == ASSUME NEW s \in Seq(Nat) PROVE Sorts(InOrder(s), s)
<1> DEFINE p == CHOOSE p \in [DOMAIN s -> DOMAIN s] :
                    IsInjective(p) /\ \A i, j \in DOMAIN s : i < j => s[p[i]] <= s[p[j]]
<1>1. Orders(s, p)
  BY OrderExists DEF Orders
<1> DEFINE t == InOrder(s)
<1>2. t = [i \in DOMAIN s |-> s[p[i]]]
  BY DEF InOrder
<1> HIDE DEF p, t
<1>3. DOMAIN s = 1..Len(s) /\ Len(s) \in Nat /\ \A i \in 1..Len(s) : s[i] \in Nat
  BY LenProperties
<1>4. p \in [1..Len(s) -> 1..Len(s)] /\ \A i, j \in 1..Len(s) : i < j => s[p[i]] <= s[p[j]]
  BY <1>1, <1>3 DEF Orders
<1>5. t \in [1..Len(s) -> Nat]
  BY <1>2, <1>3, <1>4
<1>6. t \in Seq(Nat) /\ DOMAIN t = 1..Len(s)
  BY <1>3, <1>5, SeqDef
<1>7. Len(t) = Len(s)
  BY <1>3, <1>6, LenProperties
<1>8. \A i \in 1..Len(s) : t[i] = s[p[i]] /\ p[i] \in 1..Len(s)
  BY <1>2, <1>3, <1>4
<1>9. Sorts(t, s)
  BY <1>4, <1>7, <1>8 DEF Sorts
<1> QED
  BY <1>9 DEF t

-----------------------------------------------------------------------------
(* The table of a run.                                                     *)

LEMMA SumOverIs ==
    ASSUME NEW S, IsFiniteSet(S), NEW w
    PROVE  \E T : Sums(T, w, S) /\ SumOver(S, w) = T[S]
<1> DEFINE T == CHOOSE T : T = [t \in SUBSET S |-> IF t = {} THEN 0
                                     ELSE w[CHOOSE x \in t : TRUE] + T[t \ {CHOOSE x \in t : TRUE}]]
<1>1. SumOver(S, w) = T[S]
  BY DEF SumOver, FoldSet, MapThenFoldSet
<1>2. \E F : Sums(F, w, S)
  BY SumsExist
<1>3. Sums(T, w, S)
  BY <1>2 DEF Sums, Chosen
<1> QED
  BY <1>1, <1>3

LEMMA SumOfNone == ASSUME NEW w PROVE SumOver({}, w) = 0
<1>1. IsFiniteSet({})
  BY FS_EmptySet
<1>2. PICK T : Sums(T, w, {}) /\ SumOver({}, w) = T[{}]
  BY <1>1, SumOverIs
<1> QED
  BY <1>2, SumsStep

\* One weight more, or greater by d.
LEMMA SumGrows ==
    ASSUME NEW S, IsFiniteSet(S), NEW x, NEW w, NEW u, NEW d \in Nat,
           \A y \in S : w[y] \in Nat,
           \A y \in S \ {x} : u[y] = w[y],
           u[x] = (IF x \in S THEN w[x] ELSE 0) + d
    PROVE  SumOver(S \cup {x}, u) = SumOver(S, w) + d
<1> DEFINE G == S \cup {x}
           rest == S \ {x}
<1>1. IsFiniteSet(G) /\ IsFiniteSet(rest) /\ rest \in SUBSET (S \cap G) /\ G \ {x} = rest
  BY FS_AddElement, FS_Subset
<1>2. PICK T : Sums(T, w, S) /\ SumOver(S, w) = T[S]
  BY SumOverIs
<1>3. PICK U : Sums(U, u, G) /\ SumOver(G, u) = U[G]
  BY <1>1, SumOverIs
<1>4. \A y \in G : u[y] \in Nat
  OBVIOUS
<1>5. U[G] = u[x] + U[rest]
  <2>1. AnyOrder(U, u, G)
    BY <1>1, <1>3, <1>4, SumsAnyOrder
  <2> QED
    BY <1>1, <2>1 DEF AnyOrder
<1>6. T[S] = (IF x \in S THEN w[x] ELSE 0) + T[rest] /\ T[rest] \in Nat
  <2>1. AnyOrder(T, w, S) /\ \A t \in SUBSET S : T[t] \in Nat
    BY <1>2, SumsAnyOrder, SumsNat
  <2>2. CASE x \in S
    BY <2>1, <2>2 DEF AnyOrder
  <2>3. CASE x \notin S
    <3>1. rest = S
      BY <2>3
    <3>2. T[S] \in Nat
      BY <2>1
    <3>3. T[rest] = T[S]
      BY <3>1
    <3>4. (IF x \in S THEN w[x] ELSE 0) = 0
      BY <2>3
    <3> QED
      BY ONLY <3>2, <3>3, <3>4
  <2> QED
    BY <2>2, <2>3
<1>7. T[rest] = U[rest]
  <2>1. \A t \in SUBSET rest : T[t] = U[t]
    BY <1>1, <1>2, <1>3, SumsAgree
  <2> QED
    BY <2>1
<1>8. u[x] \in Nat /\ (x \in S => w[x] \in Nat)
  OBVIOUS
<1> QED
  BY <1>2, <1>3, <1>5, <1>6, <1>7, <1>8

IsAnswer(a) == a.lat \in Nat /\ a.ok \in BOOLEAN

IsBucket(b) ==
    /\ b.count \in Nat /\ b.totalLat \in Nat /\ b.minLat \in Nat /\ b.maxLat \in Nat
    /\ b.minLat * b.count <= b.totalLat
    /\ b.totalLat <= b.maxLat * b.count

\* What the rows say of their sums and extremes, and the latencies kept lie between these.
Table(s) ==
    /\ s.completed \in Nat /\ s.success \in Nat /\ s.failed \in Nat /\ s.completed = s.success + s.failed
    /\ s.sumLat \in Nat /\ s.minLat \in Nat /\ s.maxLat \in Nat
    /\ IsFiniteSet(DOMAIN s.buckets)
    /\ \A c \in DOMAIN s.buckets : IsBucket(s.buckets[c])
    /\ s.completed = SumOver(DOMAIN s.buckets, [c \in DOMAIN s.buckets |-> s.buckets[c].count])
    /\ s.sumLat = SumOver(DOMAIN s.buckets, [c \in DOMAIN s.buckets |-> s.buckets[c].totalLat])
    /\ s.completed = 0 => DOMAIN s.buckets = {} /\ s.maxLat = 0
    /\ s.completed > 0 => \E c \in DOMAIN s.buckets : s.minLat = s.buckets[c].minLat
    /\ s.completed > 0 => \E c \in DOMAIN s.buckets : s.maxLat = s.buckets[c].maxLat
    /\ \A c \in DOMAIN s.buckets : s.minLat <= s.buckets[c].minLat /\ s.buckets[c].maxLat <= s.maxLat
    /\ s.lat \in Seq(Nat) /\ (s.completed = 0 => s.lat = <<>>)
    /\ \A i \in 1..Len(s.lat) : s.minLat <= s.lat[i] /\ s.lat[i] <= s.maxLat

LEMMA Extremes ==
    ASSUME NEW n \in Nat, NEW m \in Nat
    PROVE  /\ Lesser(n, m) \in Nat /\ Lesser(n, m) <= n /\ Lesser(n, m) <= m
           /\ Lesser(n, m) = n \/ Lesser(n, m) = m
           /\ Greater(n, m) \in Nat /\ n <= Greater(n, m) /\ m <= Greater(n, m)
           /\ Greater(n, m) = n \/ Greater(n, m) = m
  BY DEF Lesser, Greater

LEMMA LeqTrans ==
    ASSUME NEW a \in Nat, NEW b \in Nat, NEW c \in Nat, a <= b, b <= c
    PROVE  a <= c
  OBVIOUS

LEMMA ProductGrows ==
    ASSUME NEW m \in Nat, NEW k \in Nat, NEW c \in Nat, m <= k
    PROVE  m * c <= k * c
<1>1. k = m + (k - m) /\ k - m \in Nat
  OBVIOUS
<1>2. PICK d \in Nat : d = k - m /\ k = m + d
  BY <1>1
<1>3. (m + d) * c = m * c + d * c
  BY SMT
<1>4. d * c \in Nat /\ m * c \in Nat
  BY SMT
<1> QED
  BY <1>2, <1>3, <1>4

LEMMA CountedIsBucket ==
    ASSUME NEW b, IsBucket(b), NEW lat \in Nat, NEW n, n = Counted(b, lat)
    PROVE  /\ IsBucket(n)
           /\ n.count = b.count + 1 /\ n.totalLat = b.totalLat + lat
           /\ n.minLat = Lesser(b.minLat, lat) /\ n.maxLat = Greater(b.maxLat, lat)
<1>1. /\ n.count = b.count + 1 /\ n.totalLat = b.totalLat + lat
      /\ n.minLat = Lesser(b.minLat, lat) /\ n.maxLat = Greater(b.maxLat, lat)
  BY DEF Counted
<1>2. PICK c, t, lo, hi, m, k : /\ c = b.count /\ t = b.totalLat /\ lo = b.minLat /\ hi = b.maxLat
                                /\ m = Lesser(lo, lat) /\ k = Greater(hi, lat)
  OBVIOUS
<1>3. c \in Nat /\ t \in Nat /\ lo \in Nat /\ hi \in Nat /\ lo * c <= t /\ t <= hi * c
  BY <1>2 DEF IsBucket
<1>4. m \in Nat /\ k \in Nat /\ m <= lo /\ m <= lat /\ hi <= k /\ lat <= k
  BY <1>2, <1>3, Extremes
<1>5. m * c <= lo * c /\ hi * c <= k * c
  BY <1>3, <1>4, ProductGrows
<1>6. m * (c + 1) = m * c + m /\ k * (c + 1) = k * c + k
  BY <1>3, <1>4, SMT
<1>7. m * c \in Nat /\ k * c \in Nat /\ lo * c \in Nat /\ hi * c \in Nat
  BY <1>3, <1>4, SMT
<1>8. m * (c + 1) <= t + lat /\ t + lat <= k * (c + 1)
  BY <1>3, <1>4, <1>5, <1>6, <1>7
<1>9. n.count = c + 1 /\ n.totalLat = t + lat /\ n.minLat = m /\ n.maxLat = k
  BY <1>1, <1>2
<1> QED
  BY <1>1, <1>3, <1>4, <1>8, <1>9 DEF IsBucket

LEMMA NewIsBucket ==
    ASSUME NEW lat \in Nat, NEW b, b = NewBucket(lat)
    PROVE  IsBucket(b) /\ b.count = 0 /\ b.totalLat = 0 /\ b.minLat = lat /\ b.maxLat = 0
<1>1. b.count = 0 /\ b.totalLat = 0 /\ b.minLat = lat /\ b.maxLat = 0
  BY DEF NewBucket
<1>2. lat * 0 = 0 /\ 0 * 0 = 0
  BY SMT
<1> QED
  BY <1>1, <1>2 DEF IsBucket

\* Counting an answer keeps the table.
LEMMA RecordedTable ==
    ASSUME NEW s, Table(s), NEW a, IsAnswer(a), NEW r, r = Recorded(s, a)
    PROVE  /\ Table(r) /\ r.completed = s.completed + 1 /\ r.lat # <<>>
           /\ s.completed > 0 => r.minLat <= s.minLat
           /\ s.maxLat <= r.maxLat
<1>1. PICK B, D, x, lat, G : B = s.buckets /\ D = DOMAIN B /\ x = a.code /\ lat = a.lat /\ G = r.buckets
  OBVIOUS
<1>2. /\ lat \in Nat
      /\ s.completed \in Nat /\ s.success \in Nat /\ s.failed \in Nat /\ s.completed = s.success + s.failed
      /\ s.sumLat \in Nat /\ s.minLat \in Nat /\ s.maxLat \in Nat
      /\ IsFiniteSet(D) /\ \A c \in D : IsBucket(B[c])
  BY <1>1 DEF Table, IsAnswer
<1>3. /\ r.completed = s.completed + 1 /\ r.sumLat = s.sumLat + lat
      /\ r.minLat = (IF s.completed = 0 THEN lat ELSE Lesser(s.minLat, lat))
      /\ r.maxLat = Greater(s.maxLat, lat)
      /\ r.success = s.success + (IF a.ok THEN 1 ELSE 0)
      /\ r.failed = s.failed + (IF a.ok THEN 0 ELSE 1)
      /\ G = Bucketed(B, a)
      /\ r.lat = (IF Len(s.lat) < LatCap THEN Append(s.lat, lat) ELSE s.lat)
  BY <1>1 DEF Recorded
<1>4. PICK old : old = IF x \in D THEN B[x] ELSE NewBucket(lat)
  OBVIOUS
<1>5. /\ IsBucket(old)
      /\ x \notin D => old.count = 0 /\ old.totalLat = 0 /\ old.minLat = lat /\ old.maxLat = 0
      /\ x \in D => old = B[x]
  BY <1>2, <1>4, NewIsBucket
<1>6. PICK n : n = Counted(old, lat)
  OBVIOUS
<1>7. /\ IsBucket(n) /\ n.count = old.count + 1 /\ n.totalLat = old.totalLat + lat
      /\ n.minLat = Lesser(old.minLat, lat) /\ n.maxLat = Greater(old.maxLat, lat)
  BY <1>2, <1>5, <1>6, CountedIsBucket
<1>8. DOMAIN G = D \cup {x} /\ G[x] = n /\ \A c \in D \ {x} : G[c] = B[c]
  BY <1>1, <1>3, <1>4, <1>6 DEF Bucketed
<1>9. IsFiniteSet(D \cup {x}) /\ \A c \in D \cup {x} : IsBucket(G[c])
  BY <1>2, <1>7, <1>8, FS_AddElement
<1>10. old.count \in Nat /\ old.totalLat \in Nat /\ old.minLat \in Nat /\ old.maxLat \in Nat
  BY <1>5 DEF IsBucket
<1>11. SumOver(D \cup {x}, [c \in D \cup {x} |-> G[c].count]) = s.completed + 1
  <2>1. PICK w, u : w = [c \in D |-> B[c].count] /\ u = [c \in D \cup {x} |-> G[c].count]
    OBVIOUS
  <2>2. \A y \in D : w[y] \in Nat
    BY <1>2, <2>1 DEF IsBucket
  <2>3. \A y \in D \ {x} : u[y] = w[y]
    BY <1>8, <2>1
  <2>4. u[x] = (IF x \in D THEN w[x] ELSE 0) + 1
    BY <1>5, <1>7, <1>8, <1>10, <2>1
  <2>5. SumOver(D \cup {x}, u) = SumOver(D, w) + 1
    BY <1>2, <2>2, <2>3, <2>4, SumGrows
  <2>6. s.completed = SumOver(D, w)
    BY <1>1, <2>1 DEF Table
  <2> QED
    BY <2>1, <2>5, <2>6
<1>12. SumOver(D \cup {x}, [c \in D \cup {x} |-> G[c].totalLat]) = s.sumLat + lat
  <2>1. PICK w, u : w = [c \in D |-> B[c].totalLat] /\ u = [c \in D \cup {x} |-> G[c].totalLat]
    OBVIOUS
  <2>2. \A y \in D : w[y] \in Nat
    BY <1>2, <2>1 DEF IsBucket
  <2>3. \A y \in D \ {x} : u[y] = w[y]
    BY <1>8, <2>1
  <2>4. u[x] = (IF x \in D THEN w[x] ELSE 0) + lat
    BY <1>2, <1>5, <1>7, <1>8, <1>10, <2>1
  <2>5. SumOver(D \cup {x}, u) = SumOver(D, w) + lat
    BY <1>2, <2>2, <2>3, <2>4, SumGrows
  <2>6. s.sumLat = SumOver(D, w)
    BY <1>1, <2>1 DEF Table
  <2> QED
    BY <2>1, <2>5, <2>6
<1>13. /\ s.completed = 0 => D = {} /\ s.maxLat = 0 /\ s.lat = <<>>
       /\ s.completed > 0 => \E c \in D : s.minLat = B[c].minLat
       /\ s.completed > 0 => \E c \in D : s.maxLat = B[c].maxLat
       /\ \A c \in D : s.minLat <= B[c].minLat /\ B[c].maxLat <= s.maxLat
       /\ \A c \in D : B[c].minLat \in Nat /\ B[c].maxLat \in Nat
       /\ s.lat \in Seq(Nat)
       /\ \A i \in 1..Len(s.lat) : s.minLat <= s.lat[i] /\ s.lat[i] <= s.maxLat
  BY <1>1 DEF Table, IsBucket
<1>14. /\ r.minLat \in Nat /\ r.maxLat \in Nat /\ r.minLat <= lat /\ lat <= r.maxLat /\ s.maxLat <= r.maxLat
       /\ s.completed > 0 => r.minLat <= s.minLat
       /\ n.minLat \in Nat /\ n.maxLat \in Nat
  <2>1. n.minLat \in Nat /\ n.maxLat \in Nat
    BY <1>7 DEF IsBucket
  <2>2. PICK lo, hi : lo = Lesser(s.minLat, lat) /\ hi = Greater(s.maxLat, lat)
    OBVIOUS
  <2>3. /\ lo \in Nat /\ lo <= s.minLat /\ lo <= lat
        /\ hi \in Nat /\ s.maxLat <= hi /\ lat <= hi
    BY <1>2, <2>2, Extremes
  <2>4. r.maxLat = hi /\ r.minLat = (IF s.completed = 0 THEN lat ELSE lo)
    BY <1>3, <2>2
  <2> QED
    BY <1>2, <2>1, <2>3, <2>4
<1>15. r.completed > 0 => \E c \in D \cup {x} : r.minLat = G[c].minLat
  <2>1. CASE s.completed = 0
    <3>1. G[x].minLat = lat
      BY <1>2, <1>5, <1>7, <1>8, <1>13, <2>1 DEF Lesser
    <3> QED
      BY <1>3, <2>1, <3>1
  <2>2. CASE s.completed > 0 /\ s.minLat < lat
    <3>1. PICK c \in D : s.minLat = B[c].minLat
      BY <1>13, <2>2
    <3>2. r.minLat = s.minLat
      BY <1>2, <1>3, <2>2 DEF Lesser
    <3>3. CASE c = x
      <4>1. G[x].minLat = s.minLat
        BY <1>2, <1>5, <1>7, <1>8, <2>2, <3>1, <3>3 DEF Lesser
      <4> QED
        BY <3>2, <4>1
    <3>4. CASE c # x
      BY <1>8, <3>1, <3>2, <3>4
    <3> QED
      BY <3>3, <3>4
  <2>3. CASE s.completed > 0 /\ ~(s.minLat < lat)
    <3>1. r.minLat = lat
      BY <1>2, <1>3, <2>3 DEF Lesser
    <3>2. ~(old.minLat < lat)
      BY <1>2, <1>5, <1>10, <1>13, <2>3
    <3>3. G[x].minLat = lat
      BY <1>7, <1>8, <3>2 DEF Lesser
    <3> QED
      BY <3>1, <3>3
  <2> QED
    BY <1>2, <2>1, <2>2, <2>3
<1>16. r.completed > 0 => \E c \in D \cup {x} : r.maxLat = G[c].maxLat
  <2>1. CASE s.maxLat < lat
    <3>1. r.maxLat = lat
      BY <1>3, <2>1 DEF Greater
    <3>2. old.maxLat < lat
      BY <1>2, <1>5, <1>10, <1>13, <2>1
    <3>3. G[x].maxLat = lat
      BY <1>7, <1>8, <3>2 DEF Greater
    <3> QED
      BY <3>1, <3>3
  <2>2. CASE ~(s.maxLat < lat) /\ s.completed > 0
    <3>1. PICK c \in D : s.maxLat = B[c].maxLat
      BY <1>13, <2>2
    <3>2. r.maxLat = s.maxLat
      BY <1>3, <2>2 DEF Greater
    <3>3. CASE c = x
      <4>1. G[x].maxLat = s.maxLat
        BY <1>5, <1>7, <1>8, <2>2, <3>1, <3>3 DEF Greater
      <4> QED
        BY <3>2, <4>1
    <3>4. CASE c # x
      BY <1>8, <3>1, <3>2, <3>4
    <3> QED
      BY <3>3, <3>4
  <2>3. CASE ~(s.maxLat < lat) /\ s.completed = 0
    <3>1. x \notin D /\ s.maxLat = 0
      BY <1>13, <2>3
    <3>2. lat = 0 /\ old.maxLat = 0
      BY <1>2, <1>5, <2>3, <3>1
    <3>3. G[x].maxLat = 0 /\ r.maxLat = 0
      BY <1>3, <1>7, <1>8, <3>1, <3>2 DEF Greater
    <3> QED
      BY <3>3
  <2> QED
    BY <1>2, <2>1, <2>2, <2>3
<1>17. \A c \in D \cup {x} : r.minLat <= G[c].minLat /\ G[c].maxLat <= r.maxLat
  <2>1. ASSUME NEW c \in D \ {x} PROVE r.minLat <= G[c].minLat /\ G[c].maxLat <= r.maxLat
    <3>1. s.completed > 0 /\ c \in D
      BY <1>2, <1>13, <2>1
    <3> QED
      <4>1. G[c] = B[c] /\ B[c].minLat \in Nat /\ B[c].maxLat \in Nat
        BY <1>8, <1>13, <3>1
      <4>2. s.minLat <= B[c].minLat /\ B[c].maxLat <= s.maxLat
        BY <1>13, <3>1
      <4>3. r.minLat <= s.minLat /\ s.maxLat <= r.maxLat
        BY <1>14, <3>1
      <4>4. r.minLat <= B[c].minLat /\ B[c].maxLat <= r.maxLat
        <5>1. r.minLat \in Nat /\ r.maxLat \in Nat /\ s.minLat \in Nat /\ s.maxLat \in Nat
          BY <1>2, <1>14
        <5> QED
          BY ONLY <4>1, <4>2, <4>3, <5>1, LeqTrans
      <4> QED
        BY <4>1, <4>4
  <2>2. r.minLat <= n.minLat
    <3>1. n.minLat = old.minLat \/ n.minLat = lat
      BY <1>2, <1>7, <1>10, Extremes
    <3>2. x \in D => s.completed > 0 /\ s.minLat <= old.minLat
      BY <1>2, <1>5, <1>13
    <3> QED
      BY <1>2, <1>5, <1>10, <1>14, <3>1, <3>2
  <2>3. n.maxLat <= r.maxLat
    <3>1. n.maxLat = old.maxLat \/ n.maxLat = lat
      BY <1>2, <1>7, <1>10, Extremes
    <3>2. x \in D => old.maxLat <= s.maxLat
      BY <1>5, <1>13
    <3> QED
      BY <1>2, <1>5, <1>10, <1>14, <3>1, <3>2
  <2> QED
    BY <1>8, <2>1, <2>2, <2>3
<1>18. r.lat \in Seq(Nat) /\ r.lat # <<>>
       /\ \A i \in 1..Len(r.lat) : r.minLat <= r.lat[i] /\ r.lat[i] <= r.maxLat
  <2>1. Len(s.lat) \in Nat /\ \A i \in 1..Len(s.lat) : s.lat[i] \in Nat /\ s.completed > 0
    <3>1. s.completed = 0 => Len(s.lat) = 0
      BY <1>13, EmptySeq
    <3> QED
      BY <1>2, <1>13, <3>1, LenProperties
  <2>2. \A i \in 1..Len(s.lat) : r.minLat <= s.lat[i] /\ s.lat[i] <= r.maxLat
    <3>1. ASSUME NEW i \in 1..Len(s.lat) PROVE r.minLat <= s.lat[i] /\ s.lat[i] <= r.maxLat
      <4>1. s.lat[i] \in Nat /\ s.completed > 0
        BY <2>1, <3>1
      <4>2. s.minLat <= s.lat[i] /\ s.lat[i] <= s.maxLat
        BY <1>13, <3>1
      <4>3. r.minLat <= s.minLat /\ s.maxLat <= r.maxLat
        BY <1>14, <4>1
      <4>4. r.minLat \in Nat /\ r.maxLat \in Nat /\ s.minLat \in Nat /\ s.maxLat \in Nat
        BY <1>2, <1>14
      <4> QED
        BY ONLY <4>1, <4>2, <4>3, <4>4, LeqTrans
    <3> QED
      BY <3>1
  <2>3. CASE Len(s.lat) < LatCap
    <3>1. PICK q : q = Append(s.lat, lat) /\ r.lat = q
      BY <1>3, <2>3
    <3>2. q \in Seq(Nat) /\ Len(q) = Len(s.lat) + 1 /\ q # <<>> /\ q[Len(s.lat) + 1] = lat
          /\ \A i \in 1..Len(s.lat) : q[i] = s.lat[i]
      BY <1>2, <1>13, <3>1, AppendProperties
    <3>3. \A i \in 1..Len(q) : i \in 1..Len(s.lat) \/ i = Len(s.lat) + 1
      BY <2>1, <3>2
    <3> QED
      BY <1>14, <2>2, <3>1, <3>2, <3>3
  <2>4. CASE ~(Len(s.lat) < LatCap)
    <3>1. r.lat = s.lat /\ Len(s.lat) >= 1
      BY <1>3, <2>1, <2>4, RunnerAssumption
    <3>2. s.lat # <<>>
      BY <1>13, <3>1, EmptySeq
    <3> QED
      BY <1>13, <2>2, <3>1, <3>2
  <2> QED
    BY <2>3, <2>4
<1>19. /\ r.completed \in Nat /\ r.success \in Nat /\ r.failed \in Nat /\ r.completed = r.success + r.failed
       /\ r.sumLat \in Nat /\ r.completed > 0
  <2>1. \/ r.success = s.success + 1 /\ r.failed = s.failed + 0
        \/ r.success = s.success + 0 /\ r.failed = s.failed + 1
    BY <1>3
  <2>2. r.completed = s.completed + 1 /\ r.sumLat = s.sumLat + lat
    BY <1>3
  <2>3. /\ lat \in Nat /\ s.sumLat \in Nat /\ s.completed \in Nat
        /\ s.success \in Nat /\ s.failed \in Nat /\ s.completed = s.success + s.failed
    BY <1>2
  <2> QED
    BY ONLY <2>1, <2>2, <2>3
<1>20. Table(r)
  <2>1. DOMAIN r.buckets = D \cup {x} /\ r.buckets = G
    BY <1>1, <1>8
  <2>2. /\ IsFiniteSet(DOMAIN r.buckets)
        /\ \A c \in DOMAIN r.buckets : IsBucket(r.buckets[c])
        /\ \A c \in DOMAIN r.buckets : r.minLat <= r.buckets[c].minLat /\ r.buckets[c].maxLat <= r.maxLat
    BY <1>9, <1>17, <2>1
  <2>3. /\ r.completed > 0 => \E c \in DOMAIN r.buckets : r.minLat = r.buckets[c].minLat
        /\ r.completed > 0 => \E c \in DOMAIN r.buckets : r.maxLat = r.buckets[c].maxLat
    BY <1>15, <1>16, <2>1
  <2>4. r.completed = SumOver(DOMAIN r.buckets, [c \in DOMAIN r.buckets |-> r.buckets[c].count])
    BY ONLY <1>3, <1>11, <2>1
  <2>5. r.sumLat = SumOver(DOMAIN r.buckets, [c \in DOMAIN r.buckets |-> r.buckets[c].totalLat])
    BY ONLY <1>3, <1>12, <2>1
  <2>6. r.completed # 0
    BY <1>19
  <2> QED
    BY ONLY <1>14, <1>18, <1>19, <2>2, <2>3, <2>4, <2>5, <2>6 DEF Table
<1> QED
  BY <1>3, <1>14, <1>18, <1>20

-----------------------------------------------------------------------------
(* Counting: the workers in some places, when one of them moves.           *)

LEMMA InFinite == ASSUME NEW P PROVE IsFiniteSet(In(P)) /\ Cardinality(In(P)) \in Nat
<1>1. In(P) \subseteq Workers /\ IsFiniteSet(Workers)
  BY RunnerAssumption DEF In
<1> QED
  BY <1>1, FS_Subset, FS_CardinalityType

LEMMA WorkerMoves ==
    ASSUME NEW P, NEW w \in Workers, NEW n, worker = [v \in Workers |-> worker[v]],
           worker' = [worker EXCEPT ![w] = n]
    PROVE  Cardinality(In(P)') = Cardinality(In(P)) - (IF worker[w].pc \in P THEN 1 ELSE 0)
                                                    + (IF n.pc \in P THEN 1 ELSE 0)
<1>1. \A v \in Workers : worker'[v] = IF v = w THEN n ELSE worker[v]
  OBVIOUS
<1>2. IsFiniteSet(In(P)) /\ Cardinality(In(P)) \in Nat
  BY InFinite
<1>3. PICK old, new : old = In(P) /\ new = In(P)'
  OBVIOUS
<1>4. \A v \in Workers : (v \in old <=> worker[v].pc \in P) /\ (v \in new <=> worker'[v].pc \in P)
  BY <1>3 DEF In
<1>5. old \subseteq Workers /\ new \subseteq Workers
  BY <1>3 DEF In
<1>6. CASE worker[w].pc \in P /\ n.pc \in P
  <2>1. new = old
    BY <1>1, <1>4, <1>5, <1>6
  <2> QED
    BY <1>2, <1>3, <1>6, <2>1
<1>7. CASE worker[w].pc \notin P /\ n.pc \notin P
  <2>1. new = old
    BY <1>1, <1>4, <1>5, <1>7
  <2> QED
    BY <1>2, <1>3, <1>7, <2>1
<1>8. CASE worker[w].pc \in P /\ n.pc \notin P
  <2>1. new = old \ {w} /\ w \in old
    BY <1>1, <1>4, <1>5, <1>8
  <2>2. Cardinality(old \ {w}) = Cardinality(old) - 1
    BY <1>2, <1>3, <2>1, FS_RemoveElement
  <2> QED
    BY <1>2, <1>3, <1>8, <2>1, <2>2
<1>9. CASE worker[w].pc \notin P /\ n.pc \in P
  <2>1. new = old \cup {w} /\ w \notin old
    BY <1>1, <1>4, <1>5, <1>9
  <2>2. Cardinality(old \cup {w}) = Cardinality(old) + 1
    BY <1>2, <1>3, <2>1, FS_AddElement
  <2> QED
    BY <1>2, <1>3, <1>9, <2>1, <2>2
<1> QED
  BY <1>6, <1>7, <1>8, <1>9

-----------------------------------------------------------------------------
(* The invariant of the runs.                                              *)

IsWorker(x) == x = [pc |-> x.pc, run |-> x.run, got |-> x.got] /\ IsAnswer(x.got)
IsFeeder(x) == x = [pc |-> x.pc, next |-> x.next] /\ x.next \in Nat

RunShape ==
    /\ run \in 0..MaxRuns /\ cancelOf = run
    /\ planned \in Nat
    /\ cut \subseteq over /\ over \subseteq 1..run
    /\ feeder = [r \in Runs |-> feeder[r]] /\ \A r \in Runs : IsFeeder(feeder[r])
    /\ \A r \in Runs : feeder[r].pc # "none" => r <= run
    /\ worker = [w \in Workers |-> worker[w]] /\ \A w \in Workers : IsWorker(worker[w])
    /\ sent \in Int /\ inFlight \in Int /\ lost \in Nat

\* Only the run that runs is fed and worked on, and it is out of time only if it was cut.
RunOrder ==
    /\ \A w \in Workers : worker[w].pc # "none" => worker[w].run = run /\ running
    /\ \A r \in Runs : feeder[r].pc \in {"feed", "wait"} <=> r = run /\ running
    /\ running => (run \in over <=> run \in cut)

\* Every number that was fed to a run that was not cut is in the hands of a worker or
\* counted, and none is fed beyond those planned.
RunCounts ==
    /\ running /\ run \notin cut =>
        /\ lost = 0
        /\ feeder[run].next = stats.completed + Cardinality(In({"check", "fly", "landed"}))
        /\ planned > 0 => feeder[run].next <= planned
        /\ feeder[run].pc = "wait" => planned > 0 /\ feeder[run].next = planned
    /\ run > 0 /\ ~running /\ run \notin cut => stats.completed = planned

\* The percentiles were taken from latencies between the extremes then, which have
\* only moved apart since.
ShownPercentiles ==
    /\ shownStats.of \in Nat /\ shownStats.of <= stats.completed
    /\ shownStats.of > 0 =>
        /\ shownStats.p50 \in Nat /\ shownStats.p90 \in Nat /\ shownStats.p99 \in Nat
        /\ stats.minLat <= shownStats.p50 /\ shownStats.p50 <= shownStats.p90
        /\ shownStats.p90 <= shownStats.p99 /\ shownStats.p99 <= stats.maxLat

StatsInv == Table(stats) /\ ShownPercentiles

RunCore == RunShape /\ RunOrder /\ RunCounts /\ SentExact

RunInv == RunCore /\ StatsInv

RunnerNext ==
    \/ ChooseMode
    \/ RunnerAction
    \/ Snapshot
    \/ RunnerStep
    \/ Stop

-----------------------------------------------------------------------------
(* The table and the percentiles.                                          *)

LEMMA NoTable ==
    ASSUME NEW s, s = NoStats
    PROVE  Table(s) /\ s.completed = 0
<1>1. /\ s.completed = 0 /\ s.success = 0 /\ s.failed = 0 /\ s.sumLat = 0 /\ s.minLat = 0 /\ s.maxLat = 0
      /\ s.buckets = <<>> /\ s.lat = <<>>
  BY DEF NoStats
<1>2. DOMAIN s.buckets = {}
  BY <1>1
<1>3. SumOver({}, [c \in {} |-> s.buckets[c].count]) = 0 /\ SumOver({}, [c \in {} |-> s.buckets[c].totalLat]) = 0
  BY SumOfNone
<1>4. IsFiniteSet({}) /\ <<>> \in Seq(Nat) /\ Len(<<>>) = 0
  BY FS_EmptySet
<1> QED
  BY <1>1, <1>2, <1>3, <1>4 DEF Table

Between(s, lo, hi) == \A i \in 1..Len(s) : lo <= s[i] /\ s[i] <= hi

Spread(t, lo, hi) ==
    /\ Percentile(t, 50) \in Nat /\ Percentile(t, 90) \in Nat /\ Percentile(t, 99) \in Nat
    /\ lo <= Percentile(t, 50) /\ Percentile(t, 50) <= Percentile(t, 90)
    /\ Percentile(t, 90) <= Percentile(t, 99) /\ Percentile(t, 99) <= hi

\* The percentiles of a sequence in order are in order.
LEMMA InOrderPercentiles ==
    ASSUME NEW s \in Seq(Nat), s # <<>>, NEW t, t = InOrder(s), NEW lo \in Nat, NEW hi \in Nat,
           Between(s, lo, hi)
    PROVE  Spread(t, lo, hi)
<1>1. PICK n : n = Len(s)
  OBVIOUS
<1>2. n \in Nat /\ n >= 1
  BY <1>1, EmptySeq, LenProperties
<1>3. /\ Len(t) = n
      /\ \A i \in 1..n : \E j \in 1..n : t[i] = s[j]
      /\ \A i, j \in 1..n : i < j => t[i] <= t[j]
  <2>1. Sorts(t, s)
    BY InOrderSorts
  <2> QED
    BY <1>1, <2>1 DEF Sorts
<1>4. PICK a, b, c : /\ a = (50 * (n - 1)) \div 100 + 1
                     /\ b = (90 * (n - 1)) \div 100 + 1
                     /\ c = (99 * (n - 1)) \div 100 + 1
  OBVIOUS
<1>5. a \in 1..n /\ b \in 1..n /\ c \in 1..n /\ a <= b /\ b <= c
  BY <1>2, <1>4
<1>6. \A i \in 1..n : t[i] \in Nat /\ lo <= t[i] /\ t[i] <= hi
  <2>1. \A i \in 1..n : s[i] \in Nat /\ lo <= s[i] /\ s[i] <= hi
    BY <1>1, LenProperties DEF Between
  <2> QED
    BY <1>3, <2>1
<1>7. t[a] <= t[b] /\ t[b] <= t[c]
  <2>1. (a < b \/ a = b) /\ (b < c \/ b = c)
    BY <1>2, <1>5
  <2>2. t[a] \in Nat /\ t[b] \in Nat /\ t[c] \in Nat
    BY <1>5, <1>6
  <2>3. \A i, j \in 1..n : i < j => t[i] <= t[j]
    BY <1>3
  <2> QED
    BY ONLY <1>5, <2>1, <2>2, <2>3
<1>8. Percentile(t, 50) = t[a] /\ Percentile(t, 90) = t[b] /\ Percentile(t, 99) = t[c]
  BY <1>3, <1>4 DEF Percentile
<1> QED
  BY <1>5, <1>6, <1>7, <1>8 DEF Spread

LEMMA SnapshotStats ==
    ASSUME StatsInv, Snapshot
    PROVE  StatsInv'
<1>1. stats' = stats
  BY DEF Snapshot, configVars
<1>2. PICK s, t, p : s = stats.lat /\ t = InOrder(s) /\ p = PercentilesOf(t, stats.completed)
  OBVIOUS
<1>3. shownStats' = p /\ s # <<>>
  BY <1>2 DEF Snapshot
<1>4. s \in Seq(Nat) /\ stats.minLat \in Nat /\ stats.maxLat \in Nat /\ stats.completed \in Nat
      /\ \A i \in 1..Len(s) : stats.minLat <= s[i] /\ s[i] <= stats.maxLat
  BY <1>2 DEF StatsInv, Table
<1>5. /\ p.of = stats.completed /\ p.p50 = Percentile(t, 50) /\ p.p90 = Percentile(t, 90)
      /\ p.p99 = Percentile(t, 99)
  BY <1>2 DEF PercentilesOf
<1>6. /\ p.p50 \in Nat /\ p.p90 \in Nat /\ p.p99 \in Nat
      /\ stats.minLat <= p.p50 /\ p.p50 <= p.p90 /\ p.p90 <= p.p99 /\ p.p99 <= stats.maxLat
  <2>1. PICK lo, hi : lo = stats.minLat /\ hi = stats.maxLat
    OBVIOUS
  <2>2. lo \in Nat /\ hi \in Nat /\ Between(s, lo, hi)
    BY <1>4, <2>1 DEF Between
  <2>3. Spread(t, lo, hi)
    BY <1>2, <1>3, <1>4, <2>2, InOrderPercentiles
  <2> QED
    BY <1>5, <2>1, <2>3 DEF Spread
<1>7. ShownPercentiles'
  BY <1>1, <1>3, <1>4, <1>5, <1>6 DEF ShownPercentiles
<1> QED
  BY <1>1, <1>7 DEF StatsInv

LEMMA RecordStats ==
    ASSUME StatsInv, NEW w \in Workers, NEW next, Record(w, next), IsAnswer(worker[w].got)
    PROVE  StatsInv' /\ stats'.completed = stats.completed + 1
<1>1. PICK a, r : a = worker[w].got /\ r = Recorded(stats, a)
  OBVIOUS
<1>2. stats' = r /\ shownStats' = shownStats
  BY <1>1 DEF Record, workerOnly
<1>3. /\ Table(r) /\ r.completed = stats.completed + 1 /\ r.lat # <<>>
      /\ stats.completed > 0 => r.minLat <= stats.minLat
      /\ stats.maxLat <= r.maxLat
  BY <1>1, RecordedTable DEF StatsInv
<1>4. /\ r.minLat \in Nat /\ r.maxLat \in Nat /\ stats.minLat \in Nat /\ stats.maxLat \in Nat
      /\ stats.completed \in Nat
  BY <1>3 DEF StatsInv, Table
<1>5. /\ shownStats.of \in Nat /\ shownStats.of <= stats.completed
      /\ shownStats.of > 0 =>
            /\ shownStats.p50 \in Nat /\ shownStats.p90 \in Nat /\ shownStats.p99 \in Nat
            /\ stats.minLat <= shownStats.p50 /\ shownStats.p50 <= shownStats.p90
            /\ shownStats.p90 <= shownStats.p99 /\ shownStats.p99 <= stats.maxLat
  BY DEF StatsInv, ShownPercentiles
<1>6. ShownPercentiles'
  BY <1>2, <1>3, <1>4, <1>5 DEF ShownPercentiles
<1> QED
  BY <1>2, <1>3, <1>6 DEF StatsInv

LEMMA NothingStats ==
    ASSUME stats' = NoStats, shownStats' = NoPercentiles
    PROVE  StatsInv' /\ stats'.completed = 0
<1>1. PICK s : s = stats'
  OBVIOUS
<1>2. Table(s) /\ s.completed = 0
  BY <1>1, NoTable
<1>3. ShownPercentiles'
  BY <1>1, <1>2 DEF ShownPercentiles, NoPercentiles
<1> QED
  BY <1>1, <1>2, <1>3 DEF StatsInv

LEMMA StatsKept == StatsInv /\ UNCHANGED <<stats, shownStats>> => StatsInv'
  BY DEF StatsInv, ShownPercentiles
-----------------------------------------------------------------------------
(* A step of a goroutine: a worker, or the one that feeds, moves on.       *)

Moves(w, p, a) == worker' = [worker EXCEPT ![w] = [pc |-> p, run |-> worker[w].run, got |-> a]]

LEMMA PcMoves ==
    ASSUME RunShape, NEW w \in Workers, NEW p, worker' = [worker EXCEPT ![w].pc = p]
    PROVE  Moves(w, p, worker[w].got) /\ IsAnswer(worker[w].got)
<1>1. PICK x : x = worker[w]
  OBVIOUS
<1>2. IsWorker(x) /\ worker' = [worker EXCEPT ![w] = [x EXCEPT !.pc = p]]
  BY <1>1 DEF RunShape
<1>3. [x EXCEPT !.pc = p] = [pc |-> p, run |-> x.run, got |-> x.got]
  BY <1>2 DEF IsWorker
<1> QED
  BY <1>1, <1>2, <1>3 DEF Moves, IsWorker

LEMMA NoAnswerIs == IsAnswer(NoAnswer)
  BY DEF IsAnswer, NoAnswer

LEMMA MovesTo ==
    ASSUME RunShape, NEW w \in Workers, NEW p, NEW a, IsAnswer(a), Moves(w, p, a)
    PROVE  /\ worker' = [v \in Workers |-> worker'[v]] /\ \A v \in Workers : IsWorker(worker'[v])
           /\ worker'[w].pc = p /\ worker'[w].run = worker[w].run
           /\ \A v \in Workers \ {w} : worker'[v] = worker[v]
<1>1. PICK n : n = [pc |-> p, run |-> worker[w].run, got |-> a]
  OBVIOUS
<1>2. IsWorker(n) /\ n.pc = p /\ n.run = worker[w].run
  BY <1>1 DEF IsWorker
<1>3. /\ worker = [v \in Workers |-> worker[v]] /\ \A v \in Workers : IsWorker(worker[v])
      /\ worker' = [worker EXCEPT ![w] = n]
  BY <1>1 DEF RunShape, Moves
<1>4. worker' = [v \in Workers |-> IF v = w THEN n ELSE worker[v]]
  BY <1>3
<1> QED
  BY <1>2, <1>3, <1>4

LEMMA MovesCount ==
    ASSUME RunShape, NEW w \in Workers, NEW p, NEW a, Moves(w, p, a), NEW P
    PROVE  /\ Cardinality(In(P)) \in Nat
           /\ Cardinality(In(P)') = Cardinality(In(P)) - (IF worker[w].pc \in P THEN 1 ELSE 0)
                                                       + (IF p \in P THEN 1 ELSE 0)
<1>1. PICK n : n = [pc |-> p, run |-> worker[w].run, got |-> a]
  OBVIOUS
<1>2. n.pc = p /\ worker = [v \in Workers |-> worker[v]] /\ worker' = [worker EXCEPT ![w] = n]
  BY <1>1 DEF RunShape, Moves
<1>3. Cardinality(In(P)') = Cardinality(In(P)) - (IF worker[w].pc \in P THEN 1 ELSE 0)
                                               + (IF n.pc \in P THEN 1 ELSE 0)
  BY <1>2, WorkerMoves
<1> QED
  BY <1>2, <1>3, InFinite

\* A worker goes on within its run: who is in which run is as before.
LEMMA MovesInOrder ==
    ASSUME RunShape, RunOrder, NEW w \in Workers, NEW p, NEW a, IsAnswer(a), Moves(w, p, a),
           worker[w].pc # "none",
           UNCHANGED <<planned, running, cancelOf, run, over, cut, feeder>>, lost' \in Nat,
           sent' \in Int, inFlight' \in Int
    PROVE  RunShape' /\ RunOrder'
<1>1. /\ worker' = [v \in Workers |-> worker'[v]] /\ \A v \in Workers : IsWorker(worker'[v])
      /\ worker'[w].run = worker[w].run
      /\ \A v \in Workers \ {w} : worker'[v] = worker[v]
  BY MovesTo
<1>2. RunShape'
  BY <1>1 DEF RunShape
<1>3. \A v \in Workers : worker'[v].pc # "none" => worker'[v].run = run /\ running
  BY <1>1 DEF RunOrder
<1> QED
  BY <1>2, <1>3 DEF RunOrder

FeederMoves(r, p, n) == feeder' = [feeder EXCEPT ![r] = [pc |-> p, next |-> n]]

LEMMA GoesMoves ==
    ASSUME RunShape, NEW r \in Runs, NEW p, Goes(r, p)
    PROVE  FeederMoves(r, p, feeder[r].next)
<1>1. PICK x : x = feeder[r]
  OBVIOUS
<1>2. IsFeeder(x) /\ feeder' = [feeder EXCEPT ![r] = [x EXCEPT !.pc = p]]
  BY <1>1 DEF RunShape, Goes
<1>3. [x EXCEPT !.pc = p] = [pc |-> p, next |-> x.next]
  BY <1>2 DEF IsFeeder
<1> QED
  BY <1>1, <1>2, <1>3 DEF FeederMoves

LEMMA FeederMovesTo ==
    ASSUME RunShape, NEW r \in Runs, NEW p, NEW n \in Nat, FeederMoves(r, p, n)
    PROVE  /\ feeder' = [q \in Runs |-> feeder'[q]] /\ \A q \in Runs : IsFeeder(feeder'[q])
           /\ feeder'[r].pc = p /\ feeder'[r].next = n
           /\ \A q \in Runs \ {r} : feeder'[q] = feeder[q]
<1>1. PICK x : x = [pc |-> p, next |-> n]
  OBVIOUS
<1>2. IsFeeder(x) /\ x.pc = p /\ x.next = n
  BY <1>1 DEF IsFeeder
<1>3. /\ feeder = [q \in Runs |-> feeder[q]] /\ \A q \in Runs : IsFeeder(feeder[q])
      /\ feeder' = [feeder EXCEPT ![r] = x]
  BY <1>1 DEF RunShape, FeederMoves
<1>4. feeder' = [q \in Runs |-> IF q = r THEN x ELSE feeder[q]]
  BY <1>3
<1> QED
  BY <1>2, <1>3, <1>4

-----------------------------------------------------------------------------
(* Every step keeps the runs in order.                                     *)

coreVars == <<planned, running, cancelOf, run, over, cut, feeder, worker, sent, inFlight, lost, stats>>

LEMMA CoreKept == RunCore /\ UNCHANGED coreVars => RunCore'
<1> SUFFICES ASSUME RunCore, UNCHANGED coreVars PROVE RunCore'
  OBVIOUS
<1>1. RunShape'
  BY DEF RunCore, RunShape, coreVars
<1>2. RunOrder'
  BY DEF RunCore, RunOrder, coreVars
<1>3. RunCounts'
  BY DEF RunCore, RunCounts, coreVars, In
<1>4. SentExact'
  BY DEF RunCore, SentExact, coreVars, In
<1> QED
  BY <1>1, <1>2, <1>3, <1>4 DEF RunCore

LEMMA StopCore == ASSUME RunCore, Stop PROVE RunCore'
<1>1. /\ over' = over \cup ({cancelOf} \ {0}) /\ cut' = cut \cup ({cancelOf} \ (over \cup {0}))
      /\ UNCHANGED <<planned, running, cancelOf, run, feeder, worker, sent, inFlight, lost, stats>>
  BY DEF Stop, configVars
<1>2. /\ run \in 0..MaxRuns /\ cancelOf = run /\ cut \subseteq over /\ over \subseteq 1..run
      /\ MaxRuns \in Nat
  BY RunnerAssumption DEF RunCore, RunShape
<1>3. over' \subseteq 1..run /\ cut' \subseteq over' /\ cut \subseteq cut'
  BY <1>1, <1>2
<1>4. run \in over' <=> run \in over \/ run # 0
  BY <1>1, <1>2
<1>5. run \in cut' <=> run \in cut \/ (run # 0 /\ run \notin over)
  BY <1>1, <1>2
<1>6. RunShape'
  BY <1>1, <1>3 DEF RunCore, RunShape
<1>7. RunOrder'
  <2>1. running => (run \in over' <=> run \in cut')
    BY <1>2, <1>4, <1>5 DEF RunCore, RunOrder
  <2> QED
    BY <1>1, <2>1 DEF RunCore, RunOrder
<1>8. RunCounts'
  BY <1>1, <1>3 DEF RunCore, RunCounts, In
<1>9. SentExact'
  BY <1>1 DEF RunCore, SentExact, In
<1> QED
  BY <1>6, <1>7, <1>8, <1>9 DEF RunCore

LEMMA StartRunCore == ASSUME RunCore, ~running, StartRun PROVE RunCore'
<1>1. /\ run < MaxRuns /\ run' = run + 1 /\ cancelOf' = run + 1 /\ running' = TRUE
      /\ planned' = (IF rmode = "iterations" THEN Iterations ELSE 0)
      /\ sent' = 0 /\ inFlight' = 0 /\ lost' = 0 /\ stats' = NoStats
      /\ feeder' = [feeder EXCEPT ![run + 1] = [pc |-> "feed", next |-> 0]]
      /\ worker' = [w \in Workers |-> [pc |-> "idle", run |-> run + 1, got |-> NoAnswer]]
      /\ UNCHANGED <<over, cut>>
  BY DEF StartRun
<1>2. PICK r : r = run + 1
  OBVIOUS
<1>3. run \in 0..MaxRuns /\ MaxRuns \in Nat /\ r \in Runs /\ r \in 0..MaxRuns /\ r # run /\ r > run
  BY <1>1, <1>2, RunnerAssumption DEF RunCore, RunShape, Runs
<1>4. over \subseteq 1..run /\ cut \subseteq over
  BY DEF RunCore, RunShape
<1>5. r \notin over /\ r \notin cut /\ over \subseteq 1..r
  BY <1>3, <1>4
<1>6. planned' \in Nat
  BY <1>1, RunnerAssumption
<1>7. /\ feeder' = [q \in Runs |-> feeder'[q]] /\ \A q \in Runs : IsFeeder(feeder'[q])
      /\ feeder'[r].pc = "feed" /\ feeder'[r].next = 0
      /\ \A q \in Runs \ {r} : feeder'[q] = feeder[q]
  <2>1. FeederMoves(r, "feed", 0)
    BY <1>1, <1>2 DEF FeederMoves
  <2> QED
    BY <1>3, <2>1, FeederMovesTo DEF RunCore
<1>8. /\ worker' = [w \in Workers |-> worker'[w]]
      /\ \A w \in Workers : IsWorker(worker'[w]) /\ worker'[w].pc = "idle" /\ worker'[w].run = r
  <2>1. PICK n : n = [pc |-> "idle", run |-> r, got |-> NoAnswer]
    OBVIOUS
  <2>2. IsWorker(n) /\ n.pc = "idle" /\ n.run = r
    BY <2>1, NoAnswerIs DEF IsWorker
  <2>3. worker' = [w \in Workers |-> n]
    BY <1>1, <1>2, <2>1
  <2> QED
    BY <2>2, <2>3
<1>9. \A q \in Runs : q # r => feeder[q].pc \notin {"feed", "wait"}
  BY DEF RunCore, RunOrder
<1>10. RunShape'
  <2>1. \A q \in Runs : feeder'[q].pc # "none" => q <= r
    BY <1>3, <1>7 DEF RunCore, RunShape, Runs
  <2> QED
    BY <1>1, <1>2, <1>3, <1>4, <1>5, <1>6, <1>7, <1>8, <2>1 DEF RunShape
<1>11. RunOrder'
  BY <1>1, <1>2, <1>5, <1>7, <1>8, <1>9 DEF RunOrder
<1>12. /\ In({"fly"})' = {} /\ In({"fly", "landed"})' = {}
       /\ In({"check", "fly", "landed"})' = {}
  BY <1>8 DEF In
<1>13. stats'.completed = 0 /\ Cardinality({}) = 0
  BY <1>1, FS_EmptySet DEF NoStats
<1>14. RunCounts'
  <2>1. feeder'[r].next = stats'.completed + Cardinality(In({"check", "fly", "landed"})')
    BY <1>7, <1>12, <1>13
  <2>2. run' = r /\ lost' = 0 /\ running' /\ feeder'[run'].pc = "feed" /\ 0 <= planned'
    BY <1>1, <1>2, <1>6, <1>7
  <2> QED
    BY <1>7, <2>1, <2>2 DEF RunCounts
<1>15. SentExact'
  BY <1>1, <1>12, <1>13 DEF SentExact
<1> QED
  BY <1>10, <1>11, <1>14, <1>15 DEF RunCore
LEMMA FeedCore ==
    ASSUME RunCore, stats.completed \in Nat, NEW r \in Runs, NEW w \in Workers, Feed(r, w)
    PROVE  RunCore'
<1>1. /\ feeder[r].pc = "feed" /\ HasMore(r) /\ worker[w].pc = "idle" /\ worker[w].run = r
      /\ feeder' = [feeder EXCEPT ![r].next = @ + 1]
      /\ worker' = [worker EXCEPT ![w].pc = "check"]
      /\ UNCHANGED <<planned, running, cancelOf, run, over, cut, sent, inFlight, lost, stats>>
  BY DEF Feed, feederOnly
<1>2. PICK a : a = worker[w].got
  OBVIOUS
<1>3. Moves(w, "check", a) /\ IsAnswer(a)
  BY <1>1, <1>2, PcMoves DEF RunCore
<1>4. /\ r = run /\ running
      /\ sent \in Int /\ inFlight \in Int /\ lost \in Nat /\ planned \in Nat /\ run \in 0..MaxRuns
  BY <1>1 DEF RunCore, RunOrder, RunShape
<1>5. PICK k : k = feeder[r].next
  OBVIOUS
<1>6. k \in Nat /\ FeederMoves(r, "feed", k + 1)
  <2>1. PICK x : x = feeder[r]
    OBVIOUS
  <2>2. IsFeeder(x) /\ x.pc = "feed" /\ x.next = k /\ feeder' = [feeder EXCEPT ![r] = [x EXCEPT !.next = x.next + 1]]
    BY <1>1, <1>5, <2>1 DEF RunCore, RunShape
  <2>3. [x EXCEPT !.next = x.next + 1] = [pc |-> "feed", next |-> k + 1]
    BY <2>2 DEF IsFeeder
  <2> QED
    BY <2>2, <2>3 DEF FeederMoves, IsFeeder
<1>7. k + 1 \in Nat
  BY <1>6
<1>8. /\ feeder' = [q \in Runs |-> feeder'[q]] /\ \A q \in Runs : IsFeeder(feeder'[q])
      /\ feeder'[r].pc = "feed" /\ feeder'[r].next = k + 1
      /\ \A q \in Runs \ {r} : feeder'[q] = feeder[q]
  BY <1>6, <1>7, FeederMovesTo DEF RunCore
<1>9. /\ worker' = [v \in Workers |-> worker'[v]] /\ \A v \in Workers : IsWorker(worker'[v])
      /\ worker'[w].run = r
      /\ \A v \in Workers \ {w} : worker'[v] = worker[v]
  BY <1>1, <1>3, MovesTo DEF RunCore
<1>10. \A q \in Runs : feeder'[q].pc = feeder[q].pc
  BY <1>1, <1>8
<1>11. RunShape'
  BY <1>1, <1>8, <1>9, <1>10 DEF RunCore, RunShape
<1>12. RunOrder'
  BY <1>1, <1>4, <1>9, <1>10 DEF RunCore, RunOrder
<1>13. PICK A, B, C : A = {"fly"} /\ B = {"fly", "landed"} /\ C = {"check", "fly", "landed"}
  OBVIOUS
<1>14. Cardinality(In(A)') = Cardinality(In(A)) /\ Cardinality(In(B)') = Cardinality(In(B))
       /\ Cardinality(In(C)') = Cardinality(In(C)) + 1 /\ Cardinality(In(C)) \in Nat
  <2>1. /\ Cardinality(In(A)') = Cardinality(In(A)) - 0 + 0 /\ Cardinality(In(A)) \in Nat
        /\ Cardinality(In(B)') = Cardinality(In(B)) - 0 + 0 /\ Cardinality(In(B)) \in Nat
        /\ Cardinality(In(C)') = Cardinality(In(C)) - 0 + 1 /\ Cardinality(In(C)) \in Nat
    BY <1>1, <1>3, <1>13, MovesCount DEF RunCore
  <2> QED
    BY <2>1
<1>15. RunCounts'
  <2>1. PICK c : c = Cardinality(In(C))
    OBVIOUS
  <2>2. ASSUME run \notin cut
        PROVE  /\ lost = 0 /\ k + 1 = stats.completed + (c + 1)
               /\ planned > 0 => k + 1 <= planned
    <3>1. lost = 0 /\ k = stats.completed + c
      BY <1>4, <1>5, <1>13, <2>1, <2>2 DEF RunCore, RunCounts
    <3>2. planned > 0 => k < planned
      BY <1>1, <1>4, <1>5 DEF HasMore
    <3> QED
      BY <1>4, <1>6, <1>14, <2>1, <3>1, <3>2
  <2>3. feeder'[run'].next = k + 1 /\ feeder'[run'].pc = "feed"
    BY <1>1, <1>4, <1>8
  <2> QED
    BY <1>1, <1>4, <1>13, <1>14, <2>1, <2>2, <2>3 DEF RunCounts
<1>16. SentExact'
  BY <1>1, <1>13, <1>14 DEF RunCore, SentExact
<1> QED
  BY <1>11, <1>12, <1>15, <1>16 DEF RunCore

\* The goroutine of a run moves on, and no worker does.
LEMMA GoesShape ==
    ASSUME RunShape, NEW r \in Runs, NEW p, Goes(r, p), feeder[r].pc # "none",
           UNCHANGED <<planned, cancelOf, run, worker, sent, inFlight, lost>>,
           cut' \subseteq over', over' \subseteq 1..run
    PROVE  /\ RunShape'
           /\ feeder'[r].pc = p /\ feeder'[r].next = feeder[r].next
           /\ \A q \in Runs \ {r} : feeder'[q] = feeder[q]
<1>1. PICK n : n = feeder[r].next
  OBVIOUS
<1>2. FeederMoves(r, p, n) /\ n \in Nat
  BY <1>1, GoesMoves DEF RunShape, IsFeeder
<1>3. /\ feeder' = [q \in Runs |-> feeder'[q]] /\ \A q \in Runs : IsFeeder(feeder'[q])
      /\ feeder'[r].pc = p /\ feeder'[r].next = n
      /\ \A q \in Runs \ {r} : feeder'[q] = feeder[q]
  BY <1>2, FeederMovesTo
<1>4. \A q \in Runs : feeder'[q].pc # "none" => q <= run
  BY <1>3 DEF RunShape
<1>5. RunShape'
  BY <1>3, <1>4 DEF RunShape
<1> QED
  BY <1>1, <1>3, <1>5

LEMMA StopFeedingCore == ASSUME RunCore, NEW r \in Runs, StopFeeding(r) PROVE RunCore'
<1>1. /\ feeder[r].pc = "feed" /\ (r \in over \/ (planned > 0 /\ ~HasMore(r))) /\ Goes(r, "wait")
      /\ UNCHANGED <<planned, running, cancelOf, run, over, cut, worker, sent, inFlight, lost, stats>>
  BY DEF StopFeeding, feederOnly
<1>2. r = run /\ running /\ planned \in Nat /\ IsFeeder(feeder[r])
  BY <1>1 DEF RunCore, RunOrder, RunShape
<1>3. /\ RunShape'
      /\ feeder'[r].pc = "wait" /\ feeder'[r].next = feeder[r].next
      /\ \A q \in Runs \ {r} : feeder'[q] = feeder[q]
  BY <1>1, GoesShape DEF RunCore, RunShape
<1>4. RunOrder'
  BY <1>1, <1>2, <1>3 DEF RunCore, RunOrder
<1>5. RunCounts'
  <2>1. ASSUME run \notin cut
        PROVE  planned > 0 /\ feeder[r].next = planned
    <3>1. r \notin over
      BY <1>2, <2>1 DEF RunCore, RunOrder
    <3>2. planned > 0 /\ ~(feeder[r].next < planned)
      BY <1>1, <3>1 DEF HasMore
    <3>3. feeder[r].next <= planned
      BY <1>2, <2>1, <3>2 DEF RunCore, RunCounts
    <3> QED
      BY <1>2, <3>2, <3>3 DEF IsFeeder
  <2> QED
    BY <1>1, <1>2, <1>3, <2>1 DEF RunCore, RunCounts, In
<1>6. SentExact'
  BY <1>1 DEF RunCore, SentExact, In
<1> QED
  BY <1>3, <1>4, <1>5, <1>6 DEF RunCore

LEMMA TimeOutCore == ASSUME RunCore, NEW r \in Runs, TimeOut(r) PROVE RunCore'
<1>1. /\ feeder[r].pc \in {"feed", "wait"}
      /\ over' = over \cup {r} /\ cut' = cut \cup {r}
      /\ UNCHANGED <<planned, running, cancelOf, run, feeder, worker, sent, inFlight, lost, stats>>
  BY DEF TimeOut, feederOnly
<1>2. r = run /\ running /\ r <= run /\ run \in 0..MaxRuns /\ MaxRuns \in Nat
  BY <1>1, RunnerAssumption DEF RunCore, RunOrder, RunShape
<1>3. RunShape'
  BY <1>1, <1>2 DEF RunCore, RunShape, Runs
<1>4. RunOrder'
  BY <1>1, <1>2 DEF RunCore, RunOrder
<1>5. RunCounts'
  BY <1>1, <1>2 DEF RunCore, RunCounts
<1>6. SentExact'
  BY <1>1 DEF RunCore, SentExact, In
<1> QED
  BY <1>3, <1>4, <1>5, <1>6 DEF RunCore

LEMMA EndRunCore ==
    ASSUME RunCore, stats.completed \in Nat, NEW r \in Runs, EndRun(r)
    PROVE  RunCore'
<1>1. /\ feeder[r].pc = "wait" /\ running' = FALSE /\ Goes(r, "ended")
      /\ \A w \in Workers : worker[w].run = r => worker[w].pc = "none"
      /\ UNCHANGED <<planned, cancelOf, run, over, cut, worker, sent, inFlight, lost, stats>>
  BY DEF EndRun, feederOnly
<1>2. r = run /\ running
  BY <1>1 DEF RunCore, RunOrder
<1>3. /\ RunShape'
      /\ feeder'[r].pc = "ended" /\ feeder'[r].next = feeder[r].next
      /\ \A q \in Runs \ {r} : feeder'[q] = feeder[q]
  BY <1>1, GoesShape DEF RunCore, RunShape
<1>4. \A w \in Workers : worker[w].pc = "none"
  BY <1>1, <1>2 DEF RunCore, RunOrder
<1>5. RunOrder'
  BY <1>1, <1>2, <1>3, <1>4 DEF RunCore, RunOrder
<1>6. RunCounts'
  <2>1. In({"check", "fly", "landed"}) = {} /\ Cardinality({}) = 0
    BY <1>4, FS_EmptySet DEF In
  <2>2. run \notin cut => stats.completed = planned
    <3>1. ASSUME run \notin cut PROVE stats.completed = planned
      <4>1. feeder[run].next = stats.completed + 0 /\ feeder[run].next = planned
        BY <1>1, <1>2, <2>1, <3>1 DEF RunCore, RunCounts
      <4> QED
        BY <4>1
    <3> QED
      BY <3>1
  <2> QED
    BY <1>1, <2>2 DEF RunCounts
<1>7. SentExact'
  BY <1>1 DEF RunCore, SentExact, In
<1> QED
  BY <1>3, <1>5, <1>6, <1>7 DEF RunCore

\* A run that has ended takes its last two steps, perhaps beside the next run.
LEMMA EndedCore ==
    ASSUME RunCore, NEW r \in Runs, NoteEnd(r) \/ CancelOwn(r)
    PROVE  RunCore'
<1>1. PICK p : /\ feeder[r].pc \in {"ended", "noted"} /\ Goes(r, p) /\ p \notin {"feed", "wait"}
               /\ over' \subseteq over \cup {r} /\ over \subseteq over'
               /\ UNCHANGED <<planned, running, cancelOf, run, cut, worker, sent, inFlight, lost, stats>>
  <2>1. CASE NoteEnd(r)
    BY <2>1 DEF NoteEnd, feederOnly
  <2>2. CASE CancelOwn(r)
    BY <2>2 DEF CancelOwn, feederOnly
  <2> QED
    BY <2>1, <2>2
<1>2. ~(r = run /\ running) /\ r <= run /\ run \in 0..MaxRuns /\ MaxRuns \in Nat
  BY <1>1, RunnerAssumption DEF RunCore, RunOrder, RunShape
<1>3. cut' \subseteq over' /\ over' \subseteq 1..run
  BY <1>1, <1>2 DEF RunCore, RunShape, Runs
<1>4. /\ RunShape'
      /\ feeder'[r].pc = p
      /\ \A q \in Runs \ {r} : feeder'[q] = feeder[q]
  BY <1>1, <1>3, GoesShape DEF RunCore
<1>5. RunOrder'
  BY <1>1, <1>2, <1>4 DEF RunCore, RunOrder
<1>6. RunCounts'
  <2>1. running => run \in Runs /\ feeder'[run] = feeder[run]
    <3>1. ASSUME running PROVE run \in Runs /\ run # r
      BY <1>2, <3>1 DEF Runs
    <3> QED
      BY <1>4, <3>1
  <2> QED
    BY <1>1, <2>1 DEF RunCore, RunCounts, In
<1>7. SentExact'
  BY <1>1 DEF RunCore, SentExact, In
<1> QED
  BY <1>4, <1>5, <1>6, <1>7 DEF RunCore
LEMMA TwoFields ==
    ASSUME NEW x, x = [pc |-> x.pc, run |-> x.run, got |-> x.got], NEW p, NEW a
    PROVE  [x EXCEPT !.pc = p, !.got = a] = [pc |-> p, run |-> x.run, got |-> a]
<1>1. PICK c, r, g : c = x.pc /\ r = x.run /\ g = x.got
  OBVIOUS
<1>2. x = [pc |-> c, run |-> r, got |-> g]
  BY <1>1
<1>3. [[pc |-> c, run |-> r, got |-> g] EXCEPT !.pc = p] = [pc |-> p, run |-> r, got |-> g]
  OBVIOUS
<1>4. [[pc |-> p, run |-> r, got |-> g] EXCEPT !.got = a] = [pc |-> p, run |-> r, got |-> a]
  OBVIOUS
<1>5. [x EXCEPT !.pc = p, !.got = a] = [[x EXCEPT !.pc = p] EXCEPT !.got = a]
  OBVIOUS
<1> QED
  BY ONLY <1>1, <1>2, <1>3, <1>4, <1>5

Moved(from, to, P) == (IF to \in P THEN 1 ELSE 0) - (IF from \in P THEN 1 ELSE 0)

Tally(w, p, f, o, h, d, n) ==
    /\ f = Moved(worker[w].pc, p, {"fly"})
    /\ o = Moved(worker[w].pc, p, {"fly", "landed"})
    /\ h = Moved(worker[w].pc, p, {"check", "fly", "landed"})
    /\ inFlight' = inFlight + f /\ sent' = sent + o + d + n /\ lost' = lost + n
    /\ stats'.completed = stats.completed + d
    /\ h + d = 0 \/ run \in cut
    /\ n = 0 \/ run \in cut

\* A worker's step, by where it goes and what is counted on the way: f requests more in
\* the air, o more out, h fewer in hand, and d more answers counted, or n dropped.
LEMMA WorkerCore ==
    ASSUME RunCore, stats.completed \in Nat, NEW w \in Workers, NEW p, NEW a, IsAnswer(a), Moves(w, p, a),
           worker[w].pc # "none",
           UNCHANGED <<planned, running, cancelOf, run, over, cut, feeder>>,
           NEW f \in Int, NEW o \in Int, NEW h \in Int, NEW d \in Nat, NEW n \in Nat,
           Tally(w, p, f, o, h, d, n)
    PROVE  RunCore'
<1>0. /\ inFlight' = inFlight + f /\ sent' = sent + o + d + n /\ lost' = lost + n
      /\ stats'.completed = stats.completed + d
      /\ h + d = 0 \/ run \in cut
      /\ n = 0 \/ run \in cut
  BY DEF Tally
<1>1. RunShape /\ RunOrder /\ RunCounts /\ SentExact
  BY DEF RunCore
<1>2. sent \in Int /\ inFlight \in Int /\ lost \in Nat
  BY <1>1 DEF RunShape
<1>3. lost' \in Nat /\ sent' \in Int /\ inFlight' \in Int
  BY <1>0, <1>2
<1>4. RunShape' /\ RunOrder'
  BY <1>1, <1>3, MovesInOrder
<1>5. running
  BY <1>1 DEF RunOrder
<1>6. PICK A, B, C : A = {"fly"} /\ B = {"fly", "landed"} /\ C = {"check", "fly", "landed"}
  OBVIOUS
<1>7. PICK x, y, z : x = Cardinality(In(A)) /\ y = Cardinality(In(B)) /\ z = Cardinality(In(C))
  OBVIOUS
<1>8. x \in Nat /\ Cardinality(In(A)') = x - (IF worker[w].pc \in A THEN 1 ELSE 0) + (IF p \in A THEN 1 ELSE 0)
  BY <1>1, <1>7, MovesCount
<1>9. y \in Nat /\ Cardinality(In(B)') = y - (IF worker[w].pc \in B THEN 1 ELSE 0) + (IF p \in B THEN 1 ELSE 0)
  BY <1>1, <1>7, MovesCount
<1>10. z \in Nat /\ Cardinality(In(C)') = z - (IF worker[w].pc \in C THEN 1 ELSE 0) + (IF p \in C THEN 1 ELSE 0)
  BY <1>1, <1>7, MovesCount
<1>11. Cardinality(In(A)') = x + f
  <2>1. f = (IF p \in A THEN 1 ELSE 0) - (IF worker[w].pc \in A THEN 1 ELSE 0)
    BY <1>6 DEF Tally, Moved
  <2> QED
    BY <1>8, <2>1
<1>12. Cardinality(In(B)') = y + o
  <2>1. o = (IF p \in B THEN 1 ELSE 0) - (IF worker[w].pc \in B THEN 1 ELSE 0)
    BY <1>6 DEF Tally, Moved
  <2> QED
    BY <1>9, <2>1
<1>13. Cardinality(In(C)') = z + h
  <2>1. h = (IF p \in C THEN 1 ELSE 0) - (IF worker[w].pc \in C THEN 1 ELSE 0)
    BY <1>6 DEF Tally, Moved
  <2> QED
    BY <1>10, <2>1
<1>14. SentExact'
  <2>1. inFlight = x /\ sent = y + stats.completed + lost
    BY <1>1, <1>6, <1>7 DEF SentExact
  <2>2. inFlight' = x + f
    BY <1>0, <2>1
  <2>3. sent' = (y + o) + (stats.completed + d) + (lost + n)
    BY <1>0, <1>2, <1>9, <2>1
  <2>4. sent' = (y + o) + stats'.completed + lost'
    BY <1>0, <2>3
  <2> QED
    BY <1>6, <1>11, <1>12, <2>2, <2>4 DEF SentExact
<1>15. RunCounts'
  <2>1. ASSUME run \notin cut
        PROVE  /\ lost' = 0
               /\ feeder[run].next = (stats.completed + d) + (z + h)
               /\ planned > 0 => feeder[run].next <= planned
               /\ feeder[run].pc = "wait" => planned > 0 /\ feeder[run].next = planned
    <3>1. /\ lost = 0 /\ feeder[run].next = stats.completed + z
          /\ planned > 0 => feeder[run].next <= planned
          /\ feeder[run].pc = "wait" => planned > 0 /\ feeder[run].next = planned
      BY <1>1, <1>5, <1>6, <1>7, <2>1 DEF RunCounts
    <3>2. h = 0 - d /\ n = 0
      BY <1>0, <2>1
    <3>3. stats.completed + z = (stats.completed + d) + (z + h)
      BY <1>10, <3>2
    <3> QED
      BY <1>0, <1>2, <3>1, <3>2, <3>3
  <2>2. Cardinality(In({"check", "fly", "landed"})') = z + h
    BY <1>6, <1>13
  <2>3. /\ running' /\ run' = run /\ cut' = cut /\ planned' = planned /\ feeder' = feeder
        /\ stats'.completed = stats.completed + d
    BY <1>0, <1>5
  <2> QED
    BY <2>1, <2>2, <2>3 DEF RunCounts
<1> QED
  BY <1>4, <1>14, <1>15 DEF RunCore

LEMMA LeaveCore == ASSUME RunCore, stats.completed \in Nat, NEW w \in Workers, Leave(w) PROVE RunCore'
<1>1. /\ worker[w].pc \in {"idle", "check", "pause"} /\ worker' = [worker EXCEPT ![w].pc = "none"]
      /\ worker[w].pc = "check" => worker[w].run \in over
      /\ UNCHANGED <<planned, running, cancelOf, run, over, cut, feeder, sent, inFlight, lost, stats>>
  BY DEF Leave, workerOnly
<1>2. PICK a : a = worker[w].got
  OBVIOUS
<1>3. Moves(w, "none", a) /\ IsAnswer(a)
  BY <1>1, <1>2, PcMoves DEF RunCore
<1>4. worker[w].pc = "check" => run \in cut
  BY <1>1 DEF RunCore, RunOrder
<1>5. sent \in Int /\ inFlight \in Int /\ lost \in Nat
  BY DEF RunCore, RunShape
<1>6. PICK h \in Int : h = IF worker[w].pc = "check" THEN 0 - 1 ELSE 0
  OBVIOUS
<1>7. Tally(w, "none", 0, 0, h, 0, 0)
  BY <1>1, <1>4, <1>5, <1>6 DEF Tally, Moved
<1> QED
  BY <1>1, <1>3, <1>7, WorkerCore

LEMMA SendCore == ASSUME RunCore, stats.completed \in Nat, NEW w \in Workers, Send(w) PROVE RunCore'
<1>1. /\ worker[w].pc = "check" /\ worker' = [worker EXCEPT ![w].pc = "fly"]
      /\ sent' = sent + 1 /\ inFlight' = inFlight + 1
      /\ UNCHANGED <<planned, running, cancelOf, run, over, cut, feeder, lost, stats>>
  BY DEF Send, Works, workerOnly
<1>2. PICK a : a = worker[w].got
  OBVIOUS
<1>3. Moves(w, "fly", a) /\ IsAnswer(a)
  BY <1>1, <1>2, PcMoves DEF RunCore
<1>4. sent \in Int /\ inFlight \in Int /\ lost \in Nat
  BY DEF RunCore, RunShape
<1>5. PICK f \in Int, h \in Int, d \in Nat : f = 1 /\ h = 0 /\ d = 0 /\ Tally(w, "fly", f, f, h, d, d)
  BY <1>1, <1>4 DEF Tally, Moved
<1> QED
  BY <1>1, <1>3, <1>5, WorkerCore

LEMMA LandCore ==
    ASSUME RunCore, stats.completed \in Nat, NEW w \in Workers, NEW got, IsAnswer(got), Land(w, got)
    PROVE  RunCore'
<1>1. /\ worker[w].pc = "fly" /\ worker' = [worker EXCEPT ![w].pc = "landed", ![w].got = got]
      /\ inFlight' = inFlight - 1
      /\ UNCHANGED <<planned, running, cancelOf, run, over, cut, feeder, sent, lost, stats>>
  BY DEF Land, workerOnly
<1>2. Moves(w, "landed", got)
  <2>1. PICK x : x = worker[w]
    OBVIOUS
  <2>2. IsWorker(x) /\ worker = [v \in Workers |-> worker[v]]
    BY <2>1 DEF RunCore, RunShape
  <2>3. worker' = [worker EXCEPT ![w] = [x EXCEPT !.pc = "landed", !.got = got]]
    BY <1>1, <2>1, <2>2
  <2>4. [x EXCEPT !.pc = "landed", !.got = got] = [pc |-> "landed", run |-> x.run, got |-> got]
    BY <2>2, TwoFields DEF IsWorker
  <2> QED
    BY <2>1, <2>3, <2>4 DEF Moves
<1>3. sent \in Int /\ inFlight \in Int /\ lost \in Nat
  BY DEF RunCore, RunShape
<1>4. PICK f \in Int : f = 0 - 1
  OBVIOUS
<1>5. Tally(w, "landed", f, 0, 0, 0, 0)
  BY <1>1, <1>3, <1>4 DEF Tally, Moved
<1> QED
  BY <1>1, <1>2, <1>5, WorkerCore

LEMMA DropAnswerCore == ASSUME RunCore, stats.completed \in Nat, NEW w \in Workers, DropAnswer(w) PROVE RunCore'
<1>1. /\ worker[w].pc = "landed" /\ worker[w].run \in over /\ lost' = lost + 1
      /\ worker' = [worker EXCEPT ![w] = [@ EXCEPT !.pc = "none", !.got = NoAnswer]]
      /\ UNCHANGED <<planned, running, cancelOf, run, over, cut, feeder, sent, inFlight, stats>>
  BY DEF DropAnswer, workerOnly
<1>2. PICK a : a = NoAnswer
  OBVIOUS
<1>3. Moves(w, "none", a) /\ IsAnswer(a)
  <2>1. PICK x : x = worker[w]
    OBVIOUS
  <2>2. IsWorker(x) /\ worker = [v \in Workers |-> worker[v]]
    BY <2>1 DEF RunCore, RunShape
  <2>3. worker' = [worker EXCEPT ![w] = [x EXCEPT !.pc = "none", !.got = a]]
    BY <1>1, <1>2, <2>1, <2>2
  <2>4. [x EXCEPT !.pc = "none", !.got = a] = [pc |-> "none", run |-> x.run, got |-> a]
    BY <2>2, TwoFields DEF IsWorker
  <2> QED
    BY <1>2, <2>1, <2>3, <2>4, NoAnswerIs DEF Moves
<1>4. sent \in Int /\ inFlight \in Int /\ lost \in Nat
  BY DEF RunCore, RunShape
<1>5. run \in cut
  BY <1>1 DEF RunCore, RunOrder
<1>6. PICK m \in Int : m = 0 - 1
  OBVIOUS
<1>7. PICK f \in Int, d \in Nat, n \in Nat : f = 0 /\ d = 0 /\ n = 1 /\ Tally(w, "none", f, m, m, d, n)
  BY <1>1, <1>4, <1>5, <1>6 DEF Tally, Moved
<1> QED
  BY <1>1, <1>3, <1>5, <1>7, WorkerCore

LEMMA RecordCore ==
    ASSUME RunCore, stats.completed \in Nat, stats'.completed = stats.completed + 1,
           NEW w \in Workers, NEW next \in {"idle", "pause"}, Record(w, next)
    PROVE  RunCore'
<1>1. /\ worker[w].pc = "landed"
      /\ worker' = [worker EXCEPT ![w] = [@ EXCEPT !.pc = next, !.got = NoAnswer]]
      /\ UNCHANGED <<planned, running, cancelOf, run, over, cut, feeder, sent, inFlight, lost>>
  BY DEF Record, workerOnly
<1>2. PICK a : a = NoAnswer
  OBVIOUS
<1>3. Moves(w, next, a) /\ IsAnswer(a)
  <2>1. PICK x : x = worker[w]
    OBVIOUS
  <2>2. IsWorker(x) /\ worker = [v \in Workers |-> worker[v]]
    BY <2>1 DEF RunCore, RunShape
  <2>3. worker' = [worker EXCEPT ![w] = [x EXCEPT !.pc = next, !.got = a]]
    BY <1>1, <1>2, <2>1, <2>2
  <2>4. [x EXCEPT !.pc = next, !.got = a] = [pc |-> next, run |-> x.run, got |-> a]
    BY <2>2, TwoFields DEF IsWorker
  <2> QED
    BY <1>2, <2>1, <2>3, <2>4, NoAnswerIs DEF Moves
<1>4. sent \in Int /\ inFlight \in Int /\ lost \in Nat
  BY DEF RunCore, RunShape
<1>5. PICK m \in Int : m = 0 - 1
  OBVIOUS
<1>6. PICK f \in Int, d \in Nat, n \in Nat : f = 0 /\ d = 1 /\ n = 0 /\ Tally(w, next, f, m, m, d, n)
  BY <1>1, <1>4, <1>5 DEF Tally, Moved
<1> QED
  BY <1>1, <1>3, <1>6, WorkerCore

LEMMA ResumeCore == ASSUME RunCore, stats.completed \in Nat, NEW w \in Workers, Resume(w) PROVE RunCore'
<1>1. /\ worker[w].pc = "pause" /\ worker' = [worker EXCEPT ![w].pc = "idle"]
      /\ UNCHANGED <<planned, running, cancelOf, run, over, cut, feeder, sent, inFlight, lost, stats>>
  BY DEF Resume, Works, workerOnly
<1>2. PICK a : a = worker[w].got
  OBVIOUS
<1>3. Moves(w, "idle", a) /\ IsAnswer(a)
  BY <1>1, <1>2, PcMoves DEF RunCore
<1>4. sent \in Int /\ inFlight \in Int /\ lost \in Nat
  BY DEF RunCore, RunShape
<1>5. PICK f \in Int, d \in Nat : f = 0 /\ d = 0 /\ Tally(w, "idle", f, f, f, d, d)
  BY <1>1, <1>4 DEF Tally, Moved
<1> QED
  BY <1>1, <1>3, <1>5, WorkerCore
-----------------------------------------------------------------------------
(* The invariant of the runs is kept, and says what RunExact says.         *)

LEMMA RunInvInit == RunnerInit => RunInv
<1> SUFFICES ASSUME RunnerInit PROVE RunInv
  OBVIOUS
<1>1. /\ planned = 0 /\ running = FALSE /\ cancelOf = 0 /\ run = 0 /\ over = {} /\ cut = {}
      /\ feeder = [r \in Runs |-> [pc |-> "none", next |-> 0]]
      /\ worker = [w \in Workers |-> Resting]
      /\ sent = 0 /\ inFlight = 0 /\ lost = 0 /\ stats = NoStats /\ shownStats = NoPercentiles
  BY DEF RunnerInit
<1>2. StatsInv /\ stats.completed = 0
  <2>1. PICK s : s = stats
    OBVIOUS
  <2>2. Table(s) /\ s.completed = 0
    BY <1>1, <2>1, NoTable
  <2>3. ShownPercentiles
    BY <1>1, <2>1, <2>2 DEF ShownPercentiles, NoPercentiles
  <2> QED
    BY <2>1, <2>2, <2>3 DEF StatsInv
<1>3. MaxRuns \in Nat
  BY RunnerAssumption
<1>4. /\ worker = [w \in Workers |-> worker[w]]
      /\ \A w \in Workers : IsWorker(worker[w]) /\ worker[w].pc = "none"
  <2>1. PICK x, a : x = Resting /\ a = NoAnswer
    OBVIOUS
  <2>2. IsAnswer(a) /\ x = [pc |-> "none", run |-> 0, got |-> a]
    BY <2>1, NoAnswerIs DEF Resting
  <2>3. IsWorker(x) /\ x.pc = "none"
    BY <2>2 DEF IsWorker
  <2> QED
    BY <1>1, <2>1, <2>3
<1>5. /\ feeder = [r \in Runs |-> feeder[r]]
      /\ \A r \in Runs : IsFeeder(feeder[r]) /\ feeder[r].pc = "none"
  BY <1>1 DEF IsFeeder
<1>6. RunShape
  BY <1>1, <1>3, <1>4, <1>5 DEF RunShape
<1>7. RunOrder
  BY <1>1, <1>4, <1>5 DEF RunOrder
<1>8. RunCounts
  BY <1>1 DEF RunCounts
<1>9. SentExact
  <2>1. In({"fly"}) = {} /\ In({"fly", "landed"}) = {} /\ Cardinality({}) = 0
    BY <1>4, FS_EmptySet DEF In
  <2> QED
    BY <1>1, <1>2, <2>1 DEF SentExact
<1> QED
  BY <1>2, <1>6, <1>7, <1>8, <1>9 DEF RunInv, RunCore

LEMMA FeedingKept ==
    ASSUME RunInv, NEW r \in Runs, Feeding(r) \/ TimeOut(r)
    PROVE  RunInv'
<1>1. RunCore /\ StatsInv /\ stats.completed \in Nat
  BY DEF RunInv, StatsInv, Table
<1>2. ASSUME NEW w \in Workers, Feed(r, w) PROVE RunInv'
  <2>1. RunCore'
    BY <1>1, <1>2, FeedCore
  <2>2. UNCHANGED <<stats, shownStats>>
    BY <1>2 DEF Feed, feederOnly
  <2> QED
    BY <1>1, <2>1, <2>2, StatsKept DEF RunInv
<1>3. CASE StopFeeding(r)
  <2>1. RunCore'
    BY <1>1, <1>3, StopFeedingCore
  <2>2. UNCHANGED <<stats, shownStats>>
    BY <1>3 DEF StopFeeding, feederOnly
  <2> QED
    BY <1>1, <2>1, <2>2, StatsKept DEF RunInv
<1>4. CASE EndRun(r)
  <2>1. RunCore'
    BY <1>1, <1>4, EndRunCore
  <2>2. UNCHANGED <<stats, shownStats>>
    BY <1>4 DEF EndRun, feederOnly
  <2> QED
    BY <1>1, <2>1, <2>2, StatsKept DEF RunInv
<1>5. CASE NoteEnd(r)
  <2>1. RunCore'
    BY <1>1, <1>5, EndedCore
  <2>2. UNCHANGED <<stats, shownStats>>
    BY <1>5 DEF NoteEnd, feederOnly
  <2> QED
    BY <1>1, <2>1, <2>2, StatsKept DEF RunInv
<1>6. CASE CancelOwn(r)
  <2>1. RunCore'
    BY <1>1, <1>6, EndedCore
  <2>2. UNCHANGED <<stats, shownStats>>
    BY <1>6 DEF CancelOwn, feederOnly
  <2> QED
    BY <1>1, <2>1, <2>2, StatsKept DEF RunInv
<1>7. CASE TimeOut(r)
  <2>1. RunCore'
    BY <1>1, <1>7, TimeOutCore
  <2>2. UNCHANGED <<stats, shownStats>>
    BY <1>7 DEF TimeOut, feederOnly
  <2> QED
    BY <1>1, <2>1, <2>2, StatsKept DEF RunInv
<1> QED
  BY <1>2, <1>3, <1>4, <1>5, <1>6, <1>7 DEF Feeding

LEMMA WorkingKept ==
    ASSUME RunInv, NEW w \in Workers, Working(w) \/ \E got \in Answers \cup {NoAnswer} : Land(w, got)
    PROVE  RunInv'
<1>1. RunCore /\ StatsInv /\ stats.completed \in Nat
  BY DEF RunInv, StatsInv, Table
<1>2. CASE Leave(w)
  <2>1. RunCore'
    BY <1>1, <1>2, LeaveCore
  <2>2. UNCHANGED <<stats, shownStats>>
    BY <1>2 DEF Leave, workerOnly
  <2> QED
    BY <1>1, <2>1, <2>2, StatsKept DEF RunInv
<1>3. CASE Send(w)
  <2>1. RunCore'
    BY <1>1, <1>3, SendCore
  <2>2. UNCHANGED <<stats, shownStats>>
    BY <1>3 DEF Send, workerOnly
  <2> QED
    BY <1>1, <2>1, <2>2, StatsKept DEF RunInv
<1>4. CASE DropAnswer(w)
  <2>1. RunCore'
    BY <1>1, <1>4, DropAnswerCore
  <2>2. UNCHANGED <<stats, shownStats>>
    BY <1>4 DEF DropAnswer, workerOnly
  <2> QED
    BY <1>1, <2>1, <2>2, StatsKept DEF RunInv
<1>5. ASSUME NEW next \in {"idle", "pause"}, Record(w, next) PROVE RunInv'
  <2>1. IsAnswer(worker[w].got)
    BY <1>1 DEF RunCore, RunShape, IsWorker
  <2>2. StatsInv' /\ stats'.completed = stats.completed + 1
    BY <1>1, <1>5, <2>1, RecordStats
  <2>3. RunCore'
    BY <1>1, <1>5, <2>2, RecordCore
  <2> QED
    BY <2>2, <2>3 DEF RunInv
<1>6. CASE Resume(w)
  <2>1. RunCore'
    BY <1>1, <1>6, ResumeCore
  <2>2. UNCHANGED <<stats, shownStats>>
    BY <1>6 DEF Resume, workerOnly
  <2> QED
    BY <1>1, <2>1, <2>2, StatsKept DEF RunInv
<1>7. ASSUME NEW got \in Answers \cup {NoAnswer}, Land(w, got) PROVE RunInv'
  <2>1. IsAnswer(got)
    BY NoAnswerIs, RunnerAssumption DEF IsAnswer
  <2>2. RunCore'
    BY <1>1, <1>7, <2>1, LandCore
  <2>3. UNCHANGED <<stats, shownStats>>
    BY <1>7 DEF Land, workerOnly
  <2> QED
    BY <1>1, <2>2, <2>3, StatsKept DEF RunInv
<1> QED
  BY <1>2, <1>3, <1>4, <1>5, <1>6, <1>7 DEF Working

LEMMA RunInvNext == RunInv /\ (RunnerNext \/ UNCHANGED runnerVars) => RunInv'
<1> SUFFICES ASSUME RunInv, RunnerNext \/ UNCHANGED runnerVars PROVE RunInv'
  OBVIOUS
<1>1. RunCore /\ StatsInv
  BY DEF RunInv
<1>2. CASE ChooseMode
  <2>1. UNCHANGED coreVars /\ UNCHANGED <<stats, shownStats>>
    BY <1>2 DEF ChooseMode, coreVars
  <2> QED
    BY <1>1, <2>1, CoreKept, StatsKept DEF RunInv
<1>3. CASE Stop
  <2>1. UNCHANGED <<stats, shownStats>>
    BY <1>3 DEF Stop, configVars
  <2> QED
    BY <1>1, <1>3, <2>1, StopCore, StatsKept DEF RunInv
<1>4. CASE BackToConfig
  <2>1. UNCHANGED coreVars /\ UNCHANGED <<stats, shownStats>>
    BY <1>4 DEF BackToConfig, configVars, coreVars
  <2> QED
    BY <1>1, <2>1, CoreKept, StatsKept DEF RunInv
<1>5. CASE ~running /\ StartRun
  <2>1. stats' = NoStats /\ shownStats' = NoPercentiles
    BY <1>5 DEF StartRun
  <2> QED
    BY <1>1, <1>5, <2>1, StartRunCore, NothingStats DEF RunInv
<1>6. CASE Snapshot
  <2>1. UNCHANGED coreVars
    BY <1>6 DEF Snapshot, configVars, coreVars
  <2> QED
    BY <1>1, <1>6, <2>1, CoreKept, SnapshotStats DEF RunInv
<1>7. CASE RunnerStep
  BY <1>7, FeedingKept, WorkingKept DEF RunnerStep
<1>8. CASE UNCHANGED runnerVars
  <2>1. UNCHANGED coreVars /\ UNCHANGED <<stats, shownStats>>
    BY <1>8 DEF runnerVars, coreVars
  <2> QED
    BY <1>1, <2>1, CoreKept, StatsKept DEF RunInv
<1> QED
  BY <1>2, <1>3, <1>4, <1>5, <1>6, <1>7, <1>8 DEF RunnerNext, RunnerAction

LEMMA TableIsExact ==
    ASSUME Table(stats)
    PROVE  TableExact
<1>1. /\ stats.completed = stats.success + stats.failed
      /\ stats.completed = SumOver(Codes, [c \in Codes |-> stats.buckets[c].count])
      /\ stats.sumLat = SumOver(Codes, [c \in Codes |-> stats.buckets[c].totalLat])
  BY DEF Table, Codes
<1>2. /\ \A c \in Codes : IsBucket(stats.buckets[c])
      /\ \A c \in Codes : stats.minLat <= stats.buckets[c].minLat /\ stats.buckets[c].maxLat <= stats.maxLat
      /\ stats.minLat \in Nat /\ stats.maxLat \in Nat
  BY DEF Table, Codes
<1>3. ASSUME stats.completed > 0
      PROVE  stats.minLat = Min({stats.buckets[c].minLat : c \in Codes})
  <2> DEFINE S == {stats.buckets[c].minLat : c \in Codes}
  <2>1. stats.minLat \in S
    BY <1>3 DEF Table, Codes
  <2>2. \A n \in S : n \in Nat /\ stats.minLat <= n
    BY <1>2 DEF IsBucket
  <2> HIDE DEF S
  <2>3. Min(S) \in S /\ \A n \in S : Min(S) <= n
    BY <2>1, <2>2 DEF Min
  <2>4. Min(S) <= stats.minLat /\ stats.minLat <= Min(S) /\ Min(S) \in Nat
    BY <2>1, <2>2, <2>3
  <2>5. stats.minLat = Min(S)
    BY <1>2, <2>4
  <2> QED
    BY <2>5 DEF S
<1>4. ASSUME stats.completed > 0
      PROVE  stats.maxLat = Max({stats.buckets[c].maxLat : c \in Codes})
  <2> DEFINE S == {stats.buckets[c].maxLat : c \in Codes}
  <2>1. stats.maxLat \in S
    BY <1>4 DEF Table, Codes
  <2>2. \A n \in S : n \in Nat /\ n <= stats.maxLat
    BY <1>2 DEF IsBucket
  <2> HIDE DEF S
  <2>3. Max(S) \in S /\ \A n \in S : n <= Max(S)
    BY <2>1, <2>2 DEF Max
  <2>4. stats.maxLat <= Max(S) /\ Max(S) <= stats.maxLat /\ Max(S) \in Nat
    BY <2>1, <2>2, <2>3
  <2>5. stats.maxLat = Max(S)
    BY <1>2, <2>4
  <2> QED
    BY <2>5 DEF S
<1>5. \A c \in Codes : /\ stats.buckets[c].minLat * stats.buckets[c].count <= stats.buckets[c].totalLat
                       /\ stats.buckets[c].totalLat <= stats.buckets[c].maxLat * stats.buckets[c].count
  BY <1>2 DEF IsBucket
<1> QED
  BY <1>1, <1>3, <1>4, <1>5 DEF TableExact

LEMMA RunInvExact == RunInv => RunExact
<1> SUFFICES ASSUME RunInv PROVE RunExact
  OBVIOUS
<1>1. TableExact
  BY TableIsExact DEF RunInv, StatsInv
<1>2. PercentilesOrdered
  BY DEF RunInv, StatsInv, ShownPercentiles, PercentilesOrdered
<1>3. SentExact
  BY DEF RunInv, RunCore
<1>4. RunsApart
  <2>1. stats.completed \in Nat /\ planned \in Nat
    BY DEF RunInv, RunCore, RunShape, StatsInv, Table
  <2>2. run > 0 /\ ~running /\ run \notin cut => stats.completed = planned
    BY DEF RunInv, RunCore, RunCounts
  <2>3. /\ \A w \in Workers : worker[w].pc # "none" => worker[w].run = run /\ running
        /\ \A r \in Runs : feeder[r].pc \in {"feed", "wait"} <=> r = run /\ running
    BY DEF RunInv, RunCore, RunOrder
  <2> QED
    BY <2>1, <2>2, <2>3 DEF RunsApart
<1> QED
  BY <1>1, <1>2, <1>3, <1>4 DEF RunExact

LEMMA TabNextRuns == TabNext \/ UNCHANGED tabVars => RunnerNext \/ UNCHANGED runnerVars
  BY DEF TabNext, tabVars, SendOnce, CloseTab, SendMany, RunnerNext
-----------------------------------------------------------------------------
(* The tab.  Its invariant in parts: what the variables are (TabTypes),    *)
(* who may answer (Senders), where the files are (Held), whose text is     *)
(* where (Pane), that one loader works at a time (Alone), and what the     *)
(* pane and the chunks on their way make up together (Exact).              *)

Chunks == [id : 0..MaxReq, text : Pieces]

IsSender(x) ==
    /\ x = [pc |-> x.pc, mode |-> x.mode, ok |-> x.ok]
    /\ x.pc \in {"none", "do", "stream", "streamed", "answer", "locked", "exit", "done"}
    /\ x.mode \in {"view", "file"} /\ x.ok \in BOOLEAN

IsLoader(x) ==
    /\ x = [pc |-> x.pc, kind |-> x.kind, file |-> x.file, offset |-> x.offset, id |-> x.id]
    /\ x.file \in 0..MaxReq /\ x.offset \in 0..Batches /\ x.id \in 0..MaxReq
    /\ \/ x.kind = "more" /\ x.pc \in {"none", "read", "add", "send", "release"}
       \/ x.kind = "saved" /\ x.pc \in {"read", "replace", "put"}
    /\ x.kind = "more" /\ x.pc # "none" => x.offset < Batches
    /\ x.kind = "saved" => x.offset \in 0..1

IsPreview(x) == x.id \in 0..MaxReq /\ x.file \in 0..MaxReq /\ x.loaded \in 0..1

IsBase(b) ==
    b.file \in 0..MaxReq /\ b.size \in 0..Batches /\ b.loaded \in Nat /\ b.enabled \in BOOLEAN /\ b.text \in Seq(Pieces)

SndTypes == snd = [r \in Reqs |-> snd[r]] /\ \A r \in Reqs : IsSender(snd[r])
LdrTypes == ldr = [l \in Loaders |-> ldr[l]] /\ \A l \in Loaders : IsLoader(ldr[l])

PlainTypes ==
    /\ session \in Sessions
    /\ ui \in {"app", "drain", "clean", "start", "chunks", "response", "preview", "click", "closed"}
    /\ mode \in {"view", "file"}
    /\ reqID \in 0..MaxReq /\ cancelFn \in 0..MaxReq
    /\ requesting \in BOOLEAN /\ closed \in BOOLEAN /\ shown \in Nat
    /\ cancelled \subseteq Reqs /\ files \subseteq Reqs

PaneTypes ==
    /\ respFile \in 0..MaxReq /\ respSize \in 0..Batches /\ previewLoaded \in Nat
    /\ previewLoading \in BOOLEAN /\ previewEnabled \in BOOLEAN
    /\ editor \in Seq(Pieces)
    /\ IsBase(base)

ChanTypes ==
    /\ appendChan \in Seq(Chunks) /\ Len(appendChan) <= ChanCap
    /\ previewChan = <<>> \/ \E x : previewChan = <<x>> /\ IsPreview(x)

TabTypes == PlainTypes /\ PaneTypes /\ ChanTypes /\ SndTypes /\ LdrTypes

Beginning == ui \in {"drain", "clean", "start"}

Senders ==
    /\ \A r \in Reqs : snd[r].pc # "none" => r <= reqID
    /\ Beginning => reqID \in Reqs /\ snd[reqID].pc = "none"
    /\ \A r, q \in Reqs : snd[r].pc = "locked" /\ snd[q].pc = "locked" => r = q
    /\ \A r \in Reqs : snd[r].pc = "locked" /\ reqID \in Reqs /\ snd[reqID].pc \in {"locked", "exit", "done"}
                          => r = reqID
    /\ closed <=> ui = "closed"

\* What a request that is over has put into its channel.
IsAnswerOf(x) ==
    /\ x.id \in Reqs /\ snd[x.id].pc \in {"exit", "done"}
    /\ x.file = IF snd[x.id].ok THEN x.id ELSE 0
    /\ x.viewed <=> snd[x.id].ok /\ snd[x.id].mode = "view"

Answers1 == respChan = <<>> \/ \E x : respChan = <<x>> /\ IsAnswerOf(x)

Delivered(f) == f \in Reqs /\ f \in files /\ snd[f].ok /\ snd[f].pc \in {"exit", "done"}

\* A file that was handed over is in one place, and exists; one still being fetched too.
Held ==
    /\ respFile # 0 => Delivered(respFile)
    /\ base.valid /\ base.file # 0 => Delivered(base.file)
    /\ \A f \in Queued : f # 0 => Delivered(f)

Apart ==
    /\ respFile # 0 => respFile \notin Queued
    /\ base.valid /\ base.file # 0 => base.file \notin Queued /\ base.file # respFile

Fetched ==
    \A r \in Reqs :
        /\ snd[r].pc \in {"stream", "streamed"} => r \in files
        /\ snd[r].pc \in {"answer", "locked"} /\ snd[r].ok => r \in files
        /\ snd[r].pc \in {"do", "stream", "streamed"} => ~snd[r].ok

Busy(l) == ldr[l].pc # "none"

\* While no example was shown, every text on its way says of which request it is.
Named ==
    shown = 0 =>
        /\ ~base.valid
        /\ \A i \in 1..Len(appendChan) : appendChan[i].text.of = appendChan[i].id
        /\ previewChan # <<>> => previewChan[1].id = previewChan[1].file
        /\ \A l \in Loaders : Busy(l) => ldr[l].id = ldr[l].file

Cleared ==
    /\ ui \in {"clean", "start"} => editor = <<>>
    /\ ui = "start" => respFile = 0 /\ (previewEnabled <=> mode = "view")

Pane ==
    shown = 0 /\ InFrame =>
        /\ respFile = 0 \/ respFile = reqID
        /\ \A i \in 1..Len(editor) : editor[i].of = reqID
        /\ respFile = 0 /\ reqID \in Reqs /\ snd[reqID].pc # "none" =>
              (previewEnabled <=> snd[reqID].mode = "view")

Alone ==
    ~overtaken =>
        /\ \A l, m \in Loaders : Busy(l) /\ Busy(m) => l = m
        /\ \A l \in Loaders : Busy(l) =>
            /\ previewLoading /\ previewChan = <<>> /\ ldr[l].id = reqID /\ ~Beginning
            /\ shown = 0 /\ ui # "closed" => respFile # 0 /\ ldr[l].file = respFile
        /\ previewChan # <<>> => previewLoading /\ ui \notin {"clean", "start"}
        /\ shown = 0 /\ InFrame /\ previewChan # <<>> => respFile # 0

\* The response of the current request was taken, and nothing has come between since.
Accepted == InFrame /\ ~requesting /\ shown = 0 /\ ~overtaken /\ respFile # 0

Prefix(e, f, n) == e = [b \in 1..n |-> Piece(f, b)]

\* Once the chunks q of request r are appended to e, the first k batches of file f are
\* shown: c[i] of them after the first i chunks.
WillShow(q, r, f, e, k) ==
    \E c \in [0..Len(q) -> 0..k] :
        /\ Prefix(e, f, c[0]) /\ c[Len(q)] = k
        /\ \A i \in 1..Len(q) :
              IF q[i].id = r THEN c[i] = c[i - 1] + 1 /\ q[i].text = Piece(f, c[i])
              ELSE c[i] = c[i - 1]

Counts ==
    /\ \E k \in Nat : /\ WillShow(appendChan, reqID, respFile, editor, k)
                      /\ previewLoaded = k + (IF \E l \in Loaders : ldr[l].pc = "send" THEN 1 ELSE 0)
    /\ previewChan # <<>> \/ ~previewEnabled => previewLoaded = 0
    /\ previewChan # <<>> \/ (\E l \in Loaders : Busy(l)) => previewEnabled
    /\ \A l \in Loaders :
        /\ ldr[l].kind = "saved" => previewLoaded = 0
        /\ ldr[l].kind = "more" /\ ldr[l].pc \in {"read", "add"} => ldr[l].offset = previewLoaded
        /\ ldr[l].pc = "send" => ldr[l].offset + 1 = previewLoaded

Exact == Accepted => Counts

TabInv ==
    /\ TabTypes
    /\ Senders /\ Answers1 /\ AnswerOnItsWay
    /\ Held /\ Apart /\ Fetched
    /\ Named /\ Cleared /\ Pane
    /\ Alone /\ Exact

-----------------------------------------------------------------------------
(* What a step that touches only other things keeps.                       *)

UiGoesOn ==
    /\ InFrame' => InFrame
    /\ Beginning' => ui' = ui
    /\ ui' = "closed" <=> ui = "closed"

LEMMA SessionIs ==
    ASSUME session \in Sessions
    PROVE  /\ session.modes \subseteq {"view", "file"} /\ session.batches \in 1..Batches
           /\ session.loaders \subseteq Loaders
  BY BoundsAssumption

LEMMA SendersKept == Senders /\ UNCHANGED <<snd, reqID, closed>> /\ UiGoesOn => Senders'
  BY DEF Senders, UiGoesOn, Beginning

LEMMA AnswersKept == Answers1 /\ UNCHANGED <<respChan, snd>> => Answers1'
  BY DEF Answers1, IsAnswerOf

LEMMA OnItsWayKept == AnswerOnItsWay /\ UNCHANGED <<snd, reqID, respChan, requesting>> /\ UiGoesOn => AnswerOnItsWay'
  BY DEF AnswerOnItsWay, UiGoesOn, Fetching

LEMMA HeldKept == Held /\ Apart /\ UNCHANGED <<respFile, base, respChan, files, snd>> => Held' /\ Apart'
  BY DEF Held, Apart, Delivered, Queued

LEMMA FetchedKept == Fetched /\ UNCHANGED <<files, snd>> => Fetched'
  BY DEF Fetched

LEMMA NamedKept == Named /\ UNCHANGED <<shown, base, appendChan, previewChan, ldr>> => Named'
  BY DEF Named, Busy

LEMMA ClearedKept ==
    Cleared /\ UNCHANGED <<editor, respFile, previewEnabled, mode>> /\ UiGoesOn => Cleared'
  BY DEF Cleared, UiGoesOn, Beginning

LEMMA PaneKept ==
    Pane /\ UNCHANGED <<shown, respFile, reqID, editor, snd, previewEnabled>> /\ UiGoesOn => Pane'
  BY DEF Pane, UiGoesOn

LEMMA AloneKept ==
    Alone /\ UNCHANGED <<overtaken, ldr, previewLoading, previewChan, reqID, shown, respFile>> /\ UiGoesOn
        => Alone'
  BY DEF Alone, Busy, UiGoesOn, Beginning

LEMMA ExactKept ==
    Exact /\ UNCHANGED <<requesting, shown, overtaken, respFile, editor, appendChan, reqID, previewLoaded, ldr,
                         previewEnabled, previewChan>> /\ UiGoesOn
        => Exact'
  BY DEF Exact, Accepted, Counts, Busy, UiGoesOn

LEMMA QueueIs ==
    /\ respChan = <<>> => Queued = {}
    /\ \A x : respChan = <<x>> => Queued = {x.file}
  BY DEF Queued

LEMMA QueueNext ==
    /\ respChan' = <<>> => Queued' = {}
    /\ \A x : respChan' = <<x>> => Queued' = {x.file}
  BY DEF Queued

LEMMA ZeroIsNoRequest == 0 \notin Reqs /\ Reqs \subseteq Nat /\ MaxReq \in Nat /\ Batches \in Nat \ {0}
  BY BoundsAssumption DEF Reqs
-----------------------------------------------------------------------------
(* Steps that only move the frame on, or put text from here to there.      *)

LEMMA FrameMoves ==
    ASSUME TabInv, UiGoesOn, ui' \in {"app", "chunks", "response", "preview", "click", "closed"},
           UNCHANGED <<mode, reqID, requesting, closed, exVars, chanVars, paneVars, previewLoading, snd, files, ldr>>,
           cancelFn' \in 0..MaxReq, cancelled' \subseteq Reqs
    PROVE  TabInv'
<1>1. PlainTypes' /\ PaneTypes'
  BY DEF TabInv, TabTypes, PlainTypes, PaneTypes, paneVars, exVars
<1>2. ChanTypes' /\ SndTypes' /\ LdrTypes'
  BY DEF TabInv, TabTypes, ChanTypes, SndTypes, LdrTypes, chanVars
<1>3. Senders' /\ Answers1' /\ AnswerOnItsWay'
  BY SendersKept, AnswersKept, OnItsWayKept DEF TabInv, chanVars, exVars
<1>4. Held' /\ Apart' /\ Fetched'
  BY HeldKept, FetchedKept DEF TabInv, chanVars, paneVars, exVars
<1>5. Named' /\ Cleared' /\ Pane'
  BY NamedKept, ClearedKept, PaneKept DEF TabInv, chanVars, paneVars, exVars
<1>6. Alone' /\ Exact'
  BY AloneKept, ExactKept DEF TabInv, chanVars, paneVars, exVars
<1> QED
  BY <1>1, <1>2, <1>3, <1>4, <1>5, <1>6 DEF TabInv, TabTypes

LEMMA IdleKept ==
    ASSUME TabInv, CancelRequest \/ NoClick \/ NoMoreChunks \/ EndFrame
    PROVE  TabInv'
<1>1. /\ ui \in {"app", "chunks", "click"} /\ ui' \in {"app", "chunks", "response"}
      /\ UNCHANGED <<mode, reqID, requesting, closed, exVars, chanVars, paneVars, previewLoading, snd, files, ldr>>
  <2>1. CASE CancelRequest
    BY <2>1 DEF CancelRequest
  <2>2. CASE NoClick
    BY <2>2 DEF NoClick, reqVars
  <2>3. CASE NoMoreChunks
    BY <2>3 DEF NoMoreChunks, reqVars
  <2>4. CASE EndFrame
    BY <2>4 DEF EndFrame, reqVars
  <2> QED
    BY <2>1, <2>2, <2>3, <2>4
<1>2. UiGoesOn
  BY <1>1 DEF UiGoesOn, InFrame, Beginning
<1>3. cancelFn \in 0..MaxReq /\ cancelled \subseteq Reqs /\ MaxReq \in Nat
  BY ZeroIsNoRequest DEF TabInv, TabTypes, PlainTypes
<1>4. cancelFn' \in 0..MaxReq /\ cancelled' \subseteq Reqs
  <2>1. CASE CancelRequest
    BY <1>3, <2>1 DEF CancelRequest, Reqs
  <2>2. CASE NoClick
    BY <1>3, <2>2 DEF NoClick, reqVars
  <2>3. CASE NoMoreChunks
    BY <1>3, <2>3 DEF NoMoreChunks, reqVars
  <2>4. CASE EndFrame
    BY <1>3, <2>4 DEF EndFrame, reqVars
  <2> QED
    BY <2>1, <2>2, <2>3, <2>4
<1> QED
  BY <1>1, <1>2, <1>4, FrameMoves

\* A request is begun: in four steps of the UI thread, between which goroutines go on.
LEMMA BeginRequestKept ==
    ASSUME TabInv, NEW m \in session.modes, BeginRequest(m)
    PROVE  TabInv'
<1>1. /\ ui = "app" /\ ui' = "drain" /\ reqID < MaxReq /\ reqID' = reqID + 1 /\ mode' = m
      /\ cancelled' = (IF cancelFn = 0 THEN cancelled ELSE cancelled \cup {cancelFn}) /\ cancelFn' = 0
      /\ overtaken' = (overtaken \/ \E l \in Loaders : ldr[l].pc # "none")
      /\ UNCHANGED <<session, requesting, closed, base, shown, respChan, previewChan, appendChan, respFile,
                     respSize, previewLoaded, previewEnabled, editor, previewLoading, snd, files, ldr>>
  BY DEF BeginRequest, chanVars, paneVars
<1>2. ~InFrame' /\ Beginning' /\ ui' \notin {"clean", "start"}
  BY <1>1 DEF InFrame, Beginning
<1>3. MaxReq \in Nat /\ reqID \in 0..MaxReq /\ cancelFn \in 0..MaxReq /\ cancelled \subseteq Reqs
  BY ZeroIsNoRequest DEF TabInv, TabTypes, PlainTypes
<1>4. reqID' \in Reqs /\ reqID' \in 0..MaxReq /\ cancelled' \subseteq Reqs
  <2>1. PICK n, f : n = reqID /\ f = cancelFn
    OBVIOUS
  <2>2. n + 1 \in 1..MaxReq /\ n + 1 \in 0..MaxReq
    BY <1>1, <1>3, <2>1
  <2>3. f # 0 => f \in 1..MaxReq
    BY <1>3, <2>1
  <2> QED
    BY <1>1, <1>3, <2>1, <2>2, <2>3 DEF Reqs
<1>5. PlainTypes'
  <2>1. session \in Sessions
    BY DEF TabInv, TabTypes, PlainTypes
  <2>2. m \in {"view", "file"}
    BY <2>1, SessionIs
  <2> QED
    BY <1>1, <1>3, <1>4, <2>2 DEF TabInv, TabTypes, PlainTypes
<1>6. TabTypes'
  BY <1>1, <1>5 DEF TabInv, TabTypes, PaneTypes, ChanTypes, SndTypes, LdrTypes
<1>7. Senders'
  <2>1. \A r \in Reqs : snd[r].pc # "none" => r <= reqID /\ r <= reqID'
    BY <1>1, <1>3, ZeroIsNoRequest DEF TabInv, Senders
  <2>2. snd[reqID'].pc = "none"
    BY <1>1, <1>3, <1>4, <2>1
  <2>3. \A r, q \in Reqs : snd[r].pc = "locked" /\ snd[q].pc = "locked" => r = q
    BY DEF TabInv, Senders
  <2>4. closed' <=> ui' = "closed"
    BY <1>1 DEF TabInv, Senders
  <2> QED
    BY <1>1, <1>4, <2>1, <2>2, <2>3, <2>4 DEF Senders
<1>8. Answers1' /\ AnswerOnItsWay'
  BY <1>1, <1>2, AnswersKept DEF TabInv, AnswerOnItsWay
<1>9. Held' /\ Apart' /\ Fetched'
  BY <1>1, HeldKept, FetchedKept DEF TabInv
<1>10. Named' /\ Cleared' /\ Pane'
  BY <1>1, <1>2, NamedKept DEF TabInv, Cleared, Pane
<1>11. Alone'
  <2>1. ASSUME ~overtaken' PROVE ~overtaken /\ \A l \in Loaders : ~Busy(l)
    BY <1>1, <2>1 DEF Busy
  <2> QED
    BY <1>1, <1>2, <2>1 DEF TabInv, Alone, Busy
<1>12. Exact'
  BY <1>2 DEF Exact, Accepted
<1> QED
  BY <1>6, <1>7, <1>8, <1>9, <1>10, <1>11, <1>12 DEF TabInv

\* Files are removed, none of those that a sender works on or that stay where they are.
LEMMA FetchedApart ==
    ASSUME Fetched, NEW X, UNCHANGED snd, files' = files \ X,
           \A r \in Reqs : r \in X => snd[r].pc \in {"exit", "done"}
    PROVE  Fetched'
  BY DEF Fetched

LEMMA BeginDrainKept == ASSUME TabInv, BeginDrain PROVE TabInv'
<1>1. /\ ui = "drain" /\ ui' = "clean" /\ appendChan' = <<>> /\ files' = files \ Queued /\ respChan' = <<>>
      /\ previewChan' = <<>> /\ previewLoading' = FALSE /\ editor' = <<>> /\ requesting' = TRUE /\ respSize' = 0
      /\ UNCHANGED <<mode, reqID, cancelFn, closed, session, base, shown, overtaken, respFile, previewLoaded,
                     previewEnabled, snd, cancelled, ldr>>
  BY DEF BeginDrain, exVars
<1>2. ~InFrame' /\ Beginning' /\ Beginning
  BY <1>1 DEF InFrame, Beginning
<1>3. TabTypes'
  <2>1. PlainTypes' /\ PaneTypes'
    <3>1. files' \subseteq Reqs /\ requesting' \in BOOLEAN /\ previewLoading' \in BOOLEAN
      BY <1>1 DEF TabInv, TabTypes, PlainTypes
    <3>2. respSize' \in 0..Batches /\ editor' \in Seq(Pieces)
      BY <1>1, ZeroIsNoRequest
    <3>3. PlainTypes'
      BY <1>1, <3>1 DEF TabInv, TabTypes, PlainTypes
    <3>4. PaneTypes'
      BY <1>1, <3>1, <3>2 DEF TabInv, TabTypes, PaneTypes
    <3> QED
      BY <3>3, <3>4
  <2>2. ChanTypes'
    BY <1>1, BoundsAssumption DEF ChanTypes
  <2>3. SndTypes' /\ LdrTypes'
    BY <1>1 DEF TabInv, TabTypes, SndTypes, LdrTypes
  <2> QED
    BY <2>1, <2>2, <2>3 DEF TabTypes
<1>4. Senders' /\ Answers1' /\ AnswerOnItsWay'
  <2>1. Senders'
    BY <1>1, <1>2 DEF TabInv, Senders
  <2>2. Answers1' /\ AnswerOnItsWay'
    BY <1>1, <1>2 DEF Answers1, AnswerOnItsWay
  <2> QED
    BY <2>1, <2>2
<1>5. Queued' = {}
  BY <1>1, QueueNext
<1>6. Held' /\ Apart'
  <2>1. respFile # 0 => Delivered(respFile)'
    BY <1>1 DEF TabInv, Held, Apart, Delivered
  <2>2. base.valid /\ base.file # 0 => Delivered(base.file)'
    BY <1>1 DEF TabInv, Held, Apart, Delivered
  <2>3. base.valid /\ base.file # 0 => base.file # respFile
    BY DEF TabInv, Apart
  <2> QED
    BY <1>1, <1>5, <2>1, <2>2, <2>3 DEF Held, Apart
<1>7. Fetched'
  <2>1. \A r \in Reqs : r \in Queued => snd[r].pc \in {"exit", "done"}
    BY ZeroIsNoRequest DEF TabInv, Held, Delivered
  <2> QED
    BY <1>1, <2>1, FetchedApart DEF TabInv
<1>8. Named'
  BY <1>1 DEF TabInv, Named, Busy
<1>9. Cleared' /\ Pane' /\ Exact'
  BY <1>1, <1>2 DEF Cleared, Pane, Exact, Accepted
<1>10. Alone'
  <2>1. ~overtaken => \A l \in Loaders : ~Busy(l)
    BY <1>2 DEF TabInv, Alone
  <2> QED
    BY <1>1, <2>1 DEF Alone, Busy
<1> QED
  BY <1>3, <1>4, <1>6, <1>7, <1>8, <1>9, <1>10 DEF TabInv

\* cleanupRespFile: of the files of the tab only the one set aside is left.
LEMMA CleanedUp ==
    ASSUME Held, Apart, Fetched, files' = (files \ Queued) \ {respFile}, respFile' = 0, respChan' = <<>>,
           UNCHANGED <<base, snd>>
    PROVE  Held' /\ Apart' /\ Fetched'
<1>1. Queued' = {}
  BY QueueNext
<1>2. base.valid /\ base.file # 0 => Delivered(base.file)'
  BY DEF Held, Apart, Delivered
<1>3. Held' /\ Apart'
  BY <1>1, <1>2 DEF Held, Apart
<1>4. \A r \in Reqs : r \in Queued \cup {respFile} => snd[r].pc \in {"exit", "done"}
  BY ZeroIsNoRequest DEF Held, Delivered
<1>5. files' = files \ (Queued \cup {respFile})
  OBVIOUS
<1>6. Fetched'
  BY <1>4, <1>5, FetchedApart
<1> QED
  BY <1>3, <1>6

LEMMA BeginCleanKept == ASSUME TabInv, BeginClean PROVE TabInv'
<1>1. /\ ui = "clean" /\ ui' = "start" /\ files' = (files \ Queued) \ {respFile} /\ respChan' = <<>>
      /\ respFile' = 0 /\ previewEnabled' = (mode = "view") /\ previewLoaded' = 0
      /\ UNCHANGED <<mode, reqID, requesting, cancelFn, closed, session, base, shown, overtaken, previewChan,
                     appendChan, respSize, editor, previewLoading, snd, cancelled, ldr>>
  BY DEF BeginClean, reqVars, exVars
<1>2. ~InFrame' /\ Beginning' /\ Beginning
  BY <1>1 DEF InFrame, Beginning
<1>3. TabTypes'
  <2>1. PlainTypes' /\ PaneTypes'
    <3>1. files' \subseteq Reqs /\ previewEnabled' \in BOOLEAN
      BY <1>1 DEF TabInv, TabTypes, PlainTypes
    <3>2. respFile' \in 0..MaxReq /\ previewLoaded' \in Nat
      BY <1>1, ZeroIsNoRequest
    <3>3. PlainTypes'
      BY <1>1, <3>1 DEF TabInv, TabTypes, PlainTypes
    <3>4. PaneTypes'
      BY <1>1, <3>1, <3>2 DEF TabInv, TabTypes, PaneTypes
    <3> QED
      BY <3>3, <3>4
  <2>2. ChanTypes' /\ SndTypes' /\ LdrTypes'
    BY <1>1 DEF TabInv, TabTypes, ChanTypes, SndTypes, LdrTypes
  <2> QED
    BY <2>1, <2>2 DEF TabTypes
<1>4. Senders' /\ Answers1' /\ AnswerOnItsWay'
  <2>1. Senders'
    BY <1>1, <1>2 DEF TabInv, Senders
  <2>2. Answers1' /\ AnswerOnItsWay'
    BY <1>1, <1>2 DEF Answers1, AnswerOnItsWay
  <2> QED
    BY <2>1, <2>2
<1>5. Held' /\ Apart' /\ Fetched'
  BY <1>1, CleanedUp DEF TabInv
<1>6. Named'
  BY <1>1, NamedKept DEF TabInv
<1>7. Cleared' /\ Pane' /\ Exact'
  BY <1>1, <1>2 DEF TabInv, Cleared, Pane, Exact, Accepted
<1>8. Alone'
  <2>1. ~overtaken => previewChan = <<>> /\ \A l \in Loaders : ~Busy(l)
    BY <1>1, <1>2 DEF TabInv, Alone
  <2> QED
    BY <1>1, <2>1 DEF Alone, Busy
<1> QED
  BY <1>3, <1>4, <1>5, <1>6, <1>7, <1>8 DEF TabInv

LEMMA MarkClosedKept == ASSUME TabInv, MarkClosed PROVE TabInv'
<1>1. /\ ui = "app" /\ ui' = "closed" /\ files' = (files \ Queued) \ {respFile} /\ respChan' = <<>>
      /\ respFile' = 0 /\ closed' = TRUE
      /\ cancelled' = (IF cancelFn = 0 THEN cancelled ELSE cancelled \cup {cancelFn}) /\ cancelFn' = 0
      /\ UNCHANGED <<mode, reqID, requesting, session, base, shown, overtaken, previewChan, appendChan, respSize,
                     previewLoaded, previewEnabled, editor, previewLoading, snd, ldr>>
  BY DEF MarkClosed, exVars
<1>2. ~InFrame' /\ ~Beginning'
  BY <1>1 DEF InFrame, Beginning
<1>3. TabTypes'
  <2>1. cancelFn \in 0..MaxReq /\ cancelled \subseteq Reqs /\ MaxReq \in Nat
    BY ZeroIsNoRequest DEF TabInv, TabTypes, PlainTypes
  <2>2. cancelled' \subseteq Reqs /\ cancelFn' \in 0..MaxReq /\ 0 \in 0..MaxReq
    BY <1>1, <2>1 DEF Reqs
  <2>3. PlainTypes' /\ PaneTypes'
    BY <1>1, <2>2 DEF TabInv, TabTypes, PlainTypes, PaneTypes
  <2>4. ChanTypes' /\ SndTypes' /\ LdrTypes'
    BY <1>1 DEF TabInv, TabTypes, ChanTypes, SndTypes, LdrTypes
  <2> QED
    BY <2>3, <2>4 DEF TabTypes
<1>4. Senders' /\ Answers1' /\ AnswerOnItsWay'
  <2>1. Senders'
    BY <1>1, <1>2 DEF TabInv, Senders
  <2>2. Answers1' /\ AnswerOnItsWay'
    BY <1>1, <1>2 DEF Answers1, AnswerOnItsWay
  <2> QED
    BY <2>1, <2>2
<1>5. Held' /\ Apart' /\ Fetched'
  BY <1>1, CleanedUp DEF TabInv
<1>6. Named'
  BY <1>1, NamedKept DEF TabInv
<1>7. Cleared' /\ Pane' /\ Exact'
  BY <1>1, <1>2 DEF Cleared, Pane, Exact, Accepted
<1>8. Alone'
  BY <1>1, <1>2 DEF TabInv, Alone, Busy
<1> QED
  BY <1>3, <1>4, <1>5, <1>6, <1>7, <1>8 DEF TabInv
-----------------------------------------------------------------------------
(* Steps of the goroutine of a request.                                    *)

SenderPcs == {"none", "do", "stream", "streamed", "answer", "locked", "exit", "done"}

\* Request r is now at p in mode m, with or without a response; the others are where they were.
Now(r, p, m, o) ==
    /\ snd'[r].pc = p /\ snd'[r].mode = m /\ snd'[r].ok = o
    /\ \A q \in Reqs \ {r} : snd'[q] = snd[q]

LEMMA IsNow ==
    ASSUME SndTypes, NEW r \in Reqs, NEW p \in SenderPcs, NEW m \in {"view", "file"}, NEW o \in BOOLEAN,
           snd' = [snd EXCEPT ![r] = [pc |-> p, mode |-> m, ok |-> o]]
    PROVE  SndTypes' /\ Now(r, p, m, o)
<1>1. PICK x : x = [pc |-> p, mode |-> m, ok |-> o]
  OBVIOUS
<1>2. x.pc = p /\ x.mode = m /\ x.ok = o
  BY <1>1
<1>3. IsSender(x)
  BY <1>1, <1>2 DEF IsSender, SenderPcs
<1>4. snd = [q \in Reqs |-> snd[q]] /\ \A q \in Reqs : IsSender(snd[q])
  BY DEF SndTypes
<1>5. snd' = [q \in Reqs |-> IF q = r THEN x ELSE snd[q]]
  BY <1>1, <1>4
<1>6. SndTypes'
  BY <1>3, <1>4, <1>5 DEF SndTypes
<1>7. snd'[r] = x /\ \A q \in Reqs \ {r} : snd'[q] = snd[q]
  BY <1>5
<1> QED
  BY <1>2, <1>6, <1>7 DEF Now

LEMMA SenderMoves ==
    ASSUME SndTypes, NEW r \in Reqs, NEW p \in SenderPcs, snd' = [snd EXCEPT ![r].pc = p]
    PROVE  SndTypes' /\ Now(r, p, snd[r].mode, snd[r].ok)
<1>1. PICK x : x = snd[r]
  OBVIOUS
<1>2. IsSender(x)
  BY <1>1 DEF SndTypes
<1>3. PICK m, o : m = x.mode /\ o = x.ok
  OBVIOUS
<1>4. m \in {"view", "file"} /\ o \in BOOLEAN
  BY <1>2, <1>3 DEF IsSender
<1>5. [x EXCEPT !.pc = p] = [pc |-> p, mode |-> m, ok |-> o]
  BY <1>2, <1>3 DEF IsSender
<1>6. snd' = [snd EXCEPT ![r] = [x EXCEPT !.pc = p]]
  BY <1>1
<1>7. snd' = [snd EXCEPT ![r] = [pc |-> p, mode |-> m, ok |-> o]]
  BY <1>5, <1>6
<1>8. SndTypes' /\ Now(r, p, m, o)
  BY <1>4, <1>7, IsNow
<1> QED
  BY <1>1, <1>3, <1>8

LEMMA SenderAnswers ==
    ASSUME SndTypes, NEW r \in Reqs, NEW p \in SenderPcs, NEW o \in BOOLEAN,
           snd' = [snd EXCEPT ![r].pc = p, ![r].ok = o]
    PROVE  SndTypes' /\ Now(r, p, snd[r].mode, o)
<1>1. PICK x : x = snd[r]
  OBVIOUS
<1>2. IsSender(x) /\ snd = [q \in Reqs |-> snd[q]]
  BY <1>1 DEF SndTypes
<1>3. PICK m, b : m = x.mode /\ b = x.ok
  OBVIOUS
<1>4. m \in {"view", "file"}
  BY <1>2, <1>3 DEF IsSender
<1>5. [x EXCEPT !.pc = p] = [pc |-> p, mode |-> m, ok |-> b]
  BY <1>2, <1>3 DEF IsSender
<1>6. [[pc |-> p, mode |-> m, ok |-> b] EXCEPT !.ok = o] = [pc |-> p, mode |-> m, ok |-> o]
  OBVIOUS
<1>7. snd' = [snd EXCEPT ![r] = [[x EXCEPT !.pc = p] EXCEPT !.ok = o]]
  BY <1>1, <1>2
<1>8. snd' = [snd EXCEPT ![r] = [pc |-> p, mode |-> m, ok |-> o]]
  BY ONLY <1>5, <1>6, <1>7
<1>9. SndTypes' /\ Now(r, p, m, o)
  BY <1>4, <1>8, IsNow
<1> QED
  BY <1>1, <1>3, <1>9

\* What is set aside, shown or queued is of requests that are over, so the step of
\* another leaves it there.
LEMMA OthersDelivered ==
    ASSUME NEW r \in Reqs, NEW p, NEW m, NEW o, Now(r, p, m, o), files \ {r} \subseteq files',
           NEW f, Delivered(f), f # r
    PROVE  Delivered(f)'
  BY DEF Now, Delivered

LEMMA HeldApartFrom ==
    ASSUME Held, NEW r \in Reqs, snd[r].pc \notin {"exit", "done"}
    PROVE  /\ respFile # r /\ r \notin Queued
           /\ base.valid => base.file # r
  BY ZeroIsNoRequest DEF Held, Delivered

LEMMA HeldUnder ==
    ASSUME Held, Apart, NEW r \in Reqs, snd[r].pc \notin {"exit", "done"},
           NEW p, NEW m, NEW o, Now(r, p, m, o), files \ {r} \subseteq files',
           UNCHANGED <<respFile, base, respChan>>
    PROVE  Held' /\ Apart'
<1>1. /\ respFile # r /\ r \notin Queued
      /\ base.valid => base.file # r
  BY HeldApartFrom
<1>2. Queued' = Queued
  BY DEF Queued
<1>3. respFile # 0 => Delivered(respFile)'
  <2>1. PICK f : f = respFile
    OBVIOUS
  <2>2. f # 0 => Delivered(f)'
    BY <1>1, <2>1, OthersDelivered DEF Held
  <2> QED
    BY <2>1, <2>2 DEF Delivered
<1>4. base.valid /\ base.file # 0 => Delivered(base.file)'
  <2>1. PICK f : f = base.file
    OBVIOUS
  <2>2. base.valid /\ f # 0 => Delivered(f)'
    BY <1>1, <2>1, OthersDelivered DEF Held
  <2> QED
    BY <2>1, <2>2 DEF Delivered
<1>5. \A f \in Queued : f # 0 => Delivered(f)'
  BY <1>1, OthersDelivered DEF Held
<1> QED
  BY <1>2, <1>3, <1>4, <1>5 DEF Held, Apart

LEMMA AnswersUnder ==
    ASSUME Answers1, NEW r \in Reqs, snd[r].pc \notin {"exit", "done"},
           NEW p, NEW m, NEW o, Now(r, p, m, o), UNCHANGED respChan
    PROVE  Answers1'
<1>1. ASSUME NEW x, IsAnswerOf(x) PROVE IsAnswerOf(x)'
  BY <1>1 DEF IsAnswerOf, Now
<1> QED
  BY <1>1 DEF Answers1

LEMMA FetchedUnder ==
    ASSUME Fetched, NEW r \in Reqs, NEW p, NEW m, NEW o \in BOOLEAN, Now(r, p, m, o),
           files \ {r} \subseteq files',
           p \in {"stream", "streamed"} => r \in files',
           p \in {"answer", "locked"} /\ o => r \in files',
           p \in {"do", "stream", "streamed"} => ~o
    PROVE  Fetched'
<1>1. ASSUME NEW q \in Reqs \ {r}
      PROVE  /\ snd'[q].pc \in {"stream", "streamed"} => q \in files'
             /\ snd'[q].pc \in {"answer", "locked"} /\ snd'[q].ok => q \in files'
             /\ snd'[q].pc \in {"do", "stream", "streamed"} => ~snd'[q].ok
  BY <1>1 DEF Fetched, Now
<1>2. /\ snd'[r].pc \in {"stream", "streamed"} => r \in files'
      /\ snd'[r].pc \in {"answer", "locked"} /\ snd'[r].ok => r \in files'
      /\ snd'[r].pc \in {"do", "stream", "streamed"} => ~snd'[r].ok
  BY DEF Now
<1> QED
  BY <1>1, <1>2 DEF Fetched

LEMMA StartSenderKept == ASSUME TabInv, StartSender PROVE TabInv'
<1>1. /\ ui = "start" /\ ui' = "chunks"
      /\ UNCHANGED <<mode, reqID, closed, session, base, shown, overtaken, respChan, previewChan, appendChan,
                     respFile, respSize, previewLoaded, previewEnabled, editor, previewLoading, cancelled, files,
                     ldr>>
  BY DEF StartSender, exVars, chanVars, paneVars
<1>2. InFrame' /\ ~Beginning' /\ Beginning
  BY <1>1 DEF InFrame, Beginning
<1>3. reqID \in Reqs /\ snd[reqID].pc = "none" /\ mode \in {"view", "file"} /\ reqID \in 0..MaxReq
  BY <1>2 DEF TabInv, Senders, TabTypes, PlainTypes
<1>4. \/ requesting' = FALSE /\ UNCHANGED <<cancelFn, snd>>
      \/ /\ cancelFn' = reqID /\ UNCHANGED requesting
         /\ SndTypes' /\ Now(reqID, "do", mode, FALSE)
  <2>1. CASE requesting' = FALSE /\ UNCHANGED <<cancelFn, snd>>
    BY <2>1
  <2>2. CASE /\ cancelFn' = reqID /\ UNCHANGED requesting
             /\ snd' = [snd EXCEPT ![reqID] = [pc |-> "do", mode |-> mode, ok |-> FALSE]]
    <3>1. PICK r, m, p, o : r = reqID /\ m = mode /\ p = "do" /\ o = FALSE
      OBVIOUS
    <3>2. p \in SenderPcs /\ o \in BOOLEAN
      BY <3>1 DEF SenderPcs
    <3>3. snd' = [snd EXCEPT ![r] = [pc |-> p, mode |-> m, ok |-> o]]
      BY <2>2, <3>1
    <3>4. SndTypes
      BY DEF TabInv, TabTypes
    <3>5. SndTypes' /\ Now(r, p, m, o)
      BY <1>3, <3>1, <3>2, <3>3, <3>4, IsNow
    <3> QED
      BY <2>2, <3>1, <3>5
  <2> QED
    BY <2>1, <2>2 DEF StartSender
<1>5. SndTypes'
  BY <1>4 DEF TabInv, TabTypes, SndTypes
<1>6. TabTypes'
  <2>1. cancelFn' \in 0..MaxReq /\ requesting' \in BOOLEAN
    BY <1>3, <1>4 DEF TabInv, TabTypes, PlainTypes
  <2>2. PlainTypes' /\ PaneTypes'
    BY <1>1, <2>1 DEF TabInv, TabTypes, PlainTypes, PaneTypes
  <2>3. ChanTypes' /\ LdrTypes'
    BY <1>1 DEF TabInv, TabTypes, ChanTypes, LdrTypes
  <2> QED
    BY <1>5, <2>2, <2>3 DEF TabTypes
<1>7. Senders'
  <2>1. \A r \in Reqs : r # reqID => snd'[r].pc = snd[r].pc
    BY <1>4 DEF Now
  <2>2. snd'[reqID].pc \in {"none", "do"}
    BY <1>3, <1>4 DEF Now
  <2>3. reqID <= reqID
    BY <1>3
  <2> QED
    BY <1>1, <1>2, <1>3, <2>1, <2>2, <2>3 DEF TabInv, Senders
<1>8. Answers1'
  <2>1. CASE UNCHANGED snd
    BY <1>1, <2>1, AnswersKept DEF TabInv
  <2>2. CASE Now(reqID, "do", mode, FALSE)
    BY <1>1, <1>3, <2>2, AnswersUnder DEF TabInv
  <2> QED
    BY <1>4, <2>1, <2>2
<1>9. AnswerOnItsWay'
  <2>1. requesting' => Fetching(reqID)'
    <3>1. CASE requesting' = FALSE
      BY <3>1
    <3>2. CASE Now(reqID, "do", mode, FALSE)
      <4>1. snd'[reqID].pc = "do" /\ reqID' = reqID
        BY <1>1, <3>2 DEF Now
      <4> QED
        BY <4>1 DEF Fetching
    <3> QED
      BY <1>4, <3>1, <3>2
  <2> QED
    BY <1>1, <2>1 DEF AnswerOnItsWay, Fetching
<1>10. Held' /\ Apart' /\ Fetched'
  <2>1. CASE UNCHANGED snd
    BY <1>1, <2>1, HeldKept, FetchedKept DEF TabInv
  <2>2. CASE Now(reqID, "do", mode, FALSE)
    <3>1. PICK p, o : p = "do" /\ o = FALSE /\ Now(reqID, p, mode, o)
      BY <2>2
    <3>2. Held' /\ Apart'
      BY <1>1, <1>3, <3>1, HeldUnder DEF TabInv
    <3>3. Fetched'
      BY <1>1, <1>3, <3>1, FetchedUnder DEF TabInv
    <3> QED
      BY <3>2, <3>3
  <2> QED
    BY <1>4, <2>1, <2>2
<1>11. Named'
  BY <1>1, NamedKept DEF TabInv
<1>12. Cleared'
  BY <1>1 DEF Cleared
<1>13. Pane'
  <2>1. respFile = 0 /\ editor = <<>> /\ (previewEnabled <=> mode = "view")
    BY <1>1 DEF TabInv, Cleared
  <2>2. snd'[reqID].pc # "none" => snd'[reqID].mode = mode
    BY <1>3, <1>4 DEF Now
  <2> QED
    BY <1>1, <2>1, <2>2 DEF Pane
<1>14. Alone'
  <2>1. ~overtaken => previewChan = <<>> /\ \A l \in Loaders : ~Busy(l)
    BY <1>1, <1>2 DEF TabInv, Alone
  <2> QED
    BY <1>1, <2>1 DEF Alone, Busy
<1>15. Exact'
  <2>1. respFile = 0
    BY <1>1 DEF TabInv, Cleared
  <2> QED
    BY <1>1, <2>1 DEF Exact, Accepted
<1> QED
  BY <1>6, <1>7, <1>8, <1>9, <1>10, <1>11, <1>12, <1>13, <1>14, <1>15 DEF TabInv
\* What the sender's step leaves: all that only the UI thread and the loaders touch.
LEMMA SenderRest ==
    ASSUME TabInv, NEW r \in Reqs, NEW p, NEW m, NEW o, Now(r, p, m, o), m = snd[r].mode, snd[r].pc # "none",
           UNCHANGED sndOnly, files' \subseteq Reqs
    PROVE  PlainTypes' /\ PaneTypes' /\ LdrTypes' /\ Cleared' /\ Pane' /\ Alone' /\ UiGoesOn
<1>1. UNCHANGED <<ui, mode, reqID, requesting, cancelFn, closed, session, base, shown, overtaken, respFile, respSize,
                  previewLoaded, previewEnabled, editor, previewLoading, previewChan, cancelled, ldr>>
  BY DEF sndOnly, reqVars, exVars, paneVars
<1>2. UiGoesOn
  BY <1>1 DEF UiGoesOn, InFrame, Beginning
<1>3. PlainTypes' /\ PaneTypes'
  BY <1>1 DEF TabInv, TabTypes, PlainTypes, PaneTypes
<1>4. LdrTypes' /\ Cleared' /\ Alone'
  BY <1>1, <1>2, ClearedKept, AloneKept DEF TabInv, TabTypes, LdrTypes
<1>5. Pane'
  <2>1. ASSUME reqID \in Reqs
        PROVE  snd'[reqID].mode = snd[reqID].mode /\ (snd'[reqID].pc # "none" => snd[reqID].pc # "none")
    <3>1. CASE reqID = r
      BY <3>1 DEF Now
    <3>2. CASE reqID # r
      BY <2>1, <3>2 DEF Now
    <3> QED
      BY <3>1, <3>2
  <2>2. InFrame' = InFrame
    BY <1>1 DEF InFrame
  <2> QED
    BY <1>1, <2>1, <2>2 DEF TabInv, Pane
<1> QED
  BY <1>2, <1>3, <1>4, <1>5

LEMMA SenderOrder ==
    ASSUME Senders, NEW r \in Reqs, NEW p, NEW m, NEW o, Now(r, p, m, o), snd[r].pc # "none",
           UNCHANGED <<ui, reqID, closed>>, p # "locked",
           p \in {"exit", "done"} => \/ snd[r].pc \in {"locked", "exit", "done"}
                                     \/ \A q \in Reqs : snd[q].pc # "locked"
    PROVE  Senders'
<1>1. \A q \in Reqs : snd'[q].pc # "none" => q <= reqID
  BY DEF Senders, Now
<1>2. Beginning => reqID \in Reqs /\ snd'[reqID].pc = "none"
  BY DEF Senders, Now
<1>3. \A q \in Reqs : snd'[q].pc = "locked" => q # r /\ snd[q].pc = "locked"
  BY DEF Now
<1>4. \A q, s \in Reqs : snd'[q].pc = "locked" /\ snd'[s].pc = "locked" => q = s
  BY <1>3 DEF Senders
<1>5. ASSUME NEW q \in Reqs, snd'[q].pc = "locked", reqID \in Reqs, snd'[reqID].pc \in {"locked", "exit", "done"}
      PROVE  q = reqID
  <2>1. q # r /\ snd[q].pc = "locked"
    BY <1>3, <1>5
  <2>2. CASE reqID = r
    <3>1. snd[reqID].pc \in {"locked", "exit", "done"}
      BY <1>5, <2>1, <2>2 DEF Now
    <3> QED
      BY <1>5, <2>1, <3>1 DEF Senders
  <2>3. CASE reqID # r
    BY <1>5, <2>1, <2>3 DEF Senders, Now
  <2> QED
    BY <2>2, <2>3
<1>6. (closed <=> ui = "closed") /\ Beginning' = Beginning
  BY DEF Senders, Beginning
<1> QED
  BY <1>1, <1>2, <1>4, <1>5, <1>6 DEF Senders

LEMMA OnItsWayUnder ==
    ASSUME AnswerOnItsWay, Senders, NEW r \in Reqs, NEW p, NEW m, NEW o, Now(r, p, m, o),
           UNCHANGED <<ui, reqID, closed, requesting, respChan>>, reqID \in 0..MaxReq, snd[r].pc # "none",
           \/ p \in {"do", "stream", "streamed", "answer", "locked"}
           \/ snd[r].pc \in {"exit", "done"}
           \/ r # reqID \/ closed
    PROVE  AnswerOnItsWay'
<1>1. InFrame' = InFrame /\ (closed => ~InFrame)
  BY DEF InFrame, Senders
<1>2. ASSUME Fetching(reqID), ~closed PROVE Fetching(reqID)'
  <2>1. CASE reqID = r
    BY <1>2, <2>1 DEF Fetching, Now
  <2>2. CASE reqID # r
    <3>1. ASSUME reqID \in Reqs PROVE Fetching(reqID)'
      BY <1>2, <2>2, <3>1 DEF Fetching, Now
    <3>2. reqID \in Reqs
      <4>1. PICK n, k : n = reqID /\ k = r
        OBVIOUS
      <4>2. k \in 1..MaxReq /\ k <= n /\ n \in 0..MaxReq
        BY <4>1 DEF Senders, Reqs
      <4>3. n \in 1..MaxReq
        BY <4>2
      <4> QED
        BY <4>1, <4>3 DEF Reqs
    <3> QED
      BY <3>1, <3>2
  <2> QED
    BY <2>1, <2>2
<1> QED
  BY <1>1, <1>2 DEF AnswerOnItsWay

\* A step of a sender that puts nothing into a channel and hands nothing over.
LEMMA FetchMoves ==
    ASSUME TabInv, NEW r \in Reqs, NEW p, NEW o \in BOOLEAN, SndTypes', Now(r, p, snd[r].mode, o),
           snd[r].pc \in {"do", "stream", "streamed", "answer"}, UNCHANGED <<sndOnly, respChan>>,
           p \in {"stream", "streamed", "answer", "exit"},
           p = "exit" => (r # reqID \/ closed) /\ \A q \in Reqs : snd[q].pc # "locked",
           files \ {r} \subseteq files', files' \subseteq Reqs,
           p \in {"stream", "streamed"} => r \in files' /\ ~o,
           p = "answer" /\ o => r \in files',
           ChanTypes', Named', Exact'
    PROVE  TabInv'
<1>1. UNCHANGED <<ui, reqID, closed, requesting, respFile, base, respChan>>
  BY DEF sndOnly, reqVars, exVars, paneVars
<1>2. PICK m : m = snd[r].mode /\ Now(r, p, m, o)
  OBVIOUS
<1>3. PlainTypes' /\ PaneTypes' /\ LdrTypes' /\ Cleared' /\ Pane' /\ Alone'
  BY <1>2, SenderRest
<1>4. Senders'
  BY <1>1, <1>2, SenderOrder DEF TabInv
<1>5. Held' /\ Apart' /\ Answers1'
  BY <1>1, <1>2, HeldUnder, AnswersUnder DEF TabInv
<1>6. Fetched'
  BY <1>2, FetchedUnder DEF TabInv
<1>7. AnswerOnItsWay'
  <2>1. reqID \in 0..MaxReq
    BY DEF TabInv, TabTypes, PlainTypes
  <2> QED
    BY <1>1, <1>2, <2>1, OnItsWayUnder DEF TabInv
<1> QED
  BY <1>3, <1>4, <1>5, <1>6, <1>7 DEF TabInv, TabTypes

LEMMA QuietSender ==
    ASSUME TabInv, UNCHANGED <<sndOnly, appendChan>>
    PROVE  ChanTypes' /\ Named' /\ Exact'
<1>1. UNCHANGED <<ui, mode, reqID, requesting, base, shown, overtaken, respFile, respSize,
                  previewLoaded, previewEnabled, editor, previewLoading, previewChan, appendChan, ldr>>
  BY DEF sndOnly, reqVars, exVars, paneVars
<1>2. UiGoesOn
  BY <1>1 DEF UiGoesOn, InFrame, Beginning
<1> QED
  BY <1>1, <1>2, NamedKept, ExactKept DEF TabInv, TabTypes, ChanTypes

LEMMA DoFailsKept == ASSUME TabInv, NEW r \in Reqs, DoFails(r) PROVE TabInv'
<1>1. /\ snd[r].pc = "do" /\ snd' = [snd EXCEPT ![r].pc = "answer"]
      /\ UNCHANGED <<sndOnly, respChan, appendChan, files>>
  BY DEF DoFails, SenderAt
<1>2. files \subseteq Reqs /\ SndTypes /\ ~snd[r].ok /\ snd[r].ok \in BOOLEAN
  BY <1>1 DEF TabInv, TabTypes, PlainTypes, SndTypes, IsSender, Fetched
<1>3. PICK p, o : o \in BOOLEAN /\ p = "answer" /\ o = snd[r].ok
  BY <1>2
<1>4. SndTypes' /\ Now(r, p, snd[r].mode, o) /\ ~o
  BY <1>1, <1>2, <1>3, SenderMoves DEF SenderPcs
<1>5. ChanTypes' /\ Named' /\ Exact'
  BY <1>1, QuietSender
<1> QED
  BY <1>1, <1>2, <1>3, <1>4, <1>5, FetchMoves

LEMMA DoSucceedsKept == ASSUME TabInv, NEW r \in Reqs, DoSucceeds(r) PROVE TabInv'
<1>1. /\ snd[r].pc = "do" /\ snd' = [snd EXCEPT ![r].pc = "stream"] /\ files' = files \cup {r}
      /\ UNCHANGED <<sndOnly, respChan, appendChan>>
  BY DEF DoSucceeds, SenderAt
<1>2. files \subseteq Reqs /\ SndTypes /\ ~snd[r].ok /\ snd[r].ok \in BOOLEAN
  BY <1>1 DEF TabInv, TabTypes, PlainTypes, SndTypes, IsSender, Fetched
<1>3. PICK p, o : o \in BOOLEAN /\ p = "stream" /\ o = snd[r].ok
  BY <1>2
<1>4. SndTypes' /\ Now(r, p, snd[r].mode, o) /\ ~o
  BY <1>1, <1>2, <1>3, SenderMoves DEF SenderPcs
<1>5. ChanTypes' /\ Named' /\ Exact'
  BY <1>1, QuietSender
<1>6. r \in files' /\ files' \subseteq Reqs /\ files \ {r} \subseteq files'
  BY <1>1, <1>2
<1> QED
  BY <1>1, <1>2, <1>3, <1>4, <1>5, <1>6, FetchMoves

LEMMA StreamFailsKept == ASSUME TabInv, NEW r \in Reqs, StreamFails(r) PROVE TabInv'
<1>1. /\ snd[r].pc \in {"stream", "streamed"} /\ snd' = [snd EXCEPT ![r].pc = "answer"]
      /\ files' = (IF snd[r].mode = "file" THEN files \ {r} ELSE files)
      /\ UNCHANGED <<sndOnly, respChan, appendChan>>
  BY DEF StreamFails, Removed
<1>2. files \subseteq Reqs /\ SndTypes /\ ~snd[r].ok /\ snd[r].ok \in BOOLEAN
  BY <1>1 DEF TabInv, TabTypes, PlainTypes, SndTypes, IsSender, Fetched
<1>3. PICK p, o : o \in BOOLEAN /\ p = "answer" /\ o = snd[r].ok
  BY <1>2
<1>4. SndTypes' /\ Now(r, p, snd[r].mode, o) /\ ~o
  BY <1>1, <1>2, <1>3, SenderMoves DEF SenderPcs
<1>5. ChanTypes' /\ Named' /\ Exact'
  BY <1>1, QuietSender
<1>6. files' \subseteq Reqs /\ files \ {r} \subseteq files'
  BY <1>1, <1>2
<1> QED
  BY <1>1, <1>2, <1>3, <1>4, <1>5, <1>6, FetchMoves

LEMMA StreamEndsKept == ASSUME TabInv, NEW r \in Reqs, StreamEnds(r) PROVE TabInv'
<1>1. /\ snd[r].pc \in {"stream", "streamed"} /\ snd' = [snd EXCEPT ![r].pc = "answer", ![r].ok = TRUE]
      /\ UNCHANGED <<sndOnly, respChan, appendChan, files>>
  BY DEF StreamEnds
<1>2. files \subseteq Reqs /\ SndTypes /\ r \in files
  BY <1>1 DEF TabInv, TabTypes, PlainTypes, Fetched
<1>3. PICK p, o : o \in BOOLEAN /\ p = "answer" /\ o = TRUE
  OBVIOUS
<1>4. snd' = [snd EXCEPT ![r].pc = p, ![r].ok = o]
  BY <1>1, <1>3
<1>5. SndTypes' /\ Now(r, p, snd[r].mode, o)
  BY <1>2, <1>3, <1>4, SenderAnswers DEF SenderPcs
<1>6. ChanTypes' /\ Named' /\ Exact'
  BY <1>1, QuietSender
<1> QED
  BY <1>1, <1>2, <1>3, <1>5, <1>6, FetchMoves

LEMMA SendRefusedKept == ASSUME TabInv, NEW r \in Reqs, SendRefused(r) PROVE TabInv'
<1>1. /\ snd[r].pc = "answer" /\ snd' = [snd EXCEPT ![r].pc = "exit", ![r].ok = FALSE]
      /\ r # reqID \/ closed
      /\ \A q \in Reqs : snd[q].pc # "locked"
      /\ UNCHANGED <<sndOnly, respChan, appendChan, files>>
  BY DEF SendRefused
<1>2. files \subseteq Reqs /\ SndTypes
  BY <1>1 DEF TabInv, TabTypes, PlainTypes
<1>3. PICK p, o : o \in BOOLEAN /\ p = "exit" /\ o = FALSE
  OBVIOUS
<1>4. snd' = [snd EXCEPT ![r].pc = p, ![r].ok = o]
  BY <1>1, <1>3
<1>5. SndTypes' /\ Now(r, p, snd[r].mode, o)
  BY <1>2, <1>3, <1>4, SenderAnswers DEF SenderPcs
<1>6. ChanTypes' /\ Named' /\ Exact'
  BY <1>1, QuietSender
<1> QED
  BY <1>1, <1>2, <1>3, <1>5, <1>6, FetchMoves
-----------------------------------------------------------------------------
(* The chunks on their way to the pane.                                    *)

LEMMA ShowsNow ==
    ASSUME NEW S, NEW q \in Seq(S), NEW r, NEW f, NEW e, NEW k \in Nat, Prefix(e, f, k),
           \A i \in 1..Len(q) : q[i].id # r
    PROVE  WillShow(q, r, f, e, k)
<1>1. Len(q) \in Nat
  BY LenProperties
<1>2. PICK c : c = [i \in 0..Len(q) |-> k]
  OBVIOUS
<1>3. c \in [0..Len(q) -> 0..k] /\ c[0] = k /\ c[Len(q)] = k /\ \A i \in 1..Len(q) : c[i] = c[i - 1]
  <2>1. PICK n : n = Len(q)
    OBVIOUS
  <2>2. /\ k \in 0..k /\ 0 \in 0..n /\ n \in 0..n
        /\ \A i \in 1..n : i \in 0..n /\ i - 1 \in 0..n
    BY <1>1, <2>1
  <2> QED
    BY <1>2, <2>1, <2>2
<1> QED
  BY <1>3 DEF WillShow

LEMMA ShowsOfNothing ==
    ASSUME NEW r, NEW f, NEW e, NEW k \in Nat
    PROVE  WillShow(<<>>, r, f, e, k) <=> Prefix(e, f, k)
<1>1. ASSUME Prefix(e, f, k) PROVE WillShow(<<>>, r, f, e, k)
  <2>1. <<>> \in Seq(Nat) /\ \A i \in 1..Len(<<>>) : <<>>[i].id # r
    OBVIOUS
  <2> QED
    BY <1>1, <2>1, ShowsNow
<1>2. ASSUME WillShow(<<>>, r, f, e, k) PROVE Prefix(e, f, k)
  <2>1. Len(<<>>) = 0
    OBVIOUS
  <2> QED
    BY <1>2, <2>1 DEF WillShow
<1> QED
  BY <1>1, <1>2

LEMMA ShowsNothing ==
    ASSUME NEW S, NEW q \in Seq(S), NEW r, NEW f, NEW e, WillShow(q, r, f, e, 0)
    PROVE  \A i \in 1..Len(q) : q[i].id # r
<1>1. Len(q) \in Nat
  BY LenProperties
<1>2. PICK c \in [0..Len(q) -> 0..0] :
         \A i \in 1..Len(q) : IF q[i].id = r THEN c[i] = c[i - 1] + 1 /\ q[i].text = Piece(f, c[i])
                              ELSE c[i] = c[i - 1]
  BY DEF WillShow
<1>3. \A i \in 0..Len(q) : c[i] = 0
  OBVIOUS
<1>4. \A i \in 1..Len(q) : i \in 0..Len(q) /\ i - 1 \in 0..Len(q)
  BY <1>1
<1> QED
  BY <1>2, <1>3, <1>4

LEMMA ChunkAppended ==
    ASSUME NEW S, NEW q \in Seq(S), NEW x \in S, NEW r, NEW f, NEW e, NEW k \in Nat, NEW k2 \in Nat,
           WillShow(q, r, f, e, k), x.id = r => k2 = k + 1 /\ x.text = Piece(f, k2), x.id # r => k2 = k
    PROVE  WillShow(Append(q, x), r, f, e, k2)
<1>1. PICK n \in Nat : n = Len(q)
  BY LenProperties
<1>2. PICK p : p = Append(q, x)
  OBVIOUS
<1>3. Len(p) = n + 1 /\ p[n + 1] = x /\ \A i \in 1..n : p[i] = q[i]
  BY <1>1, <1>2, AppendProperties
<1>4. PICK c \in [0..n -> 0..k] :
         /\ Prefix(e, f, c[0]) /\ c[n] = k
         /\ \A i \in 1..n : IF q[i].id = r THEN c[i] = c[i - 1] + 1 /\ q[i].text = Piece(f, c[i])
                            ELSE c[i] = c[i - 1]
  BY <1>1 DEF WillShow
<1>5. PICK d : d = [i \in 0..n + 1 |-> IF i = n + 1 THEN k2 ELSE c[i]]
  OBVIOUS
<1>6. k <= k2 /\ k2 \in 0..k2 /\ 0..k \subseteq 0..k2
  OBVIOUS
<1>7. d \in [0..n + 1 -> 0..k2]
  <2>1. ASSUME NEW i \in 0..n + 1, i # n + 1 PROVE i \in 0..n
    BY <2>1
  <2> QED
    BY <1>5, <1>6, <2>1
<1>8. d[0] = c[0] /\ d[n] = k /\ d[n + 1] = k2
  <2>1. 0 \in 0..n + 1 /\ 0 # n + 1 /\ n \in 0..n + 1 /\ n # n + 1 /\ n + 1 \in 0..n + 1
    OBVIOUS
  <2> QED
    BY <1>4, <1>5, <2>1
<1>9. \A i \in 1..n : d[i] = c[i] /\ d[i - 1] = c[i - 1]
  <2>1. ASSUME NEW i \in 1..n
        PROVE  i \in 0..n + 1 /\ i # n + 1 /\ i - 1 \in 0..n + 1 /\ i - 1 # n + 1
    OBVIOUS
  <2> QED
    BY <1>5, <2>1
<1>10. ASSUME NEW i \in 1..n + 1
       PROVE  IF p[i].id = r THEN d[i] = d[i - 1] + 1 /\ p[i].text = Piece(f, d[i]) ELSE d[i] = d[i - 1]
  <2>1. CASE i = n + 1
    <3>1. d[i] = k2 /\ d[i - 1] = k /\ p[i] = x
      <4>1. i - 1 = n
        BY <2>1
      <4> QED
        BY <1>3, <1>8, <2>1, <4>1
    <3> QED
      BY <3>1
  <2>2. CASE i # n + 1
    <3>1. i \in 1..n
      BY <2>2
    <3> QED
      BY <1>3, <1>4, <1>9, <3>1
  <2> QED
    BY <2>1, <2>2
<1>11. WillShow(p, r, f, e, k2)
  BY <1>3, <1>4, <1>7, <1>8, <1>10 DEF WillShow
<1> QED
  BY <1>2, <1>11

LEMMA PrefixGrows ==
    ASSUME NEW e, NEW f, NEW n \in Nat, Prefix(e, f, n)
    PROVE  Prefix(Append(e, Piece(f, n + 1)), f, n + 1)
<1>1. PICK S : S = {Piece(f, b) : b \in 1..n + 1}
  OBVIOUS
<1>2. e = [b \in 1..n |-> Piece(f, b)]
  BY DEF Prefix
<1>3. e \in Seq(S) /\ Len(e) = n
  <2>1. \A b \in 1..n : Piece(f, b) \in S
    BY <1>1
  <2>2. e \in [1..n -> S]
    BY <1>2, <2>1
  <2> QED
    BY <2>2, SeqDef, LenProperties
<1>4. PICK x : x = Piece(f, n + 1)
  OBVIOUS
<1>5. x \in S
  BY <1>1, <1>4
<1>6. PICK p : p = Append(e, x)
  OBVIOUS
<1>7. p \in Seq(S) /\ Len(p) = n + 1 /\ p[n + 1] = x /\ \A b \in 1..n : p[b] = e[b]
  BY <1>3, <1>5, <1>6, AppendProperties
<1>8. p \in [1..n + 1 -> S]
  BY <1>7, LenProperties
<1>9. \A b \in 1..n + 1 : p[b] = Piece(f, b)
  <2>1. ASSUME NEW b \in 1..n + 1, b # n + 1 PROVE b \in 1..n
    BY <2>1
  <2> QED
    BY <1>2, <1>4, <1>7, <2>1
<1>10. p = [b \in 1..n + 1 |-> Piece(f, b)]
  BY <1>8, <1>9
<1> QED
  BY <1>4, <1>6, <1>10 DEF Prefix

LEMMA ChunkTaken ==
    ASSUME NEW S, NEW q \in Seq(S), q # <<>>, NEW r, NEW f, NEW e, NEW k \in Nat, WillShow(q, r, f, e, k)
    PROVE  WillShow(Tail(q), r, f, IF Head(q).id = r THEN Append(e, Head(q).text) ELSE e, k)
<1>1. PICK n \in Nat : n = Len(q)
  BY LenProperties
<1>2. n # 0 /\ n - 1 \in Nat
  BY <1>1, EmptySeq
<1>3. PICK p, m : p = Tail(q) /\ m = n - 1
  OBVIOUS
<1>4. Len(p) = m /\ m \in Nat /\ n = m + 1 /\ \A i \in 1..m : p[i] = q[i + 1]
  BY <1>1, <1>2, <1>3, HeadTailProperties
<1>5. PICK c \in [0..n -> 0..k] :
         /\ Prefix(e, f, c[0]) /\ c[n] = k
         /\ \A i \in 1..n : IF q[i].id = r THEN c[i] = c[i - 1] + 1 /\ q[i].text = Piece(f, c[i])
                            ELSE c[i] = c[i - 1]
  BY <1>1 DEF WillShow
<1>6. PICK d : d = [i \in 0..m |-> c[i + 1]]
  OBVIOUS
<1>7. d \in [0..m -> 0..k]
  <2>1. \A i \in 0..m : i + 1 \in 0..n
    BY <1>4
  <2> QED
    BY <1>6, <2>1
<1>8. d[0] = c[1] /\ d[m] = k
  <2>1. 0 \in 0..m /\ m \in 0..m /\ 0 + 1 = 1 /\ m + 1 = n
    BY <1>4
  <2> QED
    BY <1>5, <1>6, <2>1
<1>9. ASSUME NEW i \in 1..m
      PROVE  IF p[i].id = r THEN d[i] = d[i - 1] + 1 /\ p[i].text = Piece(f, d[i]) ELSE d[i] = d[i - 1]
  <2>1. i \in 0..m /\ i - 1 \in 0..m /\ (i - 1) + 1 = i /\ i + 1 \in 1..n /\ (i + 1) - 1 = i
    BY <1>4
  <2>2. PICK j : j = i + 1
    OBVIOUS
  <2>3. d[i] = c[j] /\ d[i - 1] = c[j - 1] /\ p[i] = q[j] /\ j \in 1..n
    BY <1>4, <1>6, <2>1, <2>2
  <2> QED
    BY <1>5, <2>3
<1>10. Head(q) = q[1] /\ 1 \in 1..n /\ 1 - 1 = 0 /\ c[0] \in 0..k
  <2>1. Head(q) = q[1]
    OBVIOUS
  <2>2. 1 \in 1..n /\ 0 \in 0..n
    BY <1>4
  <2> QED
    BY <2>1, <2>2
<1>11. Prefix(IF Head(q).id = r THEN Append(e, Head(q).text) ELSE e, f, d[0])
  <2>1. PICK a : a = c[0]
    OBVIOUS
  <2>2. a \in Nat /\ Prefix(e, f, a)
    BY <1>5, <1>10, <2>1
  <2>3. CASE q[1].id = r
    <3>1. c[1] = a + 1 /\ q[1].text = Piece(f, a + 1)
      BY <1>5, <1>10, <2>1, <2>3
    <3> QED
      BY <1>8, <1>10, <2>2, <2>3, <3>1, PrefixGrows
  <2>4. CASE q[1].id # r
    <3>1. c[1] = a
      BY <1>5, <1>10, <2>1, <2>4
    <3> QED
      BY <1>8, <1>10, <2>2, <2>4, <3>1
  <2> QED
    BY <2>3, <2>4
<1>12. WillShow(p, r, f, IF Head(q).id = r THEN Append(e, Head(q).text) ELSE e, k)
  BY <1>4, <1>7, <1>8, <1>9, <1>11 DEF WillShow
<1> QED
  BY <1>3, <1>12
-----------------------------------------------------------------------------
(* The live preview, and the answer.                                       *)

LEMMA StreamChunkKept == ASSUME TabInv, NEW r \in Reqs, StreamChunk(r) PROVE TabInv'
<1>1. /\ snd[r].pc = "stream" /\ snd' = [snd EXCEPT ![r].pc = "streamed"]
      /\ appendChan' = (IF Len(appendChan) < ChanCap THEN Append(appendChan, [id |-> r, text |-> Piece(r, 0)])
                        ELSE appendChan)
      /\ UNCHANGED <<sndOnly, respChan, files>>
  BY DEF StreamChunk, SenderAt
<1>2. files \subseteq Reqs /\ SndTypes /\ ~snd[r].ok /\ snd[r].ok \in BOOLEAN /\ r \in files
  BY <1>1 DEF TabInv, TabTypes, PlainTypes, SndTypes, IsSender, Fetched
<1>3. PICK p, o : o \in BOOLEAN /\ p = "streamed" /\ o = snd[r].ok
  BY <1>2
<1>4. SndTypes' /\ Now(r, p, snd[r].mode, o) /\ ~o
  BY <1>1, <1>2, <1>3, SenderMoves DEF SenderPcs
<1>5. UNCHANGED <<ui, mode, reqID, requesting, base, shown, overtaken, respFile, respSize,
                  previewLoaded, previewEnabled, editor, previewLoading, previewChan, ldr>>
  BY <1>1 DEF sndOnly, reqVars, exVars, paneVars
<1>6. CASE appendChan' = appendChan
  <2>1. ChanTypes' /\ Named' /\ Exact'
    BY <1>1, <1>6, QuietSender
  <2> QED
    BY <1>1, <1>2, <1>3, <1>4, <2>1, FetchMoves
<1>7. CASE Len(appendChan) < ChanCap /\ appendChan' = Append(appendChan, [id |-> r, text |-> Piece(r, 0)])
  <2>1. PICK x : x = [id |-> r, text |-> Piece(r, 0)]
    OBVIOUS
  <2>2. x \in Chunks /\ x.id = r /\ x.text.of = r
    <3>1. r \in 0..MaxReq /\ 0 \in 0..Batches
      BY ZeroIsNoRequest DEF Reqs
    <3>2. PICK y : y = Piece(r, 0)
      OBVIOUS
    <3>3. y \in Pieces /\ y.of = r
      BY <3>1, <3>2 DEF Piece, Pieces
    <3>4. x = [id |-> r, text |-> y]
      BY <2>1, <3>2
    <3> QED
      BY <3>1, <3>3, <3>4 DEF Chunks
  <2>3. /\ appendChan \in Seq(Chunks) /\ Len(appendChan) \in Nat
        /\ appendChan' \in Seq(Chunks) /\ Len(appendChan') = Len(appendChan) + 1
        /\ appendChan'[Len(appendChan) + 1] = x
        /\ \A i \in 1..Len(appendChan) : appendChan'[i] = appendChan[i]
    BY <1>7, <2>1, <2>2, AppendProperties, LenProperties DEF TabInv, TabTypes, ChanTypes
  <2>4. ChanTypes'
    <3>1. Len(appendChan') <= ChanCap
      BY <1>7, <2>3, BoundsAssumption
    <3> QED
      BY <1>5, <2>3, <3>1 DEF TabInv, TabTypes, ChanTypes
  <2>5. Named'
    <3>1. ASSUME shown = 0, NEW i \in 1..Len(appendChan') PROVE appendChan'[i].text.of = appendChan'[i].id
      <4>1. CASE i = Len(appendChan) + 1
        BY <2>2, <2>3, <4>1
      <4>2. CASE i # Len(appendChan) + 1
        <5>1. i \in 1..Len(appendChan)
          BY <2>3, <4>2
        <5> QED
          BY <2>3, <3>1, <5>1 DEF TabInv, Named
      <4> QED
        BY <4>1, <4>2
    <3> QED
      BY <1>5, <3>1 DEF TabInv, Named, Busy
  <2>6. Exact'
    <3>1. SUFFICES ASSUME Accepted PROVE Counts'
      BY <1>5 DEF Exact, Accepted, InFrame
    <3>2. Counts
      BY <3>1 DEF TabInv, Exact
    <3>3. x.id # reqID
      <4>1. respFile # 0 /\ respFile = reqID
        BY <3>1 DEF Accepted, TabInv, Pane
      <4>2. snd[reqID].pc \in {"exit", "done"}
        BY <4>1 DEF TabInv, Held, Delivered
      <4> QED
        BY <1>1, <2>2, <4>2
    <3>4. PICK k \in Nat : /\ WillShow(appendChan, reqID, respFile, editor, k)
                           /\ previewLoaded = k + (IF \E l \in Loaders : ldr[l].pc = "send" THEN 1 ELSE 0)
      BY <3>2 DEF Counts
    <3>5. WillShow(Append(appendChan, x), reqID, respFile, editor, k)
      BY <2>2, <2>3, <3>3, <3>4, ChunkAppended
    <3>6. WillShow(appendChan, reqID, respFile, editor, k)'
      BY <1>5, <1>7, <2>1, <3>5
    <3>7. \E j \in Nat : /\ WillShow(appendChan, reqID, respFile, editor, j)'
                         /\ previewLoaded' = j + (IF \E l \in Loaders : ldr'[l].pc = "send" THEN 1 ELSE 0)
      BY <1>5, <3>4, <3>6
    <3> QED
      BY <1>5, <3>2, <3>7 DEF Counts, Busy
  <2> QED
    BY <1>1, <1>2, <1>3, <1>4, <2>4, <2>5, <2>6, FetchMoves
<1> QED
  BY <1>1, <1>6, <1>7

LEMMA SendCheckedKept == ASSUME TabInv, NEW r \in Reqs, SendChecked(r) PROVE TabInv'
<1>1. /\ snd[r].pc = "answer" /\ snd' = [snd EXCEPT ![r].pc = "locked"]
      /\ \A q \in Reqs : snd[q].pc # "locked"
      /\ r = reqID /\ ~closed
      /\ UNCHANGED <<sndOnly, respChan, appendChan, files>>
  BY DEF SendChecked, SenderAt
<1>2. files \subseteq Reqs /\ SndTypes /\ snd[r].ok \in BOOLEAN /\ reqID \in 0..MaxReq
      /\ (snd[r].ok => r \in files)
  BY <1>1 DEF TabInv, TabTypes, PlainTypes, SndTypes, IsSender, Fetched
<1>3. PICK p, m, o : o \in BOOLEAN /\ p = "locked" /\ m = snd[r].mode /\ o = snd[r].ok
  BY <1>2
<1>4. SndTypes' /\ Now(r, p, m, o)
  BY <1>1, <1>2, <1>3, SenderMoves DEF SenderPcs
<1>5. ChanTypes' /\ Named' /\ Exact'
  BY <1>1, QuietSender
<1>6. UNCHANGED <<ui, reqID, closed, requesting, respFile, base, respChan>>
  BY <1>1 DEF sndOnly, reqVars, exVars, paneVars
<1>7. PlainTypes' /\ PaneTypes' /\ LdrTypes' /\ Cleared' /\ Pane' /\ Alone'
  BY <1>1, <1>2, <1>3, <1>4, SenderRest
<1>8. Senders'
  <2>1. \A q \in Reqs : snd'[q].pc # "none" => q <= reqID
    BY <1>1, <1>4 DEF TabInv, Senders, Now
  <2>2. ~Beginning'
    BY <1>1, <1>6 DEF TabInv, Senders, Beginning
  <2>3. \A q \in Reqs : snd'[q].pc = "locked" => q = r
    BY <1>1, <1>4 DEF Now
  <2> QED
    BY <1>1, <1>6, <2>1, <2>2, <2>3 DEF TabInv, Senders
<1>9. Held' /\ Apart' /\ Answers1'
  BY <1>1, <1>4, <1>6, HeldUnder, AnswersUnder DEF TabInv
<1>10. Fetched'
  BY <1>1, <1>2, <1>3, <1>4, FetchedUnder DEF TabInv
<1>11. AnswerOnItsWay'
  BY <1>1, <1>2, <1>3, <1>4, <1>6, OnItsWayUnder DEF TabInv
<1> QED
  BY <1>4, <1>5, <1>7, <1>8, <1>9, <1>10, <1>11 DEF TabInv, TabTypes

LEMMA SendStoredKept == ASSUME TabInv, NEW r \in Reqs, SendStored(r) PROVE TabInv'
<1>1. /\ snd[r].pc = "locked" /\ snd' = [snd EXCEPT ![r].pc = "exit"]
      /\ files' = files \ (Queued \ {r}) /\ respChan' = <<Answer(r)>>
      /\ UNCHANGED <<sndOnly, appendChan>>
  BY DEF SendStored, SenderAt
<1>2. files \subseteq Reqs /\ SndTypes /\ snd[r].ok \in BOOLEAN /\ reqID \in 0..MaxReq
      /\ (snd[r].ok => r \in files)
  BY <1>1 DEF TabInv, TabTypes, PlainTypes, SndTypes, IsSender, Fetched
<1>3. PICK p, m, o : o \in BOOLEAN /\ p = "exit" /\ m = snd[r].mode /\ o = snd[r].ok
  BY <1>2
<1>4. SndTypes' /\ Now(r, p, m, o)
  BY <1>1, <1>2, <1>3, SenderMoves DEF SenderPcs
<1>5. ChanTypes' /\ Named' /\ Exact'
  BY <1>1, QuietSender
<1>6. UNCHANGED <<ui, reqID, closed, requesting, respFile, base>>
  BY <1>1 DEF sndOnly, reqVars, exVars, paneVars
<1>7. files' \subseteq Reqs
  BY <1>1, <1>2
<1>8. PlainTypes' /\ PaneTypes' /\ LdrTypes' /\ Cleared' /\ Pane' /\ Alone'
  BY <1>1, <1>3, <1>4, <1>7, SenderRest
<1>9. Senders'
  BY <1>1, <1>3, <1>4, <1>6, SenderOrder DEF TabInv
<1>10. PICK x : x = Answer(r)
  OBVIOUS
<1>11. /\ x.id = r /\ x.file = (IF o THEN r ELSE 0)
       /\ x.viewed <=> snd[r].ok /\ snd[r].mode = "view"
  BY <1>3, <1>10 DEF Answer
<1>12. Answers1'
  <2>1. IsAnswerOf(x)'
    <3>1. snd'[r].pc = p /\ snd'[r].mode = m /\ snd'[r].ok = o
      BY <1>4 DEF Now
    <3>2. x.id \in Reqs /\ snd'[x.id].pc \in {"exit", "done"}
      BY <1>3, <1>11, <3>1
    <3>3. x.file = IF snd'[x.id].ok THEN x.id ELSE 0
      BY <1>11, <3>1
    <3>4. x.viewed <=> snd'[x.id].ok /\ snd'[x.id].mode = "view"
      BY <1>3, <1>11, <3>1
    <3> QED
      BY <3>2, <3>3, <3>4 DEF IsAnswerOf
  <2> QED
    BY <1>1, <1>10, <2>1 DEF Answers1
<1>13. Queued' = {x.file}
  BY <1>1, <1>10, QueueNext
<1>14. /\ respFile # r /\ r \notin Queued
       /\ base.valid => base.file # r
  BY <1>1, HeldApartFrom DEF TabInv
<1>15. ASSUME NEW f, Delivered(f), f # r, f \notin Queued PROVE Delivered(f)'
  <2>1. snd'[f] = snd[f]
    BY <1>4, <1>15 DEF Now, Delivered
  <2> QED
    BY <1>1, <1>15, <2>1 DEF Delivered
<1>16. Held' /\ Apart'
  <2>1. respFile # 0 => Delivered(respFile)'
    <3>1. PICK f : f = respFile
      OBVIOUS
    <3>2. f # 0 => Delivered(f)'
      BY <1>14, <1>15, <3>1 DEF TabInv, Held, Apart
    <3> QED
      BY <1>6, <3>1, <3>2 DEF Delivered
  <2>2. base.valid /\ base.file # 0 => Delivered(base.file)'
    <3>1. PICK f : f = base.file
      OBVIOUS
    <3>2. base.valid /\ f # 0 => Delivered(f)'
      BY <1>14, <1>15, <3>1 DEF TabInv, Held, Apart
    <3> QED
      BY <1>6, <3>1, <3>2 DEF Delivered
  <2>3. x.file # 0 => Delivered(x.file)'
    <3>1. ASSUME o PROVE Delivered(r)'
      <4>1. r \in files'
        BY <1>1, <1>2, <1>3, <3>1
      <4> QED
        BY <1>3, <1>4, <3>1, <4>1 DEF Delivered, Now
    <3>2. CASE o
      BY <1>11, <3>1, <3>2 DEF Delivered
    <3>3. CASE ~o
      BY <1>11, <3>3
    <3> QED
      BY <3>2, <3>3
  <2>4. x.file \in {0, r}
    BY <1>11
  <2>5. Held'
    BY <1>6, <1>13, <2>1, <2>2, <2>3 DEF Held
  <2>6. Apart'
    BY <1>6, <1>13, <1>14, <2>4 DEF TabInv, Apart
  <2> QED
    BY <2>5, <2>6
<1>17. Fetched'
  <2>1. \A q \in Reqs \ {r} : q \in Queued => snd[q].pc \in {"exit", "done"}
    BY ZeroIsNoRequest DEF TabInv, Held, Delivered
  <2>2. \A q \in Reqs \ {r} : snd'[q] = snd[q]
    BY <1>4 DEF Now
  <2>3. snd'[r].pc = "exit"
    BY <1>3, <1>4 DEF Now
  <2>4. ASSUME NEW q \in Reqs \ {r}, q \in files, snd[q].pc \notin {"exit", "done"} PROVE q \in files'
    BY <1>1, <2>1, <2>4
  <2>5. ASSUME NEW q \in Reqs \ {r}
        PROVE  /\ snd'[q].pc \in {"stream", "streamed"} => q \in files'
               /\ snd'[q].pc \in {"answer", "locked"} /\ snd'[q].ok => q \in files'
               /\ snd'[q].pc \in {"do", "stream", "streamed"} => ~snd'[q].ok
    BY <2>2, <2>4, <2>5 DEF TabInv, Fetched
  <2> QED
    BY <2>3, <2>5 DEF Fetched
<1>18. AnswerOnItsWay'
  <2>1. InFrame' = InFrame
    BY <1>6 DEF InFrame
  <2>2. CASE r = reqID
    <3>1. respChan' = <<x>> /\ 1 \in DOMAIN respChan' /\ respChan'[1].id = reqID
      BY <1>1, <1>10, <1>11, <2>2
    <3> QED
      BY <1>6, <3>1 DEF AnswerOnItsWay
  <2>3. CASE r # reqID
    <3>1. reqID \in Reqs
      <4>1. PICK n, j : n = reqID /\ j = r
        OBVIOUS
      <4>2. j \in 1..MaxReq /\ j <= n /\ n \in 0..MaxReq
        BY <1>1, <1>2, <4>1 DEF TabInv, Senders, Reqs
      <4>3. n \in 1..MaxReq
        BY <4>2
      <4> QED
        BY <4>1, <4>3 DEF Reqs
    <3>2. ASSUME NEW i \in DOMAIN respChan, respChan[i].id = reqID PROVE FALSE
      <4>1. PICK y : respChan = <<y>> /\ IsAnswerOf(y)
        BY <3>2 DEF TabInv, Answers1
      <4>2. y.id = reqID
        BY <3>2, <4>1
      <4>3. snd[reqID].pc \in {"exit", "done"}
        BY <4>1, <4>2 DEF IsAnswerOf
      <4> QED
        BY <1>1, <2>3, <3>1, <4>3 DEF TabInv, Senders
    <3>3. snd'[reqID] = snd[reqID]
      BY <1>4, <2>3, <3>1 DEF Now
    <3> QED
      BY <1>6, <2>1, <3>2, <3>3 DEF TabInv, AnswerOnItsWay, Fetching
  <2> QED
    BY <2>2, <2>3
<1> QED
  BY <1>4, <1>5, <1>8, <1>9, <1>12, <1>16, <1>17, <1>18 DEF TabInv, TabTypes

LEMMA SenderExitsKept == ASSUME TabInv, NEW r \in Reqs, SenderExits(r) PROVE TabInv'
<1>1. /\ snd[r].pc = "exit" /\ snd' = [snd EXCEPT ![r].pc = "done"]
      /\ files' = (IF snd[r].ok THEN files ELSE files \ {r})
      /\ UNCHANGED <<sndOnly, respChan, appendChan>>
  BY DEF SenderExits, SenderAt, Removed
<1>2. files \subseteq Reqs /\ SndTypes /\ snd[r].ok \in BOOLEAN /\ reqID \in 0..MaxReq
  BY <1>1 DEF TabInv, TabTypes, PlainTypes, SndTypes, IsSender
<1>3. PICK p, m, o : o \in BOOLEAN /\ p = "done" /\ m = snd[r].mode /\ o = snd[r].ok
  BY <1>2
<1>4. SndTypes' /\ Now(r, p, m, o)
  BY <1>1, <1>2, <1>3, SenderMoves DEF SenderPcs
<1>5. ChanTypes' /\ Named' /\ Exact'
  BY <1>1, QuietSender
<1>6. UNCHANGED <<ui, reqID, closed, requesting, respFile, base, respChan>>
  BY <1>1 DEF sndOnly, reqVars, exVars, paneVars
<1>7. files' \subseteq Reqs /\ files \ {r} \subseteq files'
  BY <1>1, <1>2
<1>8. PlainTypes' /\ PaneTypes' /\ LdrTypes' /\ Cleared' /\ Pane' /\ Alone'
  BY <1>1, <1>3, <1>4, <1>7, SenderRest
<1>9. Senders'
  BY <1>1, <1>3, <1>4, <1>6, SenderOrder DEF TabInv
<1>10. Answers1'
  <2>1. ASSUME NEW x, IsAnswerOf(x) PROVE IsAnswerOf(x)'
    <3>1. CASE x.id = r
      <4>1. snd'[r].pc = "done" /\ snd'[r].mode = snd[r].mode /\ snd'[r].ok = snd[r].ok
        BY <1>3, <1>4 DEF Now
      <4> QED
        BY <2>1, <3>1, <4>1 DEF IsAnswerOf
    <3>2. CASE x.id # r
      <4>1. snd'[x.id] = snd[x.id]
        BY <1>4, <2>1, <3>2 DEF IsAnswerOf, Now
      <4> QED
        BY <2>1, <4>1 DEF IsAnswerOf
    <3> QED
      BY <3>1, <3>2
  <2> QED
    BY <1>6, <2>1 DEF TabInv, Answers1
<1>11. ASSUME NEW f, Delivered(f) PROVE Delivered(f)'
  <2>1. CASE f = r
    <3>1. snd'[r].pc = "done" /\ snd'[r].ok = snd[r].ok
      BY <1>3, <1>4 DEF Now
    <3> QED
      BY <1>1, <1>11, <2>1, <3>1 DEF Delivered
  <2>2. CASE f # r
    BY <1>4, <1>7, <1>11, <2>2, OthersDelivered
  <2> QED
    BY <2>1, <2>2
<1>12. Held' /\ Apart'
  <2>1. respFile # 0 => Delivered(respFile)'
    <3>1. PICK f : f = respFile
      OBVIOUS
    <3>2. f # 0 => Delivered(f)'
      BY <1>11, <3>1 DEF TabInv, Held
    <3> QED
      BY <1>6, <3>1, <3>2 DEF Delivered
  <2>2. base.valid /\ base.file # 0 => Delivered(base.file)'
    <3>1. PICK f : f = base.file
      OBVIOUS
    <3>2. base.valid /\ f # 0 => Delivered(f)'
      BY <1>11, <3>1 DEF TabInv, Held
    <3> QED
      BY <1>6, <3>1, <3>2 DEF Delivered
  <2>3. Queued' = Queued
    BY <1>6 DEF Queued
  <2>4. \A f \in Queued : f # 0 => Delivered(f)'
    BY <1>11 DEF TabInv, Held
  <2> QED
    BY <1>6, <2>1, <2>2, <2>3, <2>4 DEF TabInv, Held, Apart
<1>13. Fetched'
  BY <1>3, <1>4, <1>7, FetchedUnder DEF TabInv
<1>14. AnswerOnItsWay'
  BY <1>1, <1>2, <1>4, <1>6, OnItsWayUnder DEF TabInv
<1> QED
  BY <1>4, <1>5, <1>8, <1>9, <1>10, <1>12, <1>13, <1>14 DEF TabInv, TabTypes
-----------------------------------------------------------------------------
(* What the frame takes from the channels.                                 *)

LEMMA TakeChunkKept == ASSUME TabInv, TakeChunk PROVE TabInv'
<1>1. /\ ui = "chunks" /\ appendChan # <<>> /\ ui' = ui
      /\ editor' = (IF Head(appendChan).id = reqID THEN Append(editor, Head(appendChan).text) ELSE editor)
      /\ appendChan' = Tail(appendChan)
      /\ UNCHANGED <<mode, reqID, requesting, cancelFn, closed, session, base, shown, overtaken, respChan, previewChan,
                     respFile, respSize, previewLoaded, previewEnabled, previewLoading, snd, cancelled, files, ldr>>
  BY DEF TakeChunk, reqVars, exVars
<1>2. UiGoesOn /\ ~Beginning /\ InFrame' = InFrame
  BY <1>1 DEF UiGoesOn, InFrame, Beginning
<1>3. /\ appendChan \in Seq(Chunks) /\ Len(appendChan) \in Nat /\ Head(appendChan) = appendChan[1]
      /\ Head(appendChan) \in Chunks /\ 1 \in 1..Len(appendChan)
      /\ appendChan' \in Seq(Chunks) /\ Len(appendChan') = Len(appendChan) - 1
      /\ \A i \in 1..Len(appendChan') : appendChan'[i] = appendChan[i + 1] /\ i + 1 \in 1..Len(appendChan)
  <2>1. appendChan \in Seq(Chunks)
    BY DEF TabInv, TabTypes, ChanTypes
  <2>2. Len(appendChan) \in Nat /\ Len(appendChan) # 0
    BY <1>1, <2>1, LenProperties, EmptySeq
  <2>3. /\ Head(appendChan) \in Chunks /\ appendChan' \in Seq(Chunks) /\ Len(appendChan') = Len(appendChan) - 1
        /\ \A i \in 1..Len(appendChan') : appendChan'[i] = appendChan[i + 1]
    BY <1>1, <2>1, HeadTailProperties
  <2>4. 1 \in 1..Len(appendChan) /\ \A i \in 1..Len(appendChan') : i + 1 \in 1..Len(appendChan)
    BY <2>2, <2>3
  <2>5. Head(appendChan) = appendChan[1]
    OBVIOUS
  <2> QED
    BY <2>1, <2>2, <2>3, <2>4, <2>5
<1>4. editor \in Seq(Pieces) /\ editor' \in Seq(Pieces)
  <2>1. Head(appendChan).text \in Pieces
    BY <1>3 DEF Chunks
  <2>2. editor \in Seq(Pieces)
    BY DEF TabInv, TabTypes, PaneTypes
  <2> QED
    BY <1>1, <2>1, <2>2, AppendProperties
<1>5. TabTypes'
  <2>1. PlainTypes' /\ PaneTypes' /\ SndTypes' /\ LdrTypes'
    BY <1>1, <1>4 DEF TabInv, TabTypes, PlainTypes, PaneTypes, SndTypes, LdrTypes
  <2>2. Len(appendChan') <= ChanCap
    BY <1>3, BoundsAssumption DEF TabInv, TabTypes, ChanTypes
  <2>3. ChanTypes'
    BY <1>1, <1>3, <2>2 DEF TabInv, TabTypes, ChanTypes
  <2> QED
    BY <2>1, <2>3 DEF TabTypes
<1>6. Senders' /\ Answers1' /\ AnswerOnItsWay'
  BY <1>1, <1>2, SendersKept, AnswersKept, OnItsWayKept DEF TabInv
<1>7. Held' /\ Apart' /\ Fetched'
  BY <1>1, HeldKept, FetchedKept DEF TabInv
<1>8. Named'
  BY <1>1, <1>3 DEF TabInv, Named, Busy
<1>9. Cleared' /\ Alone'
  BY <1>1, <1>2, AloneKept DEF TabInv, Cleared
<1>10. Pane'
  <2>1. ASSUME shown = 0, Head(appendChan).id = reqID, NEW i \in 1..Len(editor') PROVE editor'[i].of = reqID
    <3>1. Head(appendChan).text \in Pieces
      BY <1>3 DEF Chunks
    <3>2. /\ Len(editor) \in Nat /\ Len(editor') = Len(editor) + 1
          /\ editor'[Len(editor) + 1] = Head(appendChan).text
          /\ \A j \in 1..Len(editor) : editor'[j] = editor[j]
      BY <1>1, <1>4, <2>1, <3>1, AppendProperties, LenProperties
    <3>3. CASE i = Len(editor) + 1
      BY <1>3, <2>1, <3>2, <3>3 DEF TabInv, Named
    <3>4. CASE i # Len(editor) + 1
      <4>1. i \in 1..Len(editor)
        BY <3>2, <3>4
      <4> QED
        BY <1>1, <2>1, <3>2, <4>1 DEF TabInv, Pane, InFrame
    <3> QED
      BY <3>3, <3>4
  <2>2. shown = 0 => \A i \in 1..Len(editor') : editor'[i].of = reqID
    <3>1. CASE Head(appendChan).id = reqID
      BY <2>1, <3>1
    <3>2. CASE Head(appendChan).id # reqID
      BY <1>1, <3>2 DEF TabInv, Pane, InFrame
    <3> QED
      BY <3>1, <3>2
  <2> QED
    BY <1>1, <1>2, <2>2 DEF TabInv, Pane
<1>11. Exact'
  <2>1. SUFFICES ASSUME Accepted PROVE Counts'
    BY <1>1, <1>2 DEF Exact, Accepted
  <2>2. Counts
    BY <2>1 DEF TabInv, Exact
  <2>3. PICK k \in Nat : /\ WillShow(appendChan, reqID, respFile, editor, k)
                         /\ previewLoaded = k + (IF \E l \in Loaders : ldr[l].pc = "send" THEN 1 ELSE 0)
    BY <2>2 DEF Counts
  <2>4. WillShow(Tail(appendChan), reqID, respFile,
                 IF Head(appendChan).id = reqID THEN Append(editor, Head(appendChan).text) ELSE editor, k)
    BY <1>1, <1>3, <2>3, ChunkTaken
  <2>5. WillShow(appendChan, reqID, respFile, editor, k)'
    BY <1>1, <2>4
  <2>6. \E j \in Nat : /\ WillShow(appendChan, reqID, respFile, editor, j)'
                       /\ previewLoaded' = j + (IF \E l \in Loaders : ldr'[l].pc = "send" THEN 1 ELSE 0)
    BY <1>1, <2>3, <2>5
  <2> QED
    BY <1>1, <2>2, <2>6 DEF Counts, Busy
<1> QED
  BY <1>5, <1>6, <1>7, <1>8, <1>9, <1>10, <1>11 DEF TabInv

LEMMA IdleLoaders ==
    ASSUME LdrTypes, \A l \in Loaders : ~Busy(l)
    PROVE  \A l \in Loaders : ldr[l].pc = "none" /\ ldr[l].kind = "more"
  BY DEF LdrTypes, IsLoader, Busy

\* With no loader at work, what counts is what is shown and what is queued.
LEMMA CountsIdle ==
    ASSUME LdrTypes', \A l \in Loaders : ~Busy(l)', previewChan' = <<>>, NEW k \in Nat,
           WillShow(appendChan, reqID, respFile, editor, k)', previewLoaded' = k, ~previewEnabled' => k = 0
    PROVE  Counts'
<1>1. \A l \in Loaders : ldr'[l].pc = "none" /\ ldr'[l].kind = "more"
  BY DEF LdrTypes, IsLoader, Busy
<1>2. ~\E l \in Loaders : ldr'[l].pc = "send"
  BY <1>1
<1>3. previewLoaded' = k + 0
  OBVIOUS
<1>4. \E j \in Nat : /\ WillShow(appendChan, reqID, respFile, editor, j)'
                     /\ previewLoaded' = j + (IF \E l \in Loaders : ldr'[l].pc = "send" THEN 1 ELSE 0)
  BY <1>2, <1>3
<1> QED
  BY <1>1, <1>4 DEF Counts, Busy

\* Dropping the answer of another request.
LEMMA DropResponseKept ==
    ASSUME TabInv, ui = "response", ui' = "preview", respChan' = <<>>,
           \A x : respChan = <<x>> => x.id # reqID,
           UNCHANGED <<reqVars, previewChan, appendChan, paneVars, previewLoading, snd, cancelled, files, ldr>>
    PROVE  TabInv'
<1>1. UNCHANGED <<mode, reqID, requesting, cancelFn, closed, session, base, shown, overtaken, respFile, respSize,
                  previewLoaded, previewEnabled, editor>>
  BY DEF reqVars, exVars, paneVars
<1>2. UiGoesOn
  BY DEF UiGoesOn, InFrame, Beginning
<1>3. TabTypes'
  <2>1. PlainTypes' /\ PaneTypes'
    BY <1>1 DEF TabInv, TabTypes, PlainTypes, PaneTypes
  <2>2. ChanTypes' /\ SndTypes' /\ LdrTypes'
    BY DEF TabInv, TabTypes, ChanTypes, SndTypes, LdrTypes
  <2> QED
    BY <2>1, <2>2 DEF TabTypes
<1>4. Senders' /\ Answers1'
  BY <1>1, <1>2, SendersKept DEF TabInv, Answers1
<1>5. AnswerOnItsWay'
  <2>1. ASSUME NEW i \in DOMAIN respChan PROVE respChan[i].id # reqID
    <3>1. PICK x : respChan = <<x>>
      BY <2>1 DEF TabInv, Answers1
    <3>2. i = 1 /\ respChan[1] = x
      BY <2>1, <3>1
    <3> QED
      BY <3>1, <3>2
  <2>2. InFrame
    BY DEF InFrame
  <2> QED
    BY <1>1, <2>1, <2>2 DEF TabInv, AnswerOnItsWay, Fetching
<1>6. Held' /\ Apart' /\ Fetched'
  <2>1. Queued' = {}
    BY QueueNext
  <2> QED
    BY <1>1, <2>1, FetchedKept DEF TabInv, Held, Apart, Delivered
<1>7. Named' /\ Cleared' /\ Pane'
  BY <1>1, <1>2, NamedKept, ClearedKept, PaneKept DEF TabInv
<1>8. Alone' /\ Exact'
  BY <1>1, <1>2, AloneKept, ExactKept DEF TabInv
<1> QED
  BY <1>3, <1>4, <1>5, <1>6, <1>7, <1>8 DEF TabInv

LEMMA AcceptKept ==
    ASSUME TabInv, ui = "response", ui' = "preview", respChan' = <<>>, NEW x, respChan = <<x>>, x.id = reqID,
           Accept(x),
           UNCHANGED <<mode, reqID, closed, exVars, previewChan, previewEnabled, previewLoading, snd, cancelled,
                       files, ldr>>
    PROVE  TabInv'
<1>1. /\ appendChan' = <<>> /\ respFile' = x.file /\ respSize' = (IF x.file = 0 THEN 0 ELSE session.batches)
      /\ previewLoaded' = (IF x.viewed THEN 1 ELSE 0) /\ requesting' = FALSE /\ cancelFn' = 0
      /\ editor' = (CASE ~previewEnabled -> <<>>
                      [] x.viewed        -> <<Piece(x.id, 1)>>
                      [] OTHER           -> editor)
      /\ UNCHANGED <<session, base, shown, overtaken>>
  BY DEF Accept, exVars
<1>2. IsAnswerOf(x)
  BY DEF TabInv, Answers1
<1>3. /\ reqID \in Reqs /\ snd[reqID].pc \in {"exit", "done"} /\ x.file = (IF snd[reqID].ok THEN reqID ELSE 0)
      /\ x.viewed <=> snd[reqID].ok /\ snd[reqID].mode = "view"
  BY <1>2 DEF IsAnswerOf
<1>4. Queued = {x.file} /\ Queued' = {}
  BY QueueIs, QueueNext
<1>5. InFrame /\ InFrame' /\ ~Beginning' /\ UiGoesOn
  BY DEF InFrame, Beginning, UiGoesOn
<1>6. editor' \in {<<>>, <<Piece(reqID, 1)>>, editor}
  BY <1>1
<1>7. TabTypes'
  <2>1. session \in Sessions /\ session.batches \in 0..Batches /\ 0 \in 0..Batches /\ 1 \in 0..Batches
        /\ 0 \in 0..MaxReq /\ reqID \in 0..MaxReq /\ reqID # 0
    BY <1>3, SessionIs, ZeroIsNoRequest DEF TabInv, TabTypes, PlainTypes
  <2>2. PlainTypes'
    BY <1>1, <2>1 DEF TabInv, TabTypes, PlainTypes
  <2>3. PaneTypes'
    <3>1. respFile' \in 0..MaxReq /\ respSize' \in 0..Batches /\ previewLoaded' \in Nat
      BY <1>1, <1>3, <2>1
    <3>2. editor' \in Seq(Pieces)
      <4>1. Piece(reqID, 1) \in Pieces
        BY <2>1 DEF Piece, Pieces
      <4>2. <<>> \in Seq(Pieces) /\ <<Piece(reqID, 1)>> \in Seq(Pieces)
        BY <4>1
      <4> QED
        BY <1>6, <4>2 DEF TabInv, TabTypes, PaneTypes
    <3> QED
      BY <1>1, <3>1, <3>2 DEF TabInv, TabTypes, PaneTypes
  <2>4. ChanTypes'
    BY <1>1, BoundsAssumption DEF TabInv, TabTypes, ChanTypes
  <2>5. SndTypes' /\ LdrTypes'
    BY DEF TabInv, TabTypes, SndTypes, LdrTypes
  <2> QED
    BY <2>2, <2>3, <2>4, <2>5 DEF TabTypes
<1>8. Senders' /\ Answers1' /\ AnswerOnItsWay'
  BY <1>1, <1>5, SendersKept DEF TabInv, Answers1, AnswerOnItsWay
<1>9. Held' /\ Apart'
  <2>1. x.file # 0 => Delivered(x.file)
    BY <1>4 DEF TabInv, Held
  <2>2. x.file # 0 => Delivered(x.file)'
    BY <2>1 DEF Delivered
  <2>3. base.valid /\ base.file # 0 => Delivered(base.file)' /\ base.file # x.file
    BY <1>1, <1>4 DEF TabInv, Held, Apart, Delivered
  <2> QED
    BY <1>1, <1>4, <2>2, <2>3 DEF Held, Apart, Delivered
<1>10. Fetched' /\ Cleared'
  BY FetchedKept DEF TabInv, Cleared
<1>11. Named'
  BY <1>1 DEF TabInv, Named, Busy
<1>12. shown = 0 => respFile = 0
  <2>1. SUFFICES ASSUME shown = 0, respFile # 0 PROVE FALSE
    OBVIOUS
  <2>2. respFile = reqID
    BY <1>5, <2>1 DEF TabInv, Pane
  <2>3. snd[reqID].ok
    BY <2>1, <2>2 DEF TabInv, Held, Delivered
  <2> QED
    BY <1>3, <1>4, <2>1, <2>2, <2>3 DEF TabInv, Apart
<1>13. shown = 0 => (previewEnabled <=> snd[reqID].mode = "view")
  BY <1>3, <1>5, <1>12 DEF TabInv, Pane
<1>14. Pane'
  <2>1. SUFFICES ASSUME shown = 0 PROVE Pane'
    BY <1>1 DEF Pane
  <2>2. respFile' = 0 \/ respFile' = reqID
    BY <1>1, <1>3
  <2>3. \A i \in 1..Len(editor') : editor'[i].of = reqID
    <3>1. CASE editor' = <<>>
      BY <3>1
    <3>2. CASE editor' = <<Piece(reqID, 1)>>
      <4>1. Len(editor') = 1 /\ editor'[1] = Piece(reqID, 1)
        BY <3>2
      <4>2. Piece(reqID, 1).of = reqID
        BY DEF Piece
      <4>3. \A i \in 1..1 : i = 1
        OBVIOUS
      <4> QED
        BY <4>1, <4>2, <4>3
    <3>3. CASE editor' = editor
      BY <1>5, <2>1, <3>3 DEF TabInv, Pane
    <3> QED
      BY <1>6, <3>1, <3>2, <3>3
  <2> QED
    BY <1>13, <2>1, <2>2, <2>3 DEF Pane
<1>15. shown = 0 /\ ~overtaken => previewChan = <<>> /\ \A l \in Loaders : ~Busy(l)
  BY <1>5, <1>12 DEF TabInv, Alone
<1>16. Alone'
  <2>1. ASSUME ~overtaken
        PROVE  /\ \A l, m \in Loaders : Busy(l) /\ Busy(m) => l = m
               /\ \A l \in Loaders : Busy(l) => previewLoading /\ previewChan = <<>> /\ ldr[l].id = reqID /\ shown # 0
               /\ previewChan # <<>> => previewLoading
    BY <1>15, <2>1 DEF TabInv, Alone
  <2> QED
    BY <1>1, <1>5, <1>15, <2>1 DEF Alone, Busy
<1>17. Exact'
  <2>1. SUFFICES ASSUME shown = 0, ~overtaken, x.file # 0 PROVE Counts'
    BY <1>1 DEF Exact, Accepted
  <2>2. previewChan' = <<>> /\ \A l \in Loaders : ~Busy(l)'
    BY <1>15, <2>1 DEF Busy
  <2>3. x.file = reqID /\ (x.viewed <=> previewEnabled)
    BY <1>3, <1>13, <2>1
  <2>4. PICK k \in Nat : k = IF x.viewed THEN 1 ELSE 0
    OBVIOUS
  <2>5. Prefix(editor', reqID, k)
    <3>1. CASE x.viewed
      <4>1. editor' = <<Piece(reqID, 1)>> /\ k = 1
        BY <1>1, <2>3, <2>4, <3>1
      <4>2. <<Piece(reqID, 1)>> = [b \in 1..1 |-> Piece(reqID, b)]
        OBVIOUS
      <4> QED
        BY <4>1, <4>2 DEF Prefix
    <3>2. CASE ~x.viewed
      <4>1. editor' = <<>> /\ k = 0
        BY <1>1, <2>3, <2>4, <3>2
      <4>2. <<>> = [b \in 1..0 |-> Piece(reqID, b)]
        OBVIOUS
      <4> QED
        BY <4>1, <4>2 DEF Prefix
    <3> QED
      BY <3>1, <3>2
  <2>6. WillShow(<<>>, reqID, reqID, editor', k)
    BY <2>5, ShowsOfNothing
  <2>7. WillShow(appendChan, reqID, respFile, editor, k)'
    BY <1>1, <2>3, <2>6
  <2>8. previewLoaded' = k /\ (~previewEnabled' => k = 0) /\ LdrTypes'
    BY <1>1, <1>7, <2>3, <2>4 DEF TabTypes
  <2> QED
    BY <2>2, <2>7, <2>8, CountsIdle
<1> QED
  BY <1>7, <1>8, <1>9, <1>10, <1>11, <1>14, <1>16, <1>17 DEF TabInv

LEMMA TakeResponseKept == ASSUME TabInv, TakeResponse PROVE TabInv'
<1>1. /\ ui = "response" /\ ui' = "preview" /\ respChan' = <<>>
      /\ UNCHANGED <<mode, reqID, closed, exVars, previewChan, previewEnabled, previewLoading, snd, cancelled, files,
                     ldr>>
  BY DEF TakeResponse
<1>2. CASE respChan # <<>> /\ respChan[1].id = reqID
  <2>1. PICK x : respChan = <<x>>
    BY <1>2 DEF TabInv, Answers1
  <2>2. respChan[1] = x
    BY <2>1
  <2>3. Accept(x) /\ x.id = reqID
    BY <1>2, <2>2 DEF TakeResponse
  <2> QED
    BY <1>1, <2>1, <2>3, AcceptKept
<1>3. CASE ~(respChan # <<>> /\ respChan[1].id = reqID)
  <2>1. UNCHANGED <<appendChan, respFile, respSize, previewLoaded, requesting, cancelFn, editor>>
    BY <1>3 DEF TakeResponse
  <2>2. UNCHANGED <<reqVars, previewChan, appendChan, paneVars, previewLoading, snd, cancelled, files, ldr>>
    BY <1>1, <2>1 DEF reqVars, paneVars
  <2>3. ASSUME NEW x, respChan = <<x>> PROVE x.id # reqID
    <3>1. respChan # <<>> /\ respChan[1] = x
      BY <2>3
    <3> QED
      BY <1>3, <3>1
  <2> QED
    BY <1>1, <2>2, <2>3, DropResponseKept
<1> QED
  BY <1>2, <1>3
LEMMA PreviewTaken ==
    ASSUME TabInv, ui = "preview", ui' = "click", NEW pr, previewChan = <<pr>>, previewChan' = <<>>,
           previewLoading' = FALSE,
           IF pr.id = reqID
           THEN previewLoaded' = pr.loaded /\ editor' = [b \in 1..pr.loaded |-> Piece(pr.file, b)]
           ELSE UNCHANGED <<previewLoaded, editor>>,
           UNCHANGED <<reqVars, respChan, appendChan, respFile, respSize, previewEnabled, snd, cancelled, files, ldr>>
    PROVE  TabInv'
<1>1. UNCHANGED <<mode, reqID, requesting, cancelFn, closed, session, base, shown, overtaken>>
  BY DEF reqVars, exVars
<1>2. UiGoesOn /\ InFrame /\ ~Beginning /\ InFrame' /\ ~Beginning'
  BY DEF UiGoesOn, InFrame, Beginning
<1>3. previewChan # <<>> /\ previewChan[1] = pr
  OBVIOUS
<1>4. IsPreview(pr)
  <2>1. PICK y : previewChan = <<y>> /\ IsPreview(y)
    BY <1>3 DEF TabInv, TabTypes, ChanTypes
  <2>2. y = pr
    BY <2>1
  <2> QED
    BY <2>1, <2>2
<1>5. /\ pr.loaded \in 0..1 /\ pr.loaded \in Nat /\ pr.file \in 0..MaxReq
      /\ \A b \in 1..pr.loaded : b \in 0..Batches
  BY <1>4, ZeroIsNoRequest DEF IsPreview
<1>6. editor' \in Seq(Pieces) /\ previewLoaded' \in Nat
  <2>1. CASE pr.id = reqID
    <3>1. \A b \in 1..pr.loaded : Piece(pr.file, b) \in Pieces
      BY <1>5 DEF Piece, Pieces
    <3>2. editor' \in [1..pr.loaded -> Pieces]
      BY <2>1, <3>1
    <3> QED
      BY <1>5, <2>1, <3>2, SeqDef
  <2>2. CASE pr.id # reqID
    BY <2>2 DEF TabInv, TabTypes, PaneTypes
  <2> QED
    BY <2>1, <2>2
<1>7. TabTypes'
  <2>1. PlainTypes' /\ SndTypes' /\ LdrTypes'
    BY <1>1 DEF TabInv, TabTypes, PlainTypes, SndTypes, LdrTypes
  <2>2. PaneTypes'
    BY <1>1, <1>6 DEF TabInv, TabTypes, PaneTypes
  <2>3. ChanTypes'
    BY DEF TabInv, TabTypes, ChanTypes
  <2> QED
    BY <2>1, <2>2, <2>3 DEF TabTypes
<1>8. Senders' /\ Answers1' /\ AnswerOnItsWay'
  BY <1>1, <1>2, SendersKept, AnswersKept, OnItsWayKept DEF TabInv
<1>9. Held' /\ Apart' /\ Fetched'
  BY <1>1, HeldKept, FetchedKept DEF TabInv
<1>10. Named' /\ Cleared'
  BY <1>1 DEF TabInv, Named, Busy, Cleared
<1>11. ASSUME shown = 0, pr.id = reqID PROVE pr.file = reqID
  BY <1>3, <1>11 DEF TabInv, Named
<1>12. Pane'
  <2>1. ASSUME shown = 0, NEW i \in 1..Len(editor') PROVE editor'[i].of = reqID
    <3>1. CASE pr.id = reqID
      <4>1. PICK n, f : n \in Nat /\ n = pr.loaded /\ f = pr.file
        BY <1>5
      <4>2. editor' = [b \in 1..n |-> Piece(f, b)]
        BY <3>1, <4>1
      <4>3. editor' \in Seq({Piece(f, b) : b \in 1..n}) /\ DOMAIN editor' = 1..n
        BY <4>1, <4>2, SeqDef
      <4>4. i \in 1..n
        BY <2>1, <4>3, LenProperties
      <4>5. editor'[i] = Piece(f, i)
        BY <4>2, <4>4
      <4> QED
        BY <1>11, <2>1, <3>1, <4>1, <4>5 DEF Piece
    <3>2. CASE pr.id # reqID
      BY <1>2, <2>1, <3>2 DEF TabInv, Pane
    <3> QED
      BY <3>1, <3>2
  <2> QED
    BY <1>1, <1>2, <2>1 DEF TabInv, Pane
<1>13. ~overtaken => \A l \in Loaders : ~Busy(l)
  BY <1>3 DEF TabInv, Alone
<1>14. Alone'
  BY <1>1, <1>13 DEF Alone, Busy
<1>15. Exact'
  <2>1. SUFFICES ASSUME Accepted PROVE Counts'
    BY <1>1, <1>2 DEF Exact, Accepted
  <2>2. Counts /\ \A l \in Loaders : ~Busy(l)
    BY <1>13, <2>1 DEF TabInv, Exact, Accepted
  <2>3. previewLoaded = 0 /\ previewEnabled
    BY <1>3, <2>2 DEF Counts
  <2>4. WillShow(appendChan, reqID, respFile, editor, 0)
    <3>1. PICK k \in Nat : /\ WillShow(appendChan, reqID, respFile, editor, k)
                           /\ previewLoaded = k + (IF \E l \in Loaders : ldr[l].pc = "send" THEN 1 ELSE 0)
      BY <2>2 DEF Counts
    <3>2. k = 0
      BY <2>3, <3>1
    <3> QED
      BY <3>1, <3>2
  <2>5. appendChan \in Seq(Chunks)
    BY DEF TabInv, TabTypes, ChanTypes
  <2>6. \A i \in 1..Len(appendChan) : appendChan[i].id # reqID
    BY <2>4, <2>5, ShowsNothing
  <2>7. respFile = reqID
    BY <1>2, <2>1 DEF Accepted, TabInv, Pane
  <2>8. PICK k \in Nat : k = previewLoaded'
    BY <1>6
  <2>9. WillShow(appendChan, reqID, respFile, editor', k)
    <3>1. CASE pr.id = reqID
      <4>1. k = pr.loaded /\ editor' = [b \in 1..pr.loaded |-> Piece(respFile, b)]
        BY <1>11, <2>1, <2>7, <2>8, <3>1 DEF Accepted
      <4>2. Prefix(editor', respFile, k)
        BY <4>1 DEF Prefix
      <4> QED
        BY <2>5, <2>6, <4>2, ShowsNow
    <3>2. CASE pr.id # reqID
      BY <2>3, <2>4, <2>8, <3>2
    <3> QED
      BY <3>1, <3>2
  <2>10. WillShow(appendChan, reqID, respFile, editor, k)'
    BY <1>1, <2>9
  <2>11. (\A l \in Loaders : ~Busy(l)') /\ LdrTypes' /\ previewEnabled'
    BY <1>7, <2>2, <2>3 DEF TabTypes, Busy
  <2> QED
    BY <2>8, <2>10, <2>11, CountsIdle
<1> QED
  BY <1>7, <1>8, <1>9, <1>10, <1>12, <1>14, <1>15 DEF TabInv

LEMMA TakePreviewKept == ASSUME TabInv, TakePreview PROVE TabInv'
<1>1. /\ ui = "preview" /\ ui' = "click" /\ previewChan' = <<>>
      /\ UNCHANGED <<reqVars, respChan, appendChan, respFile, respSize, previewEnabled, snd, cancelled, files, ldr>>
  BY DEF TakePreview
<1>2. CASE previewChan = <<>>
  <2>1. UNCHANGED <<previewLoading, previewLoaded, editor, previewChan>>
    BY <1>1, <1>2 DEF TakePreview
  <2>2. UiGoesOn
    BY <1>1 DEF UiGoesOn, InFrame, Beginning
  <2>3. UNCHANGED <<mode, reqID, requesting, closed, exVars, chanVars, paneVars, previewLoading, snd, files, ldr,
                    cancelFn, cancelled>>
    BY <1>1, <2>1 DEF reqVars, chanVars, paneVars
  <2>4. cancelFn \in 0..MaxReq /\ cancelled \subseteq Reqs
    BY DEF TabInv, TabTypes, PlainTypes
  <2> QED
    BY <1>1, <2>2, <2>3, <2>4, FrameMoves
<1>3. CASE previewChan # <<>>
  <2>1. PICK pr : previewChan = <<pr>>
    BY <1>3 DEF TabInv, TabTypes, ChanTypes
  <2>2. previewChan[1] = pr
    BY <2>1
  <2>3. /\ previewLoading' = FALSE
        /\ IF pr.id = reqID
           THEN previewLoaded' = pr.loaded /\ editor' = [b \in 1..pr.loaded |-> Piece(pr.file, b)]
           ELSE UNCHANGED <<previewLoaded, editor>>
    BY <1>3, <2>2 DEF TakePreview
  <2> QED
    BY <1>1, <2>1, <2>3, PreviewTaken
<1> QED
  BY <1>2, <1>3
-----------------------------------------------------------------------------
(* Examples: what the pane holds is set aside, and put back.               *)

LEMMA ShowExampleKept == ASSUME TabInv, ShowExample PROVE TabInv'
<1>1. /\ ui = "click" /\ ui' = "app" /\ shown' = shown + 1
      /\ base' = (IF base.valid THEN base
                  ELSE [valid |-> TRUE, file |-> respFile, size |-> respSize, loaded |-> previewLoaded,
                        enabled |-> previewEnabled, text |-> editor])
      /\ appendChan' = <<>> /\ requesting' = FALSE /\ cancelFn' = 0 /\ respFile' = 0 /\ respSize' = 1
      /\ previewLoaded' = 1 /\ previewEnabled' = TRUE /\ editor' = <<Example>>
      /\ UNCHANGED <<session, mode, reqID, closed, overtaken, respChan, previewChan, previewLoading, snd, cancelled,
                     files, ldr>>
  BY DEF ShowExample
<1>2. shown' \in Nat /\ shown' # 0
  BY <1>1 DEF TabInv, TabTypes, PlainTypes
<1>3. UiGoesOn /\ ~Beginning /\ ~Beginning'
  BY <1>1 DEF UiGoesOn, InFrame, Beginning
<1>4. \/ base' = base
      \/ base'.valid /\ base'.file = respFile /\ base'.size = respSize /\ base'.loaded = previewLoaded
         /\ base'.enabled = previewEnabled /\ base'.text = editor /\ ~base.valid
  <2>1. CASE base.valid
    BY <1>1, <2>1
  <2>2. CASE ~base.valid
    <3>1. PICK e \in BOOLEAN, v \in BOOLEAN : e = previewEnabled /\ v = TRUE
      BY DEF TabInv, TabTypes, PaneTypes
    <3>2. base' = [valid |-> v, file |-> respFile, size |-> respSize, loaded |-> previewLoaded,
                   enabled |-> e, text |-> editor]
      BY <1>1, <2>2, <3>1
    <3>3. base'.valid = v /\ base'.file = respFile /\ base'.size = respSize /\ base'.loaded = previewLoaded
          /\ base'.enabled = e /\ base'.text = editor
      BY <3>2
    <3> QED
      BY <2>2, <3>1, <3>3
  <2> QED
    BY <2>1, <2>2
<1>5. TabTypes'
  <2>1. 0 \in 0..MaxReq /\ 1 \in 0..Batches /\ 0 \in 0..Batches
    BY ZeroIsNoRequest
  <2>2. PlainTypes'
    BY <1>1, <1>2, <2>1 DEF TabInv, TabTypes, PlainTypes
  <2>3. editor' \in Seq(Pieces)
    <3>1. Example \in Pieces
      BY <2>1 DEF Example, Piece, Pieces
    <3> QED
      BY <1>1, <3>1
  <2>4. IsBase(base')
    BY <1>4 DEF TabInv, TabTypes, PaneTypes, IsBase
  <2>5. PaneTypes'
    BY <1>1, <2>1, <2>3, <2>4 DEF TabInv, TabTypes, PaneTypes
  <2>6. ChanTypes'
    BY <1>1, BoundsAssumption DEF TabInv, TabTypes, ChanTypes
  <2>7. SndTypes' /\ LdrTypes'
    BY <1>1 DEF TabInv, TabTypes, SndTypes, LdrTypes
  <2> QED
    BY <2>2, <2>5, <2>6, <2>7 DEF TabTypes
<1>6. Senders' /\ Answers1' /\ AnswerOnItsWay'
  BY <1>1, <1>3, SendersKept, AnswersKept DEF TabInv, AnswerOnItsWay
<1>7. Held' /\ Apart'
  <2>1. Queued' = Queued
    BY <1>1 DEF Queued
  <2>2. ASSUME NEW f, Delivered(f) PROVE Delivered(f)'
    BY <1>1, <2>2 DEF Delivered
  <2>3. PICK f : f = base'.file
    OBVIOUS
  <2>4. base'.valid /\ f # 0 => Delivered(f)' /\ f \notin Queued
    BY <1>4, <2>2, <2>3 DEF TabInv, Held, Apart
  <2>5. base'.valid /\ base'.file # 0 => Delivered(base.file)' /\ base'.file \notin Queued
    BY <2>3, <2>4 DEF Delivered
  <2>6. \A g \in Queued : g # 0 => Delivered(g)'
    BY <2>2 DEF TabInv, Held
  <2> QED
    BY <1>1, <2>1, <2>5, <2>6 DEF Held, Apart
<1>8. Fetched' /\ Cleared'
  BY <1>1, FetchedKept DEF TabInv, Cleared
<1>9. Named' /\ Pane' /\ Exact'
  BY <1>2 DEF Named, Pane, Exact, Accepted
<1>10. Alone'
  BY <1>1, <1>2, <1>3 DEF TabInv, Alone, Busy
<1> QED
  BY <1>5, <1>6, <1>7, <1>8, <1>9, <1>10 DEF TabInv

LEMMA RestoreBaseStateKept == ASSUME TabInv, RestoreBaseState PROVE TabInv'
<1>1. /\ ui = "click" /\ ui' = "app" /\ base.valid /\ base' = NoBase
      /\ respFile' = base.file /\ respSize' = base.size /\ previewLoaded' = base.loaded
      /\ previewEnabled' = base.enabled /\ editor' = base.text
      /\ UNCHANGED <<session, mode, reqID, requesting, cancelFn, closed, shown, overtaken, respChan, previewChan,
                     appendChan, previewLoading, snd, cancelled, files, ldr>>
  BY DEF RestoreBaseState, chanVars
<1>2. shown # 0 /\ shown' # 0
  BY <1>1 DEF TabInv, Named
<1>3. UiGoesOn /\ ~Beginning /\ ~Beginning'
  BY <1>1 DEF UiGoesOn, InFrame, Beginning
<1>4. base' = [valid |-> FALSE, file |-> 0, size |-> 0, loaded |-> 0, enabled |-> TRUE, text |-> <<>>]
  BY <1>1 DEF NoBase
<1>5. base'.file = 0 /\ base'.size = 0 /\ base'.loaded = 0 /\ base'.text = <<>> /\ base'.enabled \in BOOLEAN
  <2>1. PICK e \in BOOLEAN, v \in BOOLEAN : e = TRUE /\ v = FALSE
    OBVIOUS
  <2>2. base' = [valid |-> v, file |-> 0, size |-> 0, loaded |-> 0, enabled |-> e, text |-> <<>>]
    BY <1>4, <2>1
  <2> QED
    BY <2>2
<1>6. TabTypes'
  <2>1. PlainTypes' /\ ChanTypes' /\ SndTypes' /\ LdrTypes'
    BY <1>1 DEF TabInv, TabTypes, PlainTypes, ChanTypes, SndTypes, LdrTypes
  <2>2. IsBase(base')
    <3>1. <<>> \in Seq(Pieces) /\ 0 \in 0..MaxReq /\ 0 \in 0..Batches
      BY ZeroIsNoRequest
    <3> QED
      BY <1>5, <3>1 DEF IsBase
  <2>3. PaneTypes'
    BY <1>1, <2>2 DEF TabInv, TabTypes, PaneTypes, IsBase
  <2> QED
    BY <2>1, <2>3 DEF TabTypes
<1>7. Senders' /\ Answers1' /\ AnswerOnItsWay'
  BY <1>1, <1>3, SendersKept, AnswersKept, OnItsWayKept DEF TabInv
<1>8. Held' /\ Apart'
  <2>1. Queued' = Queued
    BY <1>1 DEF Queued
  <2>2. ASSUME NEW f, Delivered(f) PROVE Delivered(f)'
    BY <1>1, <2>2 DEF Delivered
  <2>3. PICK f : f = base.file
    OBVIOUS
  <2>4. f # 0 => Delivered(f)' /\ f \notin Queued
    BY <1>1, <2>2, <2>3 DEF TabInv, Held, Apart
  <2>5. respFile' # 0 => Delivered(respFile)' /\ respFile' \notin Queued
    BY <1>1, <2>3, <2>4 DEF Delivered
  <2>6. \A g \in Queued : g # 0 => Delivered(g)'
    BY <2>2 DEF TabInv, Held
  <2> QED
    BY <1>5, <2>1, <2>5, <2>6 DEF Held, Apart
<1>9. Fetched' /\ Cleared'
  BY <1>1, FetchedKept DEF TabInv, Cleared
<1>10. Named' /\ Pane' /\ Exact'
  BY <1>2 DEF Named, Pane, Exact, Accepted
<1>11. Alone'
  BY <1>1, <1>2, <1>3 DEF TabInv, Alone, Busy
<1> QED
  BY <1>6, <1>7, <1>8, <1>9, <1>10, <1>11 DEF TabInv
-----------------------------------------------------------------------------
(* Loaders.                                                                *)

\* Loader l is now x; the others are where they were.
LdrNow(l, x) == ldr'[l] = x /\ \A m \in Loaders \ {l} : ldr'[m] = ldr[m]

LEMMA LdrIsNow ==
    ASSUME LdrTypes, NEW l \in Loaders, NEW x, IsLoader(x), ldr' = [ldr EXCEPT ![l] = x]
    PROVE  LdrTypes' /\ LdrNow(l, x)
<1>1. ldr' = [m \in Loaders |-> IF m = l THEN x ELSE ldr[m]]
  BY DEF LdrTypes
<1>2. ldr'[l] = x /\ \A m \in Loaders \ {l} : ldr'[m] = ldr[m]
  BY <1>1
<1>3. \A m \in Loaders : IsLoader(ldr'[m])
  BY <1>2 DEF LdrTypes
<1>4. ldr' = [m \in Loaders |-> ldr'[m]]
  BY <1>1
<1> QED
  BY <1>2, <1>3, <1>4 DEF LdrTypes, LdrNow

\* A loader at p with an offset o, of what l was working on.
LdrAt(l, p, o) == [pc |-> p, kind |-> ldr[l].kind, file |-> ldr[l].file, offset |-> o, id |-> ldr[l].id]

LEMMA LdrAtIs ==
    ASSUME NEW l, NEW p, NEW o
    PROVE  /\ LdrAt(l, p, o).pc = p /\ LdrAt(l, p, o).kind = ldr[l].kind /\ LdrAt(l, p, o).file = ldr[l].file
           /\ LdrAt(l, p, o).offset = o /\ LdrAt(l, p, o).id = ldr[l].id
  BY DEF LdrAt

LEMMA LdrMoves ==
    ASSUME LdrTypes, NEW l \in Loaders, NEW p, NEW o \in 0..Batches,
           \/ /\ ldr' = [ldr EXCEPT ![l].pc = p] /\ o = ldr[l].offset
           \/ ldr' = [ldr EXCEPT ![l].pc = p, ![l].offset = o],
           \/ ldr[l].kind = "more" /\ p \in {"read", "add", "send", "release"} /\ o < Batches
           \/ ldr[l].kind = "saved" /\ p \in {"read", "replace", "put"} /\ o \in 0..1
    PROVE  LdrTypes' /\ LdrNow(l, LdrAt(l, p, o))
<1>1. PICK y, x : y = ldr[l] /\ x = LdrAt(l, p, o)
  OBVIOUS
<1>2. IsLoader(y) /\ ldr = [m \in Loaders |-> ldr[m]]
  BY <1>1 DEF LdrTypes
<1>3. PICK d : d = [y EXCEPT !.pc = p]
  OBVIOUS
<1>4. d = [pc |-> p, kind |-> y.kind, file |-> y.file, offset |-> y.offset, id |-> y.id]
  BY <1>2, <1>3 DEF IsLoader
<1>5. ldr' = [ldr EXCEPT ![l] = x]
  <2>1. CASE ldr' = [ldr EXCEPT ![l].pc = p] /\ o = ldr[l].offset
    <3>1. ldr' = [ldr EXCEPT ![l] = d]
      BY <1>1, <1>3, <2>1
    <3>2. d = x
      BY <1>1, <1>4, <2>1 DEF LdrAt
    <3> QED
      BY <3>1, <3>2
  <2>2. CASE ldr' = [ldr EXCEPT ![l].pc = p, ![l].offset = o]
    <3>1. ldr' = [ldr EXCEPT ![l] = [d EXCEPT !.offset = o]]
      BY <1>1, <1>2, <1>3, <2>2
    <3>2. [d EXCEPT !.offset = o] = x
      BY <1>1, <1>4 DEF LdrAt
    <3> QED
      BY ONLY <3>1, <3>2
  <2> QED
    BY <2>1, <2>2
<1>6. x.pc = p /\ x.kind = y.kind /\ x.file = y.file /\ x.offset = o /\ x.id = y.id
  BY <1>1, LdrAtIs
<1>7. x = [pc |-> x.pc, kind |-> x.kind, file |-> x.file, offset |-> x.offset, id |-> x.id]
  BY <1>1, <1>6 DEF LdrAt
<1>8. x.file \in 0..MaxReq /\ x.id \in 0..MaxReq /\ x.offset \in 0..Batches
  BY <1>2, <1>6 DEF IsLoader
<1>9. IsLoader(x)
  BY <1>1, <1>6, <1>7, <1>8 DEF IsLoader
<1> QED
  BY <1>1, <1>5, <1>9, LdrIsNow

\* A loader is sent for the next batch of the response shown, or the first of a saved one.
LEMMA SpawnKept ==
    ASSUME TabInv, NEW l \in Loaders, NEW x, IsLoader(x), ldr' = [ldr EXCEPT ![l] = x],
           x.pc = "read", x.file = respFile, x.id = reqID,
           \/ x.kind = "saved" /\ ~previewEnabled /\ previewEnabled' = TRUE
           \/ x.kind = "more" /\ x.offset = previewLoaded /\ previewEnabled /\ previewEnabled' = previewEnabled,
           ui = "click", ui' = "app", respFile # 0, ~previewLoading, previewLoading' = TRUE,
           UNCHANGED <<reqVars, chanVars, respFile, respSize, previewLoaded, editor, snd, cancelled, files>>
    PROVE  TabInv'
<1>1. UNCHANGED <<mode, reqID, requesting, cancelFn, closed, session, base, shown, overtaken, respChan, previewChan,
                  appendChan>>
  BY DEF reqVars, exVars, chanVars
<1>2. UiGoesOn /\ InFrame /\ ~Beginning /\ InFrame' /\ ~Beginning' /\ ui' # "closed"
  BY DEF UiGoesOn, InFrame, Beginning
<1>3. LdrTypes' /\ LdrNow(l, x)
  BY LdrIsNow DEF TabInv, TabTypes
<1>4. TabTypes'
  <2>1. PlainTypes' /\ ChanTypes' /\ SndTypes'
    BY <1>1 DEF TabInv, TabTypes, PlainTypes, ChanTypes, SndTypes
  <2>2. previewEnabled' \in BOOLEAN
    BY DEF TabInv, TabTypes, PaneTypes
  <2>3. PaneTypes'
    BY <1>1, <2>2 DEF TabInv, TabTypes, PaneTypes
  <2> QED
    BY <1>3, <2>1, <2>3 DEF TabTypes
<1>5. Senders' /\ Answers1' /\ AnswerOnItsWay'
  BY <1>1, <1>2, SendersKept, AnswersKept, OnItsWayKept DEF TabInv
<1>6. Held' /\ Apart' /\ Fetched'
  BY <1>1, HeldKept, FetchedKept DEF TabInv
<1>7. shown = 0 => respFile = reqID
  BY <1>2 DEF TabInv, Pane
<1>8. Named'
  <2>1. ASSUME shown = 0, NEW m \in Loaders, Busy(m)' PROVE ldr'[m].id = ldr'[m].file
    <3>1. CASE m = l
      BY <1>3, <1>7, <2>1, <3>1 DEF LdrNow
    <3>2. CASE m # l
      BY <1>3, <2>1, <3>2 DEF LdrNow, TabInv, Named, Busy
    <3> QED
      BY <3>1, <3>2
  <2> QED
    BY <1>1, <2>1 DEF TabInv, Named
<1>9. Cleared' /\ Pane'
  BY <1>1, <1>2 DEF TabInv, Cleared, Pane
<1>10. ~overtaken => previewChan = <<>> /\ \A m \in Loaders : ~Busy(m)
  BY DEF TabInv, Alone
<1>11. ~overtaken => \A m \in Loaders : Busy(m)' => m = l
  BY <1>3, <1>10 DEF LdrNow, Busy
<1>12. ldr'[l].id = reqID /\ ldr'[l].file = respFile
  BY <1>3 DEF LdrNow
<1>13. Alone'
  <2>1. ASSUME ~overtaken
        PROVE  /\ \A m, n \in Loaders : Busy(m)' /\ Busy(n)' => m = n
               /\ \A m \in Loaders : Busy(m)' => ldr'[m].id = reqID' /\ ldr'[m].file = respFile'
               /\ previewChan' = <<>>
    BY <1>1, <1>10, <1>11, <1>12, <2>1
  <2> QED
    BY <1>1, <1>2, <2>1 DEF Alone
<1>14. Exact'
  <2>1. SUFFICES ASSUME Accepted PROVE Counts'
    BY <1>1, <1>2 DEF Exact, Accepted
  <2>2. Counts /\ previewChan = <<>> /\ \A m \in Loaders : ~Busy(m)
    BY <1>10, <2>1 DEF TabInv, Exact, Accepted
  <2>3. \A m \in Loaders : ldr[m].pc = "none" /\ ldr[m].kind = "more"
    BY <2>2, IdleLoaders DEF TabInv, TabTypes
  <2>4. /\ ldr'[l] = x /\ ~\E m \in Loaders : ldr[m].pc = "send"
        /\ \A m \in Loaders \ {l} : ldr'[m].pc = "none" /\ ldr'[m].kind = "more"
    BY <1>3, <2>3 DEF LdrNow
  <2>5. ~\E m \in Loaders : ldr'[m].pc = "send"
    BY <2>4
  <2>6. PICK k \in Nat : /\ WillShow(appendChan, reqID, respFile, editor, k)
                         /\ previewLoaded = k + (IF \E m \in Loaders : ldr[m].pc = "send" THEN 1 ELSE 0)
    BY <2>2 DEF Counts
  <2>7. /\ WillShow(appendChan, reqID, respFile, editor, k)'
        /\ previewLoaded' = k + (IF \E m \in Loaders : ldr'[m].pc = "send" THEN 1 ELSE 0)
    BY <1>1, <2>4, <2>5, <2>6
  <2>8. previewEnabled' /\ (x.kind = "saved" => previewLoaded' = 0)
    BY <2>2 DEF Counts
  <2>9. previewChan' = <<>>
    BY <1>1, <2>2
  <2>10. ASSUME NEW m \in Loaders
         PROVE  /\ ldr'[m].kind = "saved" => previewLoaded' = 0
                /\ ldr'[m].kind = "more" /\ ldr'[m].pc \in {"read", "add"} => ldr'[m].offset = previewLoaded'
                /\ ldr'[m].pc # "send"
    <3>1. CASE m = l
      BY <2>4, <2>8, <3>1
    <3>2. CASE m # l
      BY <2>4, <3>2
    <3> QED
      BY <3>1, <3>2
  <2> QED
    BY <2>7, <2>8, <2>9, <2>10 DEF Counts
<1> QED
  BY <1>4, <1>5, <1>6, <1>8, <1>9, <1>13, <1>14 DEF TabInv

LEMMA LoadPreviewKept ==
    ASSUME TabInv, NEW l \in Loaders, LoadPreviewForSavedFile(l)
    PROVE  TabInv'
<1>1. /\ ui = "click" /\ ~previewEnabled /\ respFile # 0 /\ ~previewLoading /\ previewLoading' = TRUE
      /\ previewEnabled' = TRUE /\ ui' = "app"
      /\ ldr' = [ldr EXCEPT ![l] = [pc |-> "read", kind |-> "saved", file |-> respFile, offset |-> 0, id |-> reqID]]
      /\ UNCHANGED <<reqVars, chanVars, respFile, respSize, previewLoaded, editor, snd, cancelled, files>>
  BY DEF LoadPreviewForSavedFile, Spawn
<1>2. PICK x : x = [pc |-> "read", kind |-> "saved", file |-> respFile, offset |-> 0, id |-> reqID]
  OBVIOUS
<1>3. x.pc = "read" /\ x.kind = "saved" /\ x.file = respFile /\ x.offset = 0 /\ x.id = reqID
  BY <1>2
<1>4. respFile \in 0..MaxReq /\ reqID \in 0..MaxReq /\ 0 \in 0..Batches /\ 0 \in 0..1
  BY ZeroIsNoRequest DEF TabInv, TabTypes, PlainTypes, PaneTypes
<1>5. IsLoader(x)
  BY <1>2, <1>3, <1>4 DEF IsLoader
<1> QED
  BY <1>1, <1>2, <1>3, <1>5, SpawnKept

LEMMA LoadMoreKept ==
    ASSUME TabInv, NEW l \in Loaders, LoadMorePreview(l)
    PROVE  TabInv'
<1>1. /\ ui = "click" /\ previewEnabled /\ previewLoaded < respSize /\ respFile # 0 /\ ~previewLoading
      /\ previewLoading' = TRUE /\ ui' = "app"
      /\ ldr' = [ldr EXCEPT ![l] = [pc |-> "read", kind |-> "more", file |-> respFile, offset |-> previewLoaded,
                                    id |-> reqID]]
      /\ UNCHANGED <<reqVars, chanVars, paneVars, snd, cancelled, files>>
  BY DEF LoadMorePreview, Spawn
<1>2. PICK x : x = [pc |-> "read", kind |-> "more", file |-> respFile, offset |-> previewLoaded, id |-> reqID]
  OBVIOUS
<1>3. x.pc = "read" /\ x.kind = "more" /\ x.file = respFile /\ x.offset = previewLoaded /\ x.id = reqID
  BY <1>2
<1>4. /\ respFile \in 0..MaxReq /\ reqID \in 0..MaxReq
      /\ previewLoaded \in 0..Batches /\ previewLoaded < Batches
  <2>1. previewLoaded \in Nat /\ respSize \in 0..Batches /\ Batches \in Nat
    BY ZeroIsNoRequest DEF TabInv, TabTypes, PaneTypes
  <2>2. previewLoaded \in 0..Batches /\ previewLoaded < Batches
    BY <1>1, <2>1
  <2> QED
    BY <2>2 DEF TabInv, TabTypes, PlainTypes, PaneTypes
<1>5. IsLoader(x)
  BY <1>2, <1>3, <1>4 DEF IsLoader
<1>6. /\ UNCHANGED <<reqVars, chanVars, respFile, respSize, previewLoaded, editor, snd, cancelled, files>>
      /\ previewEnabled' = previewEnabled
  BY <1>1 DEF paneVars
<1> QED
  BY <1>1, <1>2, <1>3, <1>5, <1>6, SpawnKept
\* What a loader's step leaves: all that only the UI thread and the senders touch.
LEMMA LoaderRest ==
    ASSUME TabInv, UNCHANGED ldrOnly, previewLoaded' \in Nat, previewLoading' \in BOOLEAN,
           ChanTypes', LdrTypes', Named', Alone', Exact'
    PROVE  TabInv'
<1>1. UNCHANGED <<ui, mode, reqID, requesting, cancelFn, closed, session, base, shown, overtaken, respChan, respFile,
                  respSize, previewEnabled, editor, snd, cancelled, files>>
  BY DEF ldrOnly, reqVars, exVars
<1>2. UiGoesOn
  BY <1>1 DEF UiGoesOn, InFrame, Beginning
<1>3. TabTypes'
  BY <1>1 DEF TabInv, TabTypes, PlainTypes, PaneTypes, SndTypes
<1>4. Senders' /\ Answers1' /\ AnswerOnItsWay'
  BY <1>1, <1>2, SendersKept, AnswersKept, OnItsWayKept DEF TabInv
<1>5. Held' /\ Apart' /\ Fetched'
  BY <1>1, HeldKept, FetchedKept DEF TabInv
<1>6. Cleared' /\ Pane'
  BY <1>1, <1>2, ClearedKept, PaneKept DEF TabInv
<1> QED
  BY <1>3, <1>4, <1>5, <1>6 DEF TabInv

\* Who works now worked before, on the same.
LEMMA WorkKept ==
    ASSUME NEW l \in Loaders, NEW x, LdrNow(l, x), Busy(l),
           x.pc # "none" => x.id = ldr[l].id /\ x.file = ldr[l].file,
           NEW m \in Loaders, Busy(m)'
    PROVE  Busy(m) /\ ldr'[m].id = ldr[m].id /\ ldr'[m].file = ldr[m].file
<1>1. CASE m = l
  BY <1>1 DEF LdrNow, Busy
<1>2. CASE m # l
  BY <1>2 DEF LdrNow, Busy
<1> QED
  BY <1>1, <1>2

\* No loader begins here, and what is left in the channel is no more than before.
LEMMA LoaderGoes ==
    ASSUME TabInv, UNCHANGED ldrOnly, NEW l \in Loaders, NEW x, LdrNow(l, x), Busy(l),
           x.pc # "none" => x.id = ldr[l].id /\ x.file = ldr[l].file,
           previewChan' = previewChan \/ previewChan' = <<>>,
           previewLoading' = previewLoading \/ x.pc = "none"
    PROVE  /\ appendChan' = appendChan => Named'
           /\ Alone'
<1>1. UNCHANGED <<ui, reqID, base, shown, overtaken, respFile>>
  BY DEF ldrOnly, reqVars, exVars
<1>2. \A m \in Loaders : Busy(m)' => Busy(m) /\ ldr'[m].id = ldr[m].id /\ ldr'[m].file = ldr[m].file
  BY WorkKept
<1>3. appendChan' = appendChan => Named'
  BY <1>1, <1>2 DEF TabInv, Named
<1>4. Alone'
  <2>1. ASSUME ~overtaken PROVE previewLoading /\ previewChan = <<>> /\ \A m \in Loaders : Busy(m) => m = l
    BY <2>1 DEF TabInv, Alone
  <2>2. ASSUME ~overtaken, NEW m \in Loaders, Busy(m)' PROVE previewLoading' = previewLoading
    <3>1. m = l
      BY <1>2, <2>1, <2>2
    <3> QED
      BY <2>2, <3>1 DEF LdrNow, Busy
  <2>3. ~overtaken => previewChan' = <<>>
    BY <2>1
  <2>4. ASSUME ~overtaken, NEW m \in Loaders, Busy(m)'
        PROVE  /\ previewLoading' /\ previewChan' = <<>> /\ ldr'[m].id = reqID' /\ ~Beginning'
               /\ shown' = 0 /\ ui' # "closed" => respFile' # 0 /\ ldr'[m].file = respFile'
    BY <1>1, <1>2, <2>1, <2>2, <2>3, <2>4 DEF TabInv, Alone, Beginning
  <2> QED
    BY <1>1, <1>2, <2>3, <2>4 DEF TabInv, Alone
<1> QED
  BY <1>3, <1>4

\* Where the response was taken and loader l is at work, it is the only one.
LEMMA OnlyOne ==
    ASSUME TabInv, Accepted, NEW l \in Loaders, Busy(l)
    PROVE  /\ Counts /\ previewChan = <<>> /\ previewLoading /\ previewEnabled
           /\ ldr[l].id = reqID /\ ldr[l].file = respFile
           /\ \A m \in Loaders \ {l} : ldr[m].pc = "none" /\ ldr[m].kind = "more"
<1>1. Counts /\ previewChan = <<>> /\ previewLoading /\ ldr[l].id = reqID /\ ui # "closed"
      /\ \A m \in Loaders \ {l} : ~Busy(m)
  BY DEF TabInv, Exact, Accepted, Alone, InFrame
<1>2. previewEnabled
  BY <1>1 DEF Counts
<1>3. ldr[l].file = respFile
  BY <1>1 DEF TabInv, Alone, Accepted
<1>4. \A m \in Loaders \ {l} : ldr[m].pc = "none" /\ ldr[m].kind = "more"
  BY <1>1 DEF TabInv, TabTypes, LdrTypes, IsLoader, Busy
<1> QED
  BY <1>1, <1>2, <1>3, <1>4

LEMMA OneCounts ==
    ASSUME NEW l \in Loaders, Counts, \A m \in Loaders \ {l} : ldr[m].pc = "none" /\ ldr[m].kind = "more"
    PROVE  \E k \in Nat : /\ WillShow(appendChan, reqID, respFile, editor, k)
                          /\ previewLoaded = k + (IF ldr[l].pc = "send" THEN 1 ELSE 0)
<1>1. (\E m \in Loaders : ldr[m].pc = "send") <=> ldr[l].pc = "send"
  OBVIOUS
<1> QED
  BY <1>1 DEF Counts

LEMMA CountsOne ==
    ASSUME NEW l \in Loaders, NEW x, LdrNow(l, x),
           \A m \in Loaders \ {l} : ldr[m].pc = "none" /\ ldr[m].kind = "more",
           NEW k \in Nat, WillShow(appendChan, reqID, respFile, editor, k)',
           previewLoaded' = k + (IF x.pc = "send" THEN 1 ELSE 0),
           previewEnabled', previewChan' # <<>> => previewLoaded' = 0,
           x.kind = "saved" => previewLoaded' = 0,
           x.kind = "more" /\ x.pc \in {"read", "add"} => x.offset = previewLoaded',
           x.pc = "send" => x.offset + 1 = previewLoaded'
    PROVE  Counts'
<1>1. ldr'[l] = x /\ \A m \in Loaders \ {l} : ldr'[m].pc = "none" /\ ldr'[m].kind = "more"
  BY DEF LdrNow
<1>2. (\E m \in Loaders : ldr'[m].pc = "send") <=> x.pc = "send"
  BY <1>1
<1>3. \E j \in Nat : /\ WillShow(appendChan, reqID, respFile, editor, j)'
                     /\ previewLoaded' = j + (IF \E m \in Loaders : ldr'[m].pc = "send" THEN 1 ELSE 0)
  BY <1>2
<1>4. ASSUME NEW m \in Loaders
      PROVE  /\ ldr'[m].kind = "saved" => previewLoaded' = 0
             /\ ldr'[m].kind = "more" /\ ldr'[m].pc \in {"read", "add"} => ldr'[m].offset = previewLoaded'
             /\ ldr'[m].pc = "send" => ldr'[m].offset + 1 = previewLoaded'
  <2>1. CASE m = l
    BY <1>1, <2>1
  <2>2. CASE m # l
    BY <1>1, <2>2
  <2> QED
    BY <2>1, <2>2
<1> QED
  BY <1>3, <1>4 DEF Counts

LEMMA LoaderIs ==
    ASSUME TabInv, NEW l \in Loaders, Busy(l)
    PROVE  /\ IsLoader(ldr[l]) /\ ldr[l].offset \in 0..Batches /\ ldr[l].offset \in Nat
           /\ ldr[l].file \in 0..MaxReq /\ ldr[l].id \in 0..MaxReq
           /\ \/ ldr[l].kind = "more" /\ ldr[l].offset < Batches
              \/ ldr[l].kind = "saved" /\ ldr[l].offset \in 0..1
           /\ ldr[l].pc \in {"add", "send", "release"} => ldr[l].kind = "more"
           /\ ldr[l].pc \in {"replace", "put"} => ldr[l].kind = "saved"
  BY DEF TabInv, TabTypes, LdrTypes, IsLoader, Busy

LEMMA ReadBatchKept == ASSUME TabInv, NEW l \in Loaders, ReadBatch(l) PROVE TabInv'
<1>1. /\ ldr[l].kind = "more" /\ ldr[l].pc = "read"
      /\ UNCHANGED <<ldrOnly, previewChan, appendChan, previewLoaded, previewLoading>>
  BY DEF ReadBatch, LoaderAt
<1>2. PICK p, o, x : /\ p = IF ldr[l].file \in files THEN "add" ELSE "release"
                     /\ o = ldr[l].offset /\ x = LdrAt(l, p, o)
  OBVIOUS
<1>3. ldr' = [ldr EXCEPT ![l].pc = p]
  BY <1>2 DEF ReadBatch, LoaderAt
<1>4. p \in {"add", "release"}
  BY <1>2
<1>5. Busy(l)
  BY <1>1 DEF Busy
<1>6. LdrTypes' /\ LdrNow(l, x)
  BY <1>1, <1>2, <1>3, <1>4, <1>5, LdrMoves, LoaderIs DEF TabInv, TabTypes
<1>7. x.pc = p /\ x.kind = "more" /\ x.offset = o /\ x.id = ldr[l].id /\ x.file = ldr[l].file
  BY <1>1, <1>2, LdrAtIs
<1>8. ChanTypes' /\ previewLoaded' \in Nat /\ previewLoading' \in BOOLEAN
  BY <1>1 DEF TabInv, TabTypes, ChanTypes, PaneTypes
<1>9. Named' /\ Alone'
  BY <1>1, <1>5, <1>6, <1>7, LoaderGoes
<1>10. UNCHANGED <<ui, reqID, requesting, shown, overtaken, respFile, previewEnabled, editor>>
  BY <1>1 DEF ldrOnly, reqVars, exVars
<1>11. Exact'
  <2>1. SUFFICES ASSUME Accepted PROVE Counts'
    BY <1>10 DEF Exact, Accepted, InFrame
  <2>2. /\ Counts /\ previewEnabled /\ previewChan = <<>>
        /\ \A m \in Loaders \ {l} : ldr[m].pc = "none" /\ ldr[m].kind = "more"
    BY <1>5, <2>1, OnlyOne
  <2>3. PICK k \in Nat : /\ WillShow(appendChan, reqID, respFile, editor, k)
                         /\ previewLoaded = k + (IF ldr[l].pc = "send" THEN 1 ELSE 0)
    BY <2>2, OneCounts
  <2>4. WillShow(appendChan, reqID, respFile, editor, k)' /\ previewLoaded' = k + 0
    BY <1>1, <1>10, <2>3
  <2>5. ldr[l].offset = previewLoaded
    BY <1>1, <2>2 DEF Counts
  <2> QED
    BY <1>1, <1>2, <1>4, <1>6, <1>7, <1>10, <2>2, <2>4, <2>5, CountsOne
<1> QED
  BY <1>1, <1>6, <1>8, <1>9, <1>11, LoaderRest

LEMMA AddLoadedKept == ASSUME TabInv, NEW l \in Loaders, AddLoaded(l) PROVE TabInv'
<1>1. /\ ldr[l].pc = "add" /\ ldr' = [ldr EXCEPT ![l].pc = "send"] /\ previewLoaded' = previewLoaded + 1
      /\ UNCHANGED <<ldrOnly, previewChan, appendChan, previewLoading>>
  BY DEF AddLoaded, LoaderAt
<1>2. PICK p, o, x : p = "send" /\ o = ldr[l].offset /\ x = LdrAt(l, p, o)
  OBVIOUS
<1>3. Busy(l)
  BY <1>1 DEF Busy
<1>4. ldr[l].kind = "more" /\ o \in 0..Batches /\ o < Batches
  BY <1>1, <1>2, <1>3, LoaderIs
<1>5. LdrTypes' /\ LdrNow(l, x)
  BY <1>1, <1>2, <1>4, LdrMoves DEF TabInv, TabTypes
<1>6. x.pc = "send" /\ x.kind = "more" /\ x.offset = o /\ x.id = ldr[l].id /\ x.file = ldr[l].file
  BY <1>2, <1>4, LdrAtIs
<1>7. ChanTypes' /\ previewLoaded' \in Nat /\ previewLoading' \in BOOLEAN
  BY <1>1 DEF TabInv, TabTypes, ChanTypes, PaneTypes
<1>8. Named' /\ Alone'
  BY <1>1, <1>3, <1>5, <1>6, LoaderGoes
<1>9. UNCHANGED <<ui, reqID, requesting, shown, overtaken, respFile, previewEnabled, editor>>
  BY <1>1 DEF ldrOnly, reqVars, exVars
<1>10. Exact'
  <2>1. SUFFICES ASSUME Accepted PROVE Counts'
    BY <1>9 DEF Exact, Accepted, InFrame
  <2>2. /\ Counts /\ previewEnabled /\ previewChan = <<>>
        /\ \A m \in Loaders \ {l} : ldr[m].pc = "none" /\ ldr[m].kind = "more"
    BY <1>3, <2>1, OnlyOne
  <2>3. PICK k \in Nat : /\ WillShow(appendChan, reqID, respFile, editor, k)
                         /\ previewLoaded = k + (IF ldr[l].pc = "send" THEN 1 ELSE 0)
    BY <2>2, OneCounts
  <2>4. WillShow(appendChan, reqID, respFile, editor, k)' /\ previewLoaded = k
    BY <1>1, <1>9, <2>3
  <2>5. ldr[l].offset = previewLoaded
    BY <1>1, <1>4, <2>2 DEF Counts
  <2>6. previewLoaded' = k + 1 /\ x.offset + 1 = previewLoaded' /\ previewChan' = <<>> /\ previewEnabled'
    BY <1>1, <1>2, <1>6, <1>9, <2>2, <2>4, <2>5
  <2> QED
    BY <1>5, <1>6, <2>2, <2>4, <2>6, CountsOne
<1> QED
  BY <1>1, <1>5, <1>7, <1>8, <1>10, LoaderRest

LEMMA StreamToEditorKept == ASSUME TabInv, NEW l \in Loaders, StreamToEditor(l) PROVE TabInv'
<1>1. /\ ldr[l].pc = "send" /\ ldr' = [ldr EXCEPT ![l].pc = "release"] /\ Len(appendChan) < ChanCap
      /\ appendChan' = Append(appendChan, [id |-> ldr[l].id, text |-> Piece(ldr[l].file, ldr[l].offset + 1)])
      /\ UNCHANGED <<ldrOnly, previewChan, previewLoaded, previewLoading>>
  BY DEF StreamToEditor, LoaderAt
<1>2. PICK p, o, x : p = "release" /\ o = ldr[l].offset /\ x = LdrAt(l, p, o)
  OBVIOUS
<1>3. Busy(l)
  BY <1>1 DEF Busy
<1>4. /\ ldr[l].kind = "more" /\ o \in 0..Batches /\ o < Batches /\ o \in Nat
      /\ ldr[l].file \in 0..MaxReq /\ ldr[l].id \in 0..MaxReq
  BY <1>1, <1>2, <1>3, LoaderIs
<1>5. LdrTypes' /\ LdrNow(l, x)
  BY <1>1, <1>2, <1>4, LdrMoves DEF TabInv, TabTypes
<1>6. x.pc = "release" /\ x.kind = "more" /\ x.offset = o /\ x.id = ldr[l].id /\ x.file = ldr[l].file
  BY <1>2, <1>4, LdrAtIs
<1>7. PICK t, ch : t = Piece(ldr[l].file, o + 1) /\ ch = [id |-> ldr[l].id, text |-> t]
  OBVIOUS
<1>8. ch \in Chunks /\ ch.id = ldr[l].id /\ ch.text = t /\ t.of = ldr[l].file
  <2>1. o + 1 \in 0..Batches
    BY <1>4, ZeroIsNoRequest
  <2>2. t \in Pieces /\ t.of = ldr[l].file
    BY <1>4, <1>7, <2>1 DEF Piece, Pieces
  <2> QED
    BY <1>4, <1>7, <2>2 DEF Chunks
<1>9. /\ appendChan \in Seq(Chunks) /\ Len(appendChan) \in Nat /\ appendChan' = Append(appendChan, ch)
      /\ appendChan' \in Seq(Chunks) /\ Len(appendChan') = Len(appendChan) + 1
      /\ appendChan'[Len(appendChan) + 1] = ch
      /\ \A i \in 1..Len(appendChan) : appendChan'[i] = appendChan[i]
  <2>1. appendChan' = Append(appendChan, ch)
    BY <1>1, <1>2, <1>7
  <2> QED
    BY <1>8, <2>1, AppendProperties, LenProperties DEF TabInv, TabTypes, ChanTypes
<1>10. ChanTypes' /\ previewLoaded' \in Nat /\ previewLoading' \in BOOLEAN
  <2>1. Len(appendChan') <= ChanCap
    BY <1>1, <1>9, BoundsAssumption
  <2> QED
    BY <1>1, <1>9, <2>1 DEF TabInv, TabTypes, ChanTypes, PaneTypes
<1>11. Alone'
  BY <1>1, <1>3, <1>5, <1>6, LoaderGoes
<1>12. UNCHANGED <<ui, reqID, requesting, base, shown, overtaken, respFile, previewEnabled, editor>>
  BY <1>1 DEF ldrOnly, reqVars, exVars
<1>13. Named'
  <2>1. ASSUME shown = 0, NEW i \in 1..Len(appendChan') PROVE appendChan'[i].text.of = appendChan'[i].id
    <3>1. CASE i = Len(appendChan) + 1
      BY <1>3, <1>8, <1>9, <2>1, <3>1 DEF TabInv, Named
    <3>2. CASE i # Len(appendChan) + 1
      <4>1. i \in 1..Len(appendChan)
        BY <1>9, <3>2
      <4> QED
        BY <1>9, <2>1, <4>1 DEF TabInv, Named
    <3> QED
      BY <3>1, <3>2
  <2>2. \A m \in Loaders : Busy(m)' => Busy(m) /\ ldr'[m].id = ldr[m].id /\ ldr'[m].file = ldr[m].file
    BY <1>3, <1>5, <1>6, WorkKept
  <2> QED
    BY <1>1, <1>12, <2>1, <2>2 DEF TabInv, Named
<1>14. Exact'
  <2>1. SUFFICES ASSUME Accepted PROVE Counts'
    BY <1>12 DEF Exact, Accepted, InFrame
  <2>2. /\ Counts /\ previewEnabled /\ previewChan = <<>> /\ ldr[l].id = reqID /\ ldr[l].file = respFile
        /\ \A m \in Loaders \ {l} : ldr[m].pc = "none" /\ ldr[m].kind = "more"
    BY <1>3, <2>1, OnlyOne
  <2>3. PICK k \in Nat : /\ WillShow(appendChan, reqID, respFile, editor, k)
                         /\ previewLoaded = k + (IF ldr[l].pc = "send" THEN 1 ELSE 0)
    BY <2>2, OneCounts
  <2>4. PICK k2 \in Nat : k2 = k + 1
    OBVIOUS
  <2>5. o + 1 = previewLoaded /\ previewLoaded = k2
    BY <1>1, <1>2, <2>2, <2>3, <2>4 DEF Counts
  <2>6. ch.id = reqID /\ ch.text = Piece(respFile, k2)
    BY <1>7, <1>8, <2>2, <2>5
  <2>7. WillShow(Append(appendChan, ch), reqID, respFile, editor, k2)
    BY <1>8, <1>9, <2>3, <2>4, <2>6, ChunkAppended
  <2>8. /\ WillShow(appendChan, reqID, respFile, editor, k2)' /\ previewLoaded' = k2 + 0
        /\ previewChan' = <<>> /\ previewEnabled'
    BY <1>1, <1>9, <1>12, <2>2, <2>5, <2>7
  <2> QED
    BY <1>5, <1>6, <2>2, <2>8, CountsOne
<1> QED
  BY <1>1, <1>5, <1>10, <1>11, <1>13, <1>14, LoaderRest

LEMMA NoLoaderIs ==
    /\ IsLoader(NoLoader) /\ NoLoader.pc = "none" /\ NoLoader.kind = "more"
<1>1. 0 \in 0..MaxReq /\ 0 \in 0..Batches /\ 0 < Batches
  BY ZeroIsNoRequest
<1>2. PICK x : x = NoLoader
  OBVIOUS
<1>3. x = [pc |-> "none", kind |-> "more", file |-> 0, offset |-> 0, id |-> 0]
  BY <1>2 DEF NoLoader
<1>4. x.pc = "none" /\ x.kind = "more" /\ x.file = 0 /\ x.offset = 0 /\ x.id = 0
  BY <1>3
<1>5. IsLoader(x)
  BY <1>1, <1>3, <1>4 DEF IsLoader
<1> QED
  BY <1>2, <1>4, <1>5

LEMMA ReleaseLoaderKept == ASSUME TabInv, NEW l \in Loaders, ReleaseLoader(l) PROVE TabInv'
<1>1. /\ ldr[l].pc = "release" /\ ldr' = [ldr EXCEPT ![l] = NoLoader] /\ previewLoading' = FALSE
      /\ UNCHANGED <<ldrOnly, previewChan, appendChan, previewLoaded>>
  BY DEF ReleaseLoader
<1>2. PICK x : x = NoLoader
  OBVIOUS
<1>3. x.pc = "none" /\ x.kind = "more" /\ IsLoader(x)
  BY <1>2, NoLoaderIs
<1>4. LdrTypes' /\ LdrNow(l, x)
  BY <1>1, <1>2, <1>3, LdrIsNow DEF TabInv, TabTypes
<1>5. Busy(l)
  BY <1>1 DEF Busy
<1>6. ChanTypes' /\ previewLoaded' \in Nat /\ previewLoading' \in BOOLEAN
  BY <1>1 DEF TabInv, TabTypes, ChanTypes, PaneTypes
<1>7. Named' /\ Alone'
  BY <1>1, <1>3, <1>4, <1>5, LoaderGoes
<1>8. UNCHANGED <<ui, reqID, requesting, shown, overtaken, respFile, previewEnabled, editor>>
  BY <1>1 DEF ldrOnly, reqVars, exVars
<1>9. Exact'
  <2>1. SUFFICES ASSUME Accepted PROVE Counts'
    BY <1>8 DEF Exact, Accepted, InFrame
  <2>2. /\ Counts /\ previewEnabled /\ previewChan = <<>>
        /\ \A m \in Loaders \ {l} : ldr[m].pc = "none" /\ ldr[m].kind = "more"
    BY <1>5, <2>1, OnlyOne
  <2>3. PICK k \in Nat : /\ WillShow(appendChan, reqID, respFile, editor, k)
                         /\ previewLoaded = k + (IF ldr[l].pc = "send" THEN 1 ELSE 0)
    BY <2>2, OneCounts
  <2>4. /\ WillShow(appendChan, reqID, respFile, editor, k)' /\ previewLoaded' = k + 0
        /\ previewChan' = <<>> /\ previewEnabled'
    BY <1>1, <1>8, <2>2, <2>3
  <2> QED
    BY <1>3, <1>4, <2>2, <2>4, CountsOne
<1> QED
  BY <1>1, <1>4, <1>6, <1>7, <1>9, LoaderRest

LEMMA ReadSavedKept == ASSUME TabInv, NEW l \in Loaders, ReadSaved(l) PROVE TabInv'
<1>1. /\ ldr[l].kind = "saved" /\ ldr[l].pc = "read"
      /\ UNCHANGED <<ldrOnly, previewChan, appendChan, previewLoaded, previewLoading>>
  BY DEF ReadSaved
<1>2. PICK p, o, x : /\ p = "replace" /\ o = IF ldr[l].file \in files THEN 1 ELSE 0
                     /\ x = LdrAt(l, p, o)
  OBVIOUS
<1>3. ldr' = [ldr EXCEPT ![l].pc = p, ![l].offset = o]
  BY <1>2 DEF ReadSaved
<1>4. o \in 0..1 /\ o \in 0..Batches
  <2>1. o \in {0, 1}
    BY <1>2
  <2> QED
    BY <2>1, ZeroIsNoRequest
<1>5. Busy(l)
  BY <1>1 DEF Busy
<1>6. LdrTypes' /\ LdrNow(l, x)
  BY <1>1, <1>2, <1>3, <1>4, LdrMoves DEF TabInv, TabTypes
<1>7. x.pc = "replace" /\ x.kind = "saved" /\ x.offset = o /\ x.id = ldr[l].id /\ x.file = ldr[l].file
  BY <1>1, <1>2, LdrAtIs
<1>8. ChanTypes' /\ previewLoaded' \in Nat /\ previewLoading' \in BOOLEAN
  BY <1>1 DEF TabInv, TabTypes, ChanTypes, PaneTypes
<1>9. Named' /\ Alone'
  BY <1>1, <1>5, <1>6, <1>7, LoaderGoes
<1>10. UNCHANGED <<ui, reqID, requesting, shown, overtaken, respFile, previewEnabled, editor>>
  BY <1>1 DEF ldrOnly, reqVars, exVars
<1>11. Exact'
  <2>1. SUFFICES ASSUME Accepted PROVE Counts'
    BY <1>10 DEF Exact, Accepted, InFrame
  <2>2. /\ Counts /\ previewEnabled /\ previewChan = <<>>
        /\ \A m \in Loaders \ {l} : ldr[m].pc = "none" /\ ldr[m].kind = "more"
    BY <1>5, <2>1, OnlyOne
  <2>3. PICK k \in Nat : /\ WillShow(appendChan, reqID, respFile, editor, k)
                         /\ previewLoaded = k + (IF ldr[l].pc = "send" THEN 1 ELSE 0)
    BY <2>2, OneCounts
  <2>4. /\ WillShow(appendChan, reqID, respFile, editor, k)' /\ previewLoaded' = k + 0
        /\ previewChan' = <<>> /\ previewEnabled'
    BY <1>1, <1>10, <2>2, <2>3
  <2>5. previewLoaded' = 0
    BY <1>1, <2>2 DEF Counts
  <2> QED
    BY <1>6, <1>7, <2>2, <2>4, <2>5, CountsOne
<1> QED
  BY <1>1, <1>6, <1>8, <1>9, <1>11, LoaderRest

LEMMA DropOldPreviewKept == ASSUME TabInv, NEW l \in Loaders, DropOldPreview(l) PROVE TabInv'
<1>1. /\ ldr[l].pc = "replace" /\ ldr' = [ldr EXCEPT ![l].pc = "put"] /\ previewChan' = <<>>
      /\ UNCHANGED <<ldrOnly, appendChan, previewLoaded, previewLoading>>
  BY DEF DropOldPreview, LoaderAt
<1>2. PICK p, o, x : p = "put" /\ o = ldr[l].offset /\ x = LdrAt(l, p, o)
  OBVIOUS
<1>3. Busy(l)
  BY <1>1 DEF Busy
<1>4. ldr[l].kind = "saved" /\ o \in 0..1 /\ o \in 0..Batches
  BY <1>1, <1>2, <1>3, LoaderIs
<1>5. LdrTypes' /\ LdrNow(l, x)
  BY <1>1, <1>2, <1>4, LdrMoves DEF TabInv, TabTypes
<1>6. x.pc = "put" /\ x.kind = "saved" /\ x.offset = o /\ x.id = ldr[l].id /\ x.file = ldr[l].file
  BY <1>2, <1>4, LdrAtIs
<1>7. ChanTypes' /\ previewLoaded' \in Nat /\ previewLoading' \in BOOLEAN
  BY <1>1 DEF TabInv, TabTypes, ChanTypes, PaneTypes
<1>8. UNCHANGED <<ui, reqID, requesting, base, shown, overtaken, respFile, previewEnabled, editor>>
  BY <1>1 DEF ldrOnly, reqVars, exVars
<1>9. Named' /\ Alone'
  <2>1. Alone'
    BY <1>1, <1>3, <1>5, <1>6, LoaderGoes
  <2>2. Named'
    BY <1>1, <1>3, <1>5, <1>6, LoaderGoes
  <2> QED
    BY <2>1, <2>2
<1>10. Exact'
  <2>1. SUFFICES ASSUME Accepted PROVE Counts'
    BY <1>8 DEF Exact, Accepted, InFrame
  <2>2. /\ Counts /\ previewEnabled
        /\ \A m \in Loaders \ {l} : ldr[m].pc = "none" /\ ldr[m].kind = "more"
    BY <1>3, <2>1, OnlyOne
  <2>3. PICK k \in Nat : /\ WillShow(appendChan, reqID, respFile, editor, k)
                         /\ previewLoaded = k + (IF ldr[l].pc = "send" THEN 1 ELSE 0)
    BY <2>2, OneCounts
  <2>4. /\ WillShow(appendChan, reqID, respFile, editor, k)' /\ previewLoaded' = k + 0 /\ previewEnabled'
    BY <1>1, <1>8, <2>2, <2>3
  <2>5. previewLoaded' = 0
    BY <1>1, <1>4, <2>2 DEF Counts
  <2> QED
    BY <1>1, <1>5, <1>6, <2>2, <2>4, <2>5, CountsOne
<1> QED
  BY <1>1, <1>5, <1>7, <1>9, <1>10, LoaderRest

LEMMA PutPreviewKept == ASSUME TabInv, NEW l \in Loaders, PutPreview(l) PROVE TabInv'
<1>1. /\ ldr[l].pc = "put" /\ previewChan = <<>>
      /\ previewChan' = <<[id |-> ldr[l].id, file |-> ldr[l].file, loaded |-> ldr[l].offset]>>
      /\ ldr' = [ldr EXCEPT ![l] = NoLoader]
      /\ UNCHANGED <<ldrOnly, appendChan, previewLoaded, previewLoading>>
  BY DEF PutPreview
<1>2. PICK x, pr : x = NoLoader /\ pr = [id |-> ldr[l].id, file |-> ldr[l].file, loaded |-> ldr[l].offset]
  OBVIOUS
<1>3. x.pc = "none" /\ x.kind = "more" /\ IsLoader(x)
  BY <1>2, NoLoaderIs
<1>4. LdrTypes' /\ LdrNow(l, x)
  BY <1>1, <1>2, <1>3, LdrIsNow DEF TabInv, TabTypes
<1>5. Busy(l)
  BY <1>1 DEF Busy
<1>6. pr.id = ldr[l].id /\ pr.file = ldr[l].file /\ pr.loaded = ldr[l].offset /\ ldr[l].kind = "saved" /\ IsPreview(pr)
  <2>1. pr.id = ldr[l].id /\ pr.file = ldr[l].file /\ pr.loaded = ldr[l].offset
    BY <1>2
  <2> QED
    BY <1>1, <1>5, <2>1, LoaderIs DEF IsPreview
<1>7. previewChan' = <<pr>> /\ previewChan' # <<>> /\ previewChan'[1] = pr
  BY <1>1, <1>2
<1>8. ChanTypes' /\ previewLoaded' \in Nat /\ previewLoading' \in BOOLEAN
  BY <1>1, <1>6, <1>7 DEF TabInv, TabTypes, ChanTypes, PaneTypes
<1>9. UNCHANGED <<ui, reqID, requesting, base, shown, overtaken, respFile, previewEnabled, editor>>
  BY <1>1 DEF ldrOnly, reqVars, exVars
<1>10. \A m \in Loaders : Busy(m)' => m # l /\ Busy(m) /\ ldr'[m] = ldr[m]
  <2>1. ~Busy(l)'
    BY <1>3, <1>4 DEF LdrNow, Busy
  <2> QED
    BY <1>4, <2>1 DEF LdrNow, Busy
<1>11. Named'
  BY <1>1, <1>5, <1>6, <1>7, <1>9, <1>10 DEF TabInv, Named
<1>12. Alone'
  <2>1. ASSUME ~overtaken
        PROVE  /\ previewLoading /\ ~Beginning
               /\ shown = 0 /\ ui # "closed" => respFile # 0
               /\ \A m \in Loaders : ~Busy(m)'
    BY <1>5, <1>10, <2>1 DEF TabInv, Alone
  <2> QED
    BY <1>1, <1>9, <2>1 DEF Alone, InFrame, Beginning
<1>13. Exact'
  <2>1. SUFFICES ASSUME Accepted PROVE Counts'
    BY <1>9 DEF Exact, Accepted, InFrame
  <2>2. /\ Counts /\ previewEnabled
        /\ \A m \in Loaders \ {l} : ldr[m].pc = "none" /\ ldr[m].kind = "more"
    BY <1>5, <2>1, OnlyOne
  <2>3. PICK k \in Nat : /\ WillShow(appendChan, reqID, respFile, editor, k)
                         /\ previewLoaded = k + (IF ldr[l].pc = "send" THEN 1 ELSE 0)
    BY <2>2, OneCounts
  <2>4. /\ WillShow(appendChan, reqID, respFile, editor, k)' /\ previewLoaded' = k + 0 /\ previewEnabled'
    BY <1>1, <1>9, <2>2, <2>3
  <2>5. previewLoaded' = 0
    BY <1>1, <1>6, <2>2 DEF Counts
  <2> QED
    BY <1>3, <1>4, <2>2, <2>4, <2>5, CountsOne
<1> QED
  BY <1>1, <1>4, <1>8, <1>11, <1>12, <1>13, LoaderRest
-----------------------------------------------------------------------------
(* The invariant holds, and says what TabSound says.                       *)

LEMMA TabInvInit == Init => TabInv
<1> SUFFICES ASSUME Init PROVE TabInv
  OBVIOUS
<1>1. /\ session \in Sessions /\ ui = "app" /\ mode = "view" /\ reqID = 0 /\ requesting = FALSE /\ cancelFn = 0
      /\ closed = FALSE /\ respChan = <<>> /\ previewChan = <<>> /\ appendChan = <<>> /\ respFile = 0 /\ respSize = 0
      /\ previewLoaded = 0 /\ previewLoading = FALSE /\ previewEnabled = TRUE /\ editor = <<>>
      /\ shown = 0 /\ overtaken = FALSE /\ cancelled = {} /\ files = {}
  BY DEF Init
<1>2. InFrame /\ ~Beginning
  BY <1>1 DEF InFrame, Beginning
<1>3. base.valid = FALSE /\ IsBase(base)
  <2>1. PICK e, v, b : e \in BOOLEAN /\ v \in BOOLEAN /\ e = TRUE /\ v = FALSE /\ b = base
    OBVIOUS
  <2>2. b = [valid |-> v, file |-> 0, size |-> 0, loaded |-> 0, enabled |-> e, text |-> <<>>]
    BY <2>1 DEF Init, NoBase
  <2>3. b.valid = v /\ b.file = 0 /\ b.size = 0 /\ b.loaded = 0 /\ b.enabled = e /\ b.text = <<>>
    BY <2>2
  <2>4. <<>> \in Seq(Pieces) /\ 0 \in 0..MaxReq /\ 0 \in 0..Batches
    BY ZeroIsNoRequest
  <2>5. IsBase(b)
    BY <2>1, <2>3, <2>4 DEF IsBase
  <2> QED
    BY <2>1, <2>3, <2>5
<1>4. SndTypes /\ \A r \in Reqs : snd[r].pc = "none" /\ ~snd[r].ok
  <2>1. PICK x, o : o \in BOOLEAN /\ x = NoSender /\ o = FALSE
    OBVIOUS
  <2>2. x = [pc |-> "none", mode |-> "view", ok |-> o]
    BY <2>1 DEF NoSender
  <2>3. x.pc = "none" /\ x.mode = "view" /\ x.ok = o
    BY <2>2
  <2>4. IsSender(x)
    <3>1. PICK p, m : p = "none" /\ m = "view"
      OBVIOUS
    <3>2. x.pc = p /\ x.mode = m /\ x.ok = o /\ x = [pc |-> p, mode |-> m, ok |-> o]
      BY <2>2, <3>1
    <3>3. x = [pc |-> x.pc, mode |-> x.mode, ok |-> x.ok]
      BY <3>2
    <3>4. x.pc \in {"none", "do", "stream", "streamed", "answer", "locked", "exit", "done"}
          /\ x.mode \in {"view", "file"} /\ x.ok \in BOOLEAN
      BY <2>1, <2>3
    <3> QED
      BY <3>3, <3>4 DEF IsSender
  <2>5. snd = [r \in Reqs |-> x]
    BY <2>1 DEF Init
  <2> QED
    BY <2>1, <2>3, <2>4, <2>5 DEF SndTypes
<1>5. LdrTypes /\ \A l \in Loaders : ~Busy(l) /\ ldr[l].kind = "more"
  <2>1. PICK x : x = NoLoader
    OBVIOUS
  <2>2. IsLoader(x) /\ x.pc = "none" /\ x.kind = "more"
    BY <2>1, NoLoaderIs
  <2>3. ldr = [l \in Loaders |-> x]
    BY <2>1 DEF Init
  <2> QED
    BY <2>2, <2>3 DEF LdrTypes, Busy
<1>6. TabTypes
  <2>1. 0 \in 0..MaxReq /\ 0 \in 0..Batches /\ <<>> \in Seq(Pieces) /\ <<>> \in Seq(Chunks) /\ Len(<<>>) = 0
    BY ZeroIsNoRequest
  <2>2. PlainTypes
    BY <1>1, <2>1 DEF PlainTypes
  <2>3. PaneTypes
    BY <1>1, <1>3, <2>1 DEF PaneTypes
  <2>4. ChanTypes
    BY <1>1, <2>1, BoundsAssumption DEF ChanTypes
  <2> QED
    BY <1>4, <1>5, <2>2, <2>3, <2>4 DEF TabTypes
<1>7. Queued = {}
  BY <1>1, QueueIs
<1>8. Senders /\ Answers1 /\ AnswerOnItsWay
  BY <1>1, <1>2, <1>4 DEF Senders, Answers1, AnswerOnItsWay
<1>9. Held /\ Apart /\ Fetched
  BY <1>1, <1>3, <1>4, <1>7 DEF Held, Apart, Fetched
<1>10. Named /\ Cleared /\ Alone
  BY <1>1, <1>2, <1>3, <1>5 DEF Named, Cleared, Alone
<1>11. Pane /\ Exact
  BY <1>1, ZeroIsNoRequest DEF Pane, Exact, Accepted
<1> QED
  BY <1>6, <1>8, <1>9, <1>10, <1>11 DEF TabInv

LEMMA TabStutters == ASSUME TabInv, UNCHANGED vars PROVE TabInv'
<1>1. UNCHANGED <<ui, mode, reqID, requesting, cancelFn, closed, session, base, shown, overtaken, respChan, previewChan,
                  appendChan, respFile, respSize, previewLoaded, previewEnabled, editor, previewLoading, snd, cancelled,
                  files, ldr>>
  BY DEF vars, reqVars, exVars, chanVars, paneVars
<1>2. UiGoesOn
  BY <1>1 DEF UiGoesOn, InFrame, Beginning
<1>3. TabTypes'
  BY <1>1 DEF TabInv, TabTypes, PlainTypes, PaneTypes, ChanTypes, SndTypes, LdrTypes
<1>4. Senders' /\ Answers1' /\ AnswerOnItsWay'
  BY <1>1, <1>2, SendersKept, AnswersKept, OnItsWayKept DEF TabInv
<1>5. Held' /\ Apart' /\ Fetched'
  BY <1>1, HeldKept, FetchedKept DEF TabInv
<1>6. Named' /\ Cleared' /\ Pane'
  BY <1>1, <1>2, NamedKept, ClearedKept, PaneKept DEF TabInv
<1>7. Alone' /\ Exact'
  BY <1>1, <1>2, AloneKept, ExactKept DEF TabInv
<1> QED
  BY <1>3, <1>4, <1>5, <1>6, <1>7 DEF TabInv

LEMMA BeginStepKept == ASSUME TabInv, BeginStep PROVE TabInv'
  BY BeginRequestKept, BeginDrainKept, BeginCleanKept, StartSenderKept DEF BeginStep

LEMMA TabFrameKept == ASSUME TabInv, TabFrame PROVE TabInv'
<1>1. CASE CancelRequest \/ NoClick \/ NoMoreChunks \/ EndFrame
  BY <1>1, IdleKept
<1>2. CASE TakeChunk
  BY <1>2, TakeChunkKept
<1>3. CASE TakeResponse
  BY <1>3, TakeResponseKept
<1>4. CASE TakePreview
  BY <1>4, TakePreviewKept
<1>5. CASE \E l \in Loaders : LoadPreviewForSavedFile(l)
  BY <1>5, LoadPreviewKept
<1>6. CASE \E l \in Loaders : LoadMorePreview(l)
  BY <1>6, LoadMoreKept
<1>7. CASE ShowExample
  BY <1>7, ShowExampleKept
<1>8. CASE RestoreBaseState
  BY <1>8, RestoreBaseStateKept
<1> QED
  BY <1>1, <1>2, <1>3, <1>4, <1>5, <1>6, <1>7, <1>8 DEF TabFrame

LEMMA SenderKept == ASSUME TabInv, NEW r \in Reqs, SenderStep(r) \/ FetchStep(r) PROVE TabInv'
<1>1. CASE SenderStep(r)
  BY <1>1, SendRefusedKept, SendCheckedKept, SendStoredKept, SenderExitsKept DEF SenderStep
<1>2. CASE FetchStep(r)
  BY <1>2, DoFailsKept, DoSucceedsKept, StreamChunkKept, StreamFailsKept, StreamEndsKept DEF FetchStep
<1> QED
  BY <1>1, <1>2

LEMMA LoaderKept == ASSUME TabInv, NEW l \in Loaders, LoaderStep(l) PROVE TabInv'
<1>1. CASE ReadBatch(l) \/ AddLoaded(l) \/ StreamToEditor(l) \/ ReleaseLoader(l)
  BY <1>1, ReadBatchKept, AddLoadedKept, StreamToEditorKept, ReleaseLoaderKept
<1>2. CASE ReadSaved(l) \/ DropOldPreview(l) \/ PutPreview(l)
  BY <1>2, ReadSavedKept, DropOldPreviewKept, PutPreviewKept
<1> QED
  BY <1>1, <1>2 DEF LoaderStep

LEMMA TabInvNext == TabInv /\ [TabNext]_tabVars => TabInv'
<1> SUFFICES ASSUME TabInv, [TabNext]_tabVars PROVE TabInv'
  OBVIOUS
<1>1. CASE SendOnce
  BY <1>1, BeginStepKept, TabFrameKept DEF SendOnce
<1>2. CASE CloseTab
  BY <1>2, MarkClosedKept DEF CloseTab
<1>3. CASE \E r \in Reqs : SenderStep(r) \/ FetchStep(r)
  BY <1>3, SenderKept
<1>4. CASE \E l \in Loaders : LoaderStep(l)
  BY <1>4, LoaderKept
<1>5. CASE SendMany \/ (RunnerStep /\ UNCHANGED vars) \/ UNCHANGED tabVars
  <2>1. UNCHANGED vars
    BY <1>5 DEF SendMany, tabVars
  <2> QED
    BY <2>1, TabStutters
<1> QED
  BY <1>1, <1>2, <1>3, <1>4, <1>5 DEF TabNext

LEMMA TabInvTypes == TabInv => TypeOK
<1> SUFFICES ASSUME TabInv PROVE TypeOK
  OBVIOUS
<1>1. PlainTypes /\ PaneTypes /\ ChanTypes /\ SndTypes /\ LdrTypes
  BY DEF TabInv, TabTypes
<1>2. Len(respChan) <= 1
  <2>1. ASSUME NEW x, respChan = <<x>> PROVE Len(respChan) <= 1
    BY <2>1
  <2> QED
    BY <2>1 DEF TabInv, Answers1
<1>3. Len(previewChan) <= 1 /\ Len(appendChan) <= ChanCap
  <2>1. ASSUME NEW x, previewChan = <<x>> PROVE Len(previewChan) <= 1
    BY <2>1
  <2> QED
    BY <1>1, <2>1 DEF ChanTypes
<1>4. \A i \in DOMAIN appendChan : appendChan[i] \in [id : 0..MaxReq, text : Pieces]
  <2>1. appendChan \in [1..Len(appendChan) -> Chunks]
    BY <1>1, LenProperties DEF ChanTypes
  <2> QED
    BY <2>1 DEF Chunks
<1>5. \A i \in DOMAIN editor : editor[i] \in Pieces
  <2>1. editor \in [1..Len(editor) -> Pieces]
    BY <1>1, LenProperties DEF PaneTypes
  <2> QED
    BY <2>1
<1>6. snd \in [Reqs -> [pc : {"none", "do", "stream", "streamed", "answer", "locked", "exit", "done"},
                        mode : {"view", "file"}, ok : BOOLEAN]]
  <2>1. ASSUME NEW x, IsSender(x)
        PROVE  x \in [pc : {"none", "do", "stream", "streamed", "answer", "locked", "exit", "done"},
                      mode : {"view", "file"}, ok : BOOLEAN]
    BY <2>1 DEF IsSender
  <2> QED
    BY <1>1, <2>1 DEF SndTypes
<1>7. ldr \in [Loaders -> [pc : {"none", "read", "add", "send", "release", "replace", "put"},
                           kind : {"more", "saved"}, file : 0..MaxReq, offset : 0..Batches, id : 0..MaxReq]]
  <2>1. ASSUME NEW x, IsLoader(x)
        PROVE  x \in [pc : {"none", "read", "add", "send", "release", "replace", "put"},
                      kind : {"more", "saved"}, file : 0..MaxReq, offset : 0..Batches, id : 0..MaxReq]
    <3>1. x.pc \in {"none", "read", "add", "send", "release", "replace", "put"} /\ x.kind \in {"more", "saved"}
      BY <2>1 DEF IsLoader
    <3> QED
      BY <2>1, <3>1 DEF IsLoader
  <2> QED
    BY <1>1, <2>1 DEF LdrTypes
<1> QED
  BY <1>1, <1>2, <1>3, <1>4, <1>5, <1>6, <1>7 DEF TypeOK, PlainTypes, PaneTypes

LEMMA TabInvExact == TabInv => TabExact
<1> SUFFICES ASSUME TabInv PROVE TabExact
  OBVIOUS
<1>1. NothingLost
  BY DEF TabInv, NothingLost, ShownFileExists, Held, Delivered
<1>2. PaneIsCurrent
  <2>1. DOMAIN editor = 1..Len(editor)
    BY LenProperties DEF TabInv, TabTypes, PaneTypes
  <2> QED
    BY <2>1 DEF TabInv, Pane, PaneIsCurrent
<1>3. OneLoader
  BY DEF TabInv, Alone, OneLoader, Busy
<1>4. ASSUME Accepted, appendChan = <<>>, \A l \in Loaders : ldr[l].pc = "none"
      PROVE  editor = [b \in 1..previewLoaded |-> Piece(respFile, b)]
  <2>1. PICK k \in Nat : /\ WillShow(appendChan, reqID, respFile, editor, k)
                         /\ previewLoaded = k + (IF \E l \in Loaders : ldr[l].pc = "send" THEN 1 ELSE 0)
    BY <1>4 DEF TabInv, Exact, Counts
  <2>2. ~\E l \in Loaders : ldr[l].pc = "send"
    BY <1>4
  <2>3. previewLoaded = k
    BY <2>1, <2>2
  <2>4. Prefix(editor, respFile, k)
    BY <1>4, <2>1, ShowsOfNothing
  <2> QED
    BY <2>3, <2>4 DEF Prefix
<1>5. PreviewExact
  BY <1>3, <1>4 DEF PreviewExact, Accepted
<1> QED
  BY <1>1, <1>2, <1>5 DEF TabExact, PaneExact

\* A tab loses nothing of its current request and shows nothing else: while it waits, the
\* answer is on its way; the file it shows exists; the pane holds an exact prefix of the
\* response; and the table of a run is that of its requests (http.go, preview.go, tab.go
\* and runner.go, with every goroutine that requests, batches and runs leave behind).
THEOREM TabSoundAlways == TabSpec => []TabSound
<1>1. TabInit => TabInv /\ RunInv
  BY TabInvInit, RunInvInit DEF TabInit
<1>2. TabInv /\ RunInv /\ [TabNext]_tabVars => TabInv' /\ RunInv'
  BY TabInvNext, RunInvNext, TabNextRuns
<1>3. TabInv /\ RunInv => TabSound
  BY TabInvTypes, TabInvExact, RunInvExact DEF TabSound
<1> QED
  BY <1>1, <1>2, <1>3, PTL DEF TabSpec
=============================================================================
