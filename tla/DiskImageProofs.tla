--------------------------- MODULE DiskImageProofs ---------------------------
(***************************************************************************)
(* A disk image keeps what it promises, for every disk, every way to split *)
(* a request into iovecs and every place where the host stops short: the   *)
(* cache of tables is sound, what a read returns was read, and each step   *)
(* of DiskImage is a step of DiskService.                                  *)
(***************************************************************************)
EXTENDS DiskImage, SequenceTheorems, WellFoundedInduction, TLAPS

(***************************************************************************)
(* The iovecs of a request                                                 *)
(***************************************************************************)

LEMMA FunctionSeq ==
    ASSUME NEW S, NEW n \in Nat, NEW f \in [1 .. n -> S]
    PROVE  f \in Seq(S) /\ Len(f) = n
  OBVIOUS

\* An iovec starts where the one before it ends, and all end within the request.
LEMMA IovsEnd ==
    ASSUME NEW ends \in Iovs
    PROVE  /\ ends \in Seq(1 .. MaxSize) /\ Len(ends) \in Nat \ {0}
           /\ Last(ends) \in 1 .. MaxSize /\ StartIn(ends, Len(ends) + 1) = Last(ends)
           /\ \A j \in 1 .. Len(ends) :
                  /\ StartIn(ends, j) \in Nat /\ StartIn(ends, j) < ends[j]
                  /\ ends[j] \in 1 .. Last(ends) /\ StartIn(ends, j + 1) = ends[j]
                  /\ ends[j] - StartIn(ends, j) \in Lens
  <1>0. ends \in UNION {[1 .. n -> 1 .. MaxSize] : n \in 1 .. MaxIovs}
    BY Zenon DEF Iovs
  <1>1. PICK n \in 1 .. MaxIovs : ends \in [1 .. n -> 1 .. MaxSize]
    BY <1>0
  <1>2. \A j \in DOMAIN ends : ends[j] - StartIn(ends, j) \in Lens
    BY DEF Iovs
  <1>3. n \in Nat \ {0}
    BY <1>1, ImageAssumption
  <1>4. ends \in Seq(1 .. MaxSize) /\ Len(ends) = n
    BY <1>1, <1>3, FunctionSeq
  <1>5. \A j \in 1 .. n : ends[j] \in Nat /\ ends[j] \in 1 .. MaxSize
    BY <1>1, ImageAssumption
  <1>6. ASSUME NEW j \in 1 .. n
        PROVE  /\ StartIn(ends, j) \in Nat /\ StartIn(ends, j) < ends[j]
               /\ StartIn(ends, j + 1) = ends[j] /\ ends[j] - StartIn(ends, j) \in Lens
    <2>1. StartIn(ends, j) \in Nat /\ StartIn(ends, j + 1) = ends[j]
      BY <1>5, <1>3 DEF StartIn
    <2>2. ends[j] - StartIn(ends, j) \in Lens
      BY <1>1, <1>2
    <2>3. ends[j] - StartIn(ends, j) \in Nat \ {0}
      BY <2>2, ImageAssumption
    <2> QED
      BY <1>5, <2>1, <2>2, <2>3
  <1>7. ASSUME NEW j \in 1 .. n PROVE ends[j] <= ends[n]
    <2> DEFINE S == {m \in 0 .. n - 1 : ~ (ends[n - m] <= ends[n])}
               R == OpToRel(<, Nat)
    <2>1. SUFFICES ASSUME S # {} PROVE FALSE
      <3>1. n - j \in 0 .. n - 1 /\ n - (n - j) = j
        BY <1>3
      <3> QED
        BY <3>1
    <2>2. IsWellFoundedOn(R, Nat)
      BY NatLessThanWellFounded, Zenon
    <2>3. \A x, y \in Nat : <<y, x>> \in R <=> y < x
      BY DEF OpToRel
    <2>4. S \subseteq Nat
      OBVIOUS
    <2> HIDE DEF R
    <2>5. PICK m \in S : \A y \in S : ~ (<<y, m>> \in R)
      BY <2>1, <2>2, <2>4, WFMin
    <2>6. m \in 1 .. n - 1
      BY <1>3, <1>5, <2>5
    <2>7. m - 1 \in 0 .. n - 1 /\ m - 1 < m /\ m - 1 \in Nat /\ m \in Nat
      BY <1>3, <2>6
    <2>8. <<m - 1, m>> \in R
      BY <2>3, <2>7
    <2>9. ends[n - (m - 1)] <= ends[n]
      BY <2>5, <2>7, <2>8
    <2>10. StartIn(ends, n - (m - 1)) = ends[n - m]
      BY <1>3, <2>6 DEF StartIn
    <2>11. ends[n - m] < ends[n - (m - 1)]
      BY <1>3, <1>6, <2>6, <2>10
    <2>12. ends[n - m] \in Nat /\ ends[n - (m - 1)] \in Nat /\ ends[n] \in Nat
      BY <1>3, <1>5, <2>6
    <2> QED
      BY <2>5, <2>9, <2>11, <2>12
  <1>8. Last(ends) = ends[n]
    BY <1>4 DEF Last
  <1>9. StartIn(ends, n + 1) = ends[n]
    BY <1>3 DEF StartIn
  <1>10. Last(ends) \in 1 .. MaxSize
    BY <1>3, <1>5, <1>8
  <1>11. \A j \in 1 .. n : ends[j] \in 1 .. Last(ends)
    BY <1>5, <1>7, <1>8, <1>10, <1>3
  <1> QED
    BY <1>3, <1>4, <1>6, <1>8, <1>9, <1>10, <1>11

(***************************************************************************)
(* The cache of level 2 tables                                             *)
(***************************************************************************)

Nodes == [offset : Nat, table : [1 .. L2Entries -> Nat]]

\* Every table in c is the one on disk, and is there once.
Sound(c) ==
    /\ \A i \in DOMAIN c : c[i].table = L2[c[i].offset]
    /\ \A i, j \in DOMAIN c : c[i].offset = c[j].offset => i = j

\* Using a table moves it to the end and the ones behind it up.
LEMMA SearchMoves ==
    ASSUME NEW c \in Seq(Nodes), NEW i \in 1 .. Len(c)
    PROVE  /\ l2_table_search(c, i) \in Seq(Nodes)
           /\ Len(l2_table_search(c, i)) = Len(c)
           /\ \A j \in 1 .. Len(c) :
                  l2_table_search(c, i)[j] =
                      IF j < i THEN c[j] ELSE IF j < Len(c) THEN c[j + 1] ELSE c[i]
  <1> DEFINE n == Len(c)
             a == SubSeq(c, 1, i - 1)
             b == SubSeq(c, i + 1, n)
  <1>1. n \in Nat /\ i \in 1 .. n
    OBVIOUS
  <1>2. \A j \in 1 .. n : c[j] \in Nodes
    BY ElementOfSeq
  <1>3. /\ a \in Seq(Nodes) /\ Len(a) = i - 1
        /\ \A j \in 1 .. i - 1 : a[j] = c[j]
    <2>1. \A j \in 1 .. i - 1 : c[j] \in Nodes
      BY <1>1, <1>2
    <2>2. /\ a \in Seq(Nodes) /\ Len(a) = IF 1 <= i - 1 THEN (i - 1) - 1 + 1 ELSE 0
          /\ \A j \in 1 .. (i - 1) - 1 + 1 : a[j] = c[1 + j - 1]
      BY <1>1, <2>1, SubSeqProperties
    <2> QED
      BY <1>1, <2>2
  <1>4. /\ b \in Seq(Nodes) /\ Len(b) = n - i
        /\ \A j \in 1 .. n - i : b[j] = c[i + j]
    <2>1. \A j \in i + 1 .. n : c[j] \in Nodes
      BY <1>1, <1>2
    <2>2. /\ b \in Seq(Nodes) /\ Len(b) = IF i + 1 <= n THEN n - (i + 1) + 1 ELSE 0
          /\ \A j \in 1 .. n - (i + 1) + 1 : b[j] = c[(i + 1) + j - 1]
      BY <1>1, <2>1, SubSeqProperties
    <2> QED
      BY <1>1, <2>2
  <1> DEFINE d == a \o b
  <1> HIDE DEF a, b, n
  <1>5. /\ d \in Seq(Nodes) /\ Len(d) = Len(a) + Len(b)
        /\ \A j \in 1 .. Len(a) + Len(b) : d[j] = IF j <= Len(a) THEN a[j] ELSE b[j - Len(a)]
    BY <1>3, <1>4, ConcatProperties
  <1>6. Len(d) = n - 1
    BY <1>1, <1>3, <1>4, <1>5
  <1>7. ASSUME NEW j \in 1 .. n - 1 PROVE d[j] = IF j < i THEN c[j] ELSE c[j + 1]
    <2>1. d[j] = IF j <= i - 1 THEN a[j] ELSE b[j - (i - 1)]
      BY <1>1, <1>3, <1>4, <1>5
    <2>2. CASE j < i
      BY <1>1, <1>3, <2>1, <2>2
    <2>3. CASE ~ (j < i)
      <3>1. j - (i - 1) \in 1 .. n - i /\ i + (j - (i - 1)) = j + 1
        BY <1>1, <2>3
      <3> QED
        BY <1>1, <1>4, <2>1, <2>3, <3>1
    <2> QED
      BY <2>2, <2>3
  <1> HIDE DEF d
  <1> DEFINE e == Append(d, c[i])
  <1>8. c[i] \in Nodes
    BY <1>1, <1>2
  <1>9. /\ e \in Seq(Nodes) /\ Len(e) = n
        /\ e[n] = c[i] /\ \A j \in 1 .. n - 1 : e[j] = d[j]
    BY <1>1, <1>5, <1>6, <1>8
  <1>10. l2_table_search(c, i) = e
    BY DEF l2_table_search, RemoveAt, n, a, b, d
  <1> HIDE DEF e
  <1>11. \A j \in 1 .. n : e[j] = IF j < i THEN c[j] ELSE IF j < n THEN c[j + 1] ELSE c[i]
    BY <1>1, <1>7, <1>9
  <1> QED
    BY <1>9, <1>10, <1>11 DEF n

\* Caching a table drops none or the first, and puts it at the end.
LEMMA CachingDrops ==
    ASSUME NEW c \in Seq(Nodes), Len(c) <= MaxCacheNodes, NEW x \in Nodes
    PROVE  \E k \in {0, 1} :
               /\ cache_table(c, x) \in Seq(Nodes)
               /\ Len(cache_table(c, x)) = Len(c) - k + 1
               /\ Len(c) - k \in 0 .. MaxCacheNodes - 1
               /\ \A j \in 1 .. Len(c) - k : cache_table(c, x)[j] = c[j + k]
               /\ cache_table(c, x)[Len(c) - k + 1] = x
  <1> DEFINE m == MaxCacheNodes
             n == Len(c)
  <1>1. m \in Nat \ {0} /\ n \in Nat /\ n <= m
    BY QcowAssumption
  <1>2. CASE n = m
    <2> DEFINE t == Tail(c)
    <2>1. c # <<>>
      BY <1>1, <1>2
    <2>2. /\ t \in Seq(Nodes) /\ Len(t) = n - 1
          /\ \A j \in 1 .. n - 1 : t[j] = c[j + 1]
      BY <2>1, HeadTailProperties
    <2>3. cache_table(c, x) = Append(t, x)
      BY <1>2 DEF cache_table
    <2> HIDE DEF t
    <2>4. /\ Append(t, x) \in Seq(Nodes) /\ Len(Append(t, x)) = n
          /\ Append(t, x)[n] = x /\ \A j \in 1 .. n - 1 : Append(t, x)[j] = t[j]
      BY <1>1, <2>2
    <2> HIDE DEF n, m
    <2>5. /\ n - 1 + 1 = n /\ n - 1 \in 0 .. m - 1
      BY <1>1, <1>2
    <2> QED
      BY <2>2, <2>3, <2>4, <2>5 DEF n, m
  <1>3. CASE n # m
    <2>1. cache_table(c, x) = Append(c, x)
      BY <1>3 DEF cache_table
    <2>2. /\ Append(c, x) \in Seq(Nodes) /\ Len(Append(c, x)) = n + 1
          /\ Append(c, x)[n + 1] = x /\ \A j \in 1 .. n : Append(c, x)[j] = c[j]
      BY <1>1
    <2> HIDE DEF n, m
    <2>3. n - 0 = n /\ n \in 0 .. m - 1 /\ \A j \in 1 .. n : j + 0 = j
      BY <1>1, <1>3
    <2> QED
      BY <2>1, <2>2, <2>3 DEF n, m
  <1> QED
    BY <1>2, <1>3

\* Both keep the cache sound.
LEMMA SearchSound ==
    ASSUME NEW c \in Seq(Nodes), NEW i \in 1 .. Len(c), Sound(c)
    PROVE  Sound(l2_table_search(c, i))
  <1> DEFINE d == l2_table_search(c, i)
             n == Len(c)
             At1(j) == IF j < i THEN j ELSE IF j < n THEN j + 1 ELSE i
  <1>1. n \in Nat /\ i \in 1 .. n /\ DOMAIN c = 1 .. n
    OBVIOUS
  <1>2. DOMAIN d = 1 .. n /\ \A j \in 1 .. n : d[j] = c[At1(j)]
    <2>1. d \in Seq(Nodes) /\ Len(d) = n
      BY SearchMoves
    <2>2. \A j \in 1 .. n : d[j] = IF j < i THEN c[j] ELSE IF j < n THEN c[j + 1] ELSE c[i]
      BY SearchMoves
    <2> HIDE DEF d
    <2>3. DOMAIN d = 1 .. n
      BY <2>1
    <2>4. ASSUME NEW j \in 1 .. n PROVE d[j] = c[At1(j)]
      <3>1. CASE j < i
        BY <2>2, <3>1
      <3>2. CASE ~ (j < i) /\ j < n
        BY <2>2, <3>2
      <3>3. CASE ~ (j < i) /\ ~ (j < n)
        BY <2>2, <3>3
      <3> QED
        BY <3>1, <3>2, <3>3
    <2> QED
      BY <2>3, <2>4
  <1>3. \A j \in 1 .. n : At1(j) \in 1 .. n
    BY <1>1
  <1>4. \A j, k \in 1 .. n : At1(j) = At1(k) => j = k
    BY <1>1
  <1> HIDE DEF d, At1, n
  <1>5. ASSUME NEW j \in 1 .. n PROVE d[j].table = L2[d[j].offset]
    <2>1. At1(j) \in DOMAIN c
      BY <1>1, <1>3
    <2>2. c[At1(j)].table = L2[c[At1(j)].offset]
      BY <2>1 DEF Sound
    <2> QED
      BY <1>2, <2>2
  <1>6. ASSUME NEW j \in 1 .. n, NEW k \in 1 .. n, d[j].offset = d[k].offset
        PROVE  j = k
    <2>1. At1(j) \in DOMAIN c /\ At1(k) \in DOMAIN c
      BY <1>1, <1>3
    <2>2. c[At1(j)].offset = c[At1(k)].offset
      BY <1>2, <1>6
    <2>3. At1(j) = At1(k)
      BY <2>1, <2>2 DEF Sound
    <2> QED
      BY <1>4, <2>3
  <1> QED
    BY <1>2, <1>5, <1>6 DEF Sound, d

LEMMA CachingSound ==
    ASSUME NEW c \in Seq(Nodes), Len(c) <= MaxCacheNodes, Sound(c),
           NEW x \in Nodes, x.table = L2[x.offset], cached(c, x.offset) = {}
    PROVE  Sound(cache_table(c, x))
  <1> DEFINE d == cache_table(c, x)
  <1>1. PICK k \in {0, 1} :
            /\ d \in Seq(Nodes) /\ Len(d) = Len(c) - k + 1
            /\ Len(c) - k \in 0 .. MaxCacheNodes - 1
            /\ \A j \in 1 .. Len(c) - k : d[j] = c[j + k]
            /\ d[Len(c) - k + 1] = x
    BY CachingDrops
  <1>2. PICK n \in Nat : n = Len(c) - k
    <2>1. Len(c) - k \in Nat
      BY <1>1, QcowAssumption
    <2> QED
      BY <2>1
  <1>3. Len(c) \in Nat /\ DOMAIN c = 1 .. Len(c) /\ Len(c) = n + k
    BY <1>2
  <1> HIDE DEF d
  <1>4. DOMAIN d = 1 .. n + 1
    <2>1. Len(d) = n + 1 /\ d \in Seq(Nodes)
      BY <1>1, <1>2
    <2> QED
      BY <2>1
  <1>5. /\ \A j \in 1 .. n : j + k \in DOMAIN c /\ d[j] = c[j + k]
        /\ d[n + 1] = x
    BY <1>1, <1>2, <1>3
  <1>6. \A i \in DOMAIN c : c[i].offset # x.offset
    BY DEF cached
  <1>7. \A j \in 1 .. n + 1 : d[j].table = L2[d[j].offset]
    <2>1. ASSUME NEW j \in 1 .. n PROVE d[j].table = L2[d[j].offset]
      BY <1>5 DEF Sound
    <2> QED
      BY <1>2, <1>5, <2>1
  <1>8. ASSUME NEW j \in 1 .. n + 1, NEW l \in 1 .. n + 1, d[j].offset = d[l].offset
        PROVE  j = l
    <2>0. \A i \in 1 .. n : d[i].offset # d[n + 1].offset
      BY <1>5, <1>6
    <2>1. CASE j = n + 1
      <3>1. ~ (l \in 1 .. n)
        BY <1>8, <2>0, <2>1
      <3> QED
        BY <1>2, <2>1, <3>1
    <2>2. CASE l = n + 1
      <3>1. ~ (j \in 1 .. n)
        BY <1>8, <2>0, <2>2
      <3> QED
        BY <1>2, <2>2, <3>1
    <2>3. CASE j \in 1 .. n /\ l \in 1 .. n
      <3>1. j + k = l + k
        BY <1>5, <1>8, <2>3 DEF Sound
      <3> QED
        BY <1>2, <2>3, <3>1
    <2> QED
      BY <1>2, <2>1, <2>2, <2>3
  <1> QED
    BY <1>4, <1>7, <1>8 DEF Sound, d

(***************************************************************************)
(* Sectors and clusters                                                    *)
(***************************************************************************)

LEMMA Division ==
    ASSUME NEW a \in Nat, NEW d \in Nat \ {0}
    PROVE  a \div d \in Nat /\ (a % d) \in 0 .. d - 1 /\ a = (a \div d) * d + (a % d)
  <1>1. a = d * (a \div d) + (a % d)
    OBVIOUS
  <1>2. d * (a \div d) = (a \div d) * d
    OBVIOUS
  <1>3. a \div d \in Nat /\ (a % d) \in 0 .. d - 1
    OBVIOUS
  <1> QED
    BY <1>1, <1>2, <1>3

LEMMA Multiples ==
    ASSUME NEW q \in Nat, NEW p \in Nat, NEW d \in Nat \ {0}, q < p
    PROVE  q * d + d <= p * d
  <1>1. PICK k \in Nat : p = q + 1 + k
    <2>1. p - q - 1 \in Nat /\ p = q + 1 + (p - q - 1)
      OBVIOUS
    <2> QED
      BY <2>1
  <1>2. p * d = q * d + d + k * d
    BY <1>1
  <1>3. k * d \in Nat /\ q * d \in Nat
    OBVIOUS
  <1> QED
    BY <1>2, <1>3

LEMMA DivisionUnique ==
    ASSUME NEW q \in Nat, NEW d \in Nat \ {0}, NEW r \in 0 .. d - 1
    PROVE  (q * d + r) \div d = q /\ (q * d + r) % d = r
  <1> DEFINE a == q * d + r
             p == a \div d
             t == a % d
  <1>1. a \in Nat /\ q * d \in Nat
    OBVIOUS
  <1>2. p \in Nat /\ t \in 0 .. d - 1 /\ a = p * d + t
    BY <1>1, Division
  <1> HIDE DEF p, t
  <1>3. q * d + r = p * d + t
    BY <1>2
  <1>4. q * d \in Nat /\ p * d \in Nat
    BY <1>2
  <1>5. ~ (q < p)
    <2> SUFFICES ASSUME q < p PROVE FALSE
      OBVIOUS
    <2>1. q * d + d <= p * d
      BY <1>2, Multiples
    <2> QED
      BY <1>2, <1>3, <1>4, <2>1
  <1>6. ~ (p < q)
    <2> SUFFICES ASSUME p < q PROVE FALSE
      OBVIOUS
    <2>1. p * d + d <= q * d
      BY <1>2, Multiples
    <2> QED
      BY <1>2, <1>3, <1>4, <2>1
  <1>7. p = q
    BY <1>2, <1>5, <1>6
  <1>8. t = r
    BY <1>2, <1>3, <1>4, <1>7
  <1> QED
    BY <1>7, <1>8 DEF p, t

LEMMA WholeParts ==
    ASSUME NEW d \in Nat \ {0}, NEW q \in Nat
    PROVE  q * d \in Nat /\ (q * d) % d = 0 /\ (q * d) \div d = q
  <1>1. q * d \in Nat /\ 0 \in 0 .. d - 1
    OBVIOUS
  <1>2. (q * d + 0) \div d = q /\ (q * d + 0) % d = 0
    BY <1>1, DivisionUnique
  <1>3. q * d + 0 = q * d
    BY <1>1
  <1> QED
    BY <1>1, <1>2, <1>3

\* What is a multiple of d goes up and down by multiples of d.
LEMMA WholeSum ==
    ASSUME NEW d \in Nat \ {0}, NEW a \in Nat, NEW b \in Nat, a % d = 0, b % d = 0
    PROVE  /\ (a + b) % d = 0 /\ (a + b) \div d = a \div d + b \div d
           /\ (a \div d) * d = a
           /\ b <= a => (a - b) % d = 0
  <1> DEFINE x == a \div d
             y == b \div d
  <1>1. x \in Nat /\ y \in Nat /\ a = x * d /\ b = y * d
    <2>1. x \in Nat /\ a = x * d + (a % d)
      BY Division
    <2>2. y \in Nat /\ b = y * d + (b % d)
      BY Division
    <2>3. x * d \in Nat /\ y * d \in Nat
      BY <2>1, <2>2
    <2> QED
      BY <2>1, <2>2, <2>3
  <1> HIDE DEF x, y
  <1>2. a + b = (x + y) * d /\ x + y \in Nat
    BY <1>1
  <1>3. (a + b) % d = 0 /\ (a + b) \div d = x + y
    BY <1>2, WholeParts
  <1>4. ASSUME b <= a PROVE (a - b) % d = 0
    <2>1. ~ (x < y)
      <3> SUFFICES ASSUME x < y PROVE FALSE
        OBVIOUS
      <3>1. x * d + d <= y * d
        BY <1>1, Multiples
      <3> QED
        BY <1>1, <1>4, <3>1
    <2>2. x - y \in Nat
      BY <1>1, <2>1
    <2>3. a - b = (x - y) * d
      BY <1>1
    <2> QED
      BY <2>2, <2>3, WholeParts
  <1> QED
    BY <1>1, <1>3, <1>4 DEF x, y

\* The bytes of a cluster from a on have its index, and offsets from that of a.
LEMMA SameCluster ==
    ASSUME NEW a \in Nat, NEW i \in Nat, NEW d \in Nat \ {0}, (a % d) + i < d
    PROVE  (a + i) \div d = a \div d /\ (a + i) % d = (a % d) + i
  <1> DEFINE q == a \div d
             r == a % d
  <1>1. q \in Nat /\ r \in 0 .. d - 1 /\ a = q * d + r
    BY Division
  <1>2. r + i < d
    OBVIOUS
  <1> HIDE DEF q, r
  <1>3. r + i \in 0 .. d - 1 /\ q * d \in Nat
    BY <1>1, <1>2
  <1>4. a + i = q * d + (r + i)
    BY <1>1, <1>3
  <1>5. (q * d + (r + i)) \div d = q /\ (q * d + (r + i)) % d = r + i
    BY <1>1, <1>3, DivisionUnique
  <1> QED
    BY <1>4, <1>5 DEF q, r

\* The table of a byte is the one of its cluster.
LEMMA TableOfCluster ==
    ASSUME NEW a \in Nat, NEW c \in Nat \ {0}, NEW n \in Nat \ {0}
    PROVE  a \div (n * c) = (a \div c) \div n
  <1> DEFINE q == a \div c
             r == a % c
             u == q \div n
             v == q % n
  <1>1. q \in Nat /\ r \in 0 .. c - 1 /\ a = q * c + r
    BY Division
  <1>2. u \in Nat /\ v \in 0 .. n - 1 /\ q = u * n + v
    BY <1>1, Division
  <1> HIDE DEF q, r, u, v
  <1>3. q * c = u * (n * c) + v * c
    <2>1. q * c = (u * n + v) * c
      BY <1>2
    <2>2. (u * n + v) * c = u * (n * c) + v * c
      BY <1>2
    <2> QED
      BY <2>1, <2>2
  <1>4. v * c + c <= n * c
    BY <1>2, Multiples
  <1>5. u * (n * c) \in Nat /\ v * c \in Nat /\ n * c \in Nat
    BY <1>2
  <1>6. v * c + r \in 0 .. n * c - 1 /\ n * c \in Nat \ {0}
    BY <1>1, <1>4, <1>5
  <1>7. a = u * (n * c) + (v * c + r)
    BY <1>1, <1>3, <1>5
  <1> DEFINE m == n * c
             w == v * c + r
  <1> HIDE DEF m, w
  <1>8. m \in Nat \ {0} /\ w \in 0 .. m - 1 /\ a = u * m + w
    BY <1>6, <1>7 DEF m, w
  <1>9. a \div m = u
    BY <1>2, <1>8, DivisionUnique
  <1> QED
    BY <1>9 DEF m, q, u

(***************************************************************************)
(* The inductive invariant                                                 *)
(***************************************************************************)

\* Where the request starts on the disk.
Base == req.sector * SectorSize

\* The first n bytes of the buffer are those of the disk.
Moved(n) == \A k \in 1 .. n : buf[k] = Content[Base + k - 1]

Serving == {"sector", "table", "data"}

\* The request is one that Submit accepts, in the call that serves its disk.
ReqInv ==
    /\ kind \in Kinds
    /\ DOMAIN file = IF kind = "qcow" THEN {} ELSE Bytes(kind)
    /\ req.op \in {"none", "read", "write"}
    /\ req.op = "none" => req.ends = <<>> /\ pc = "idle"
    /\ req.op # "none" =>
           /\ req.sector \in Nat /\ req.ends \in Iovs
           /\ Base + Size <= Capacity[kind]
           /\ DOMAIN buf = 1 .. Size
    /\ pc \in {"idle", "raw", "mmap", "dead"} \cup Serving
    /\ pc \in {"raw", "mmap"} => kind # "qcow"
    /\ pc \in Serving => kind = "qcow" /\ req.op = "read"
    /\ ret \in Error .. MaxSize
    /\ failed \in BOOLEAN /\ writes \in 0 .. MaxWrites

\* A raw disk: what is counted is moved, and is what the result may say.
RawInv ==
    /\ total \in 0 .. Size
    /\ pc \in {"raw", "mmap"} =>
           /\ el \in 1 .. Len(req.ends)
           /\ total = Start(el) /\ offset = Base + total
           /\ Moved(total)
    /\ AmountRead

\* A QCOW image: a table is in use only when the first level has it.
QcowInv ==
    /\ first \in Nat /\ sector \in Nat /\ pos \in Nat /\ nr_read \in 0 .. Width - 1
    /\ pc \in Serving => el \in 1 .. Len(req.ends) /\ nr_read < iov_len(el)
    /\ pc \in {"table", "data"} =>
           /\ At < Capacity[kind]
           /\ get_l1_index(At) + 1 \in DOMAIN L1 /\ Table # 0
    /\ pc = "data" => cache # <<>> /\ Last(cache).offset = Table

CacheInv ==
    /\ cache \in Seq(Nodes) /\ Len(cache) <= MaxCacheNodes
    /\ \A i \in DOMAIN cache : cache[i].offset \in DOMAIN L2
    /\ "short" \notin HostErrors => Sound(cache)

\* The iovecs and the clusters are of whole sectors, and a table is read as a
\* whole or not at all.
WholeReads ==
    /\ \A l \in Lens : l % SectorSize = 0
    /\ ClusterSize % SectorSize = 0
    /\ "short" \notin HostErrors

\* A QCOW image: the sector read is the one the buffer is at, unless a cluster
\* could not be read; then the place in the buffer may be beyond its end.
PosInv ==
    pc \in Serving =>
        /\ first * SectorSize = Base + Start(el)
        /\ \/ pos = Start(el) + nr_read /\ sector * SectorSize = Base + pos
           \/ pos >= Size /\ failed
        /\ ~failed => Moved(pos)

DiskInv == ReqInv /\ RawInv /\ QcowInv /\ CacheInv

WholeInv == WholeReads => PosInv

(***************************************************************************)
(* What the invariant says of a request                                    *)
(***************************************************************************)

LEMMA RequestFacts ==
    ASSUME ReqInv, req.op # "none"
    PROVE  /\ Capacity[kind] \in Nat /\ Base \in Nat
           /\ Size \in 1 .. MaxSize /\ Size \in Nat /\ Base + Size <= Capacity[kind]
           /\ Len(req.ends) \in Nat \ {0} /\ Start(1) = 0
           /\ Start(Len(req.ends) + 1) = Size
           /\ \A j \in 1 .. Len(req.ends) :
                  /\ Start(j) \in Nat /\ Start(j) < req.ends[j] /\ Start(j + 1) = req.ends[j]
                  /\ req.ends[j] \in 1 .. Size
                  /\ iov_len(j) \in Lens /\ iov_len(j) \in 1 .. MaxSize
                  /\ Start(j) + iov_len(j) = req.ends[j]
  <1> DEFINE ends == req.ends
  <1>1. req.sector \in Nat /\ ends \in Iovs /\ Base + Size <= Capacity[kind] /\ kind \in Kinds
    BY DEF ReqInv
  <1>2. /\ Len(ends) \in Nat \ {0}
        /\ Last(ends) \in 1 .. MaxSize /\ StartIn(ends, Len(ends) + 1) = Last(ends)
        /\ \A j \in 1 .. Len(ends) :
               /\ StartIn(ends, j) \in Nat /\ StartIn(ends, j) < ends[j]
               /\ ends[j] \in 1 .. Last(ends) /\ StartIn(ends, j + 1) = ends[j]
               /\ ends[j] - StartIn(ends, j) \in Lens
    BY <1>1, IovsEnd
  <1>3. Size = Last(ends) /\ Start(Len(ends) + 1) = Size /\ \A j : Start(j) = StartIn(ends, j)
    BY <1>2 DEF Size, Start
  <1>4. Capacity[kind] \in Nat /\ Base \in Nat
    <2>1. SectorSize \in Nat
      BY ImageAssumption
    <2> QED
      BY <1>1, <2>1, ImageAssumption DEF Base
  <1>5. Size \in 1 .. MaxSize /\ Size \in Nat /\ MaxSize \in Nat
    BY <1>2, <1>3, ImageAssumption
  <1>6. Start(1) = 0
    BY DEF Start, StartIn
  <1> HIDE DEF ends
  <1>7. ASSUME NEW j \in 1 .. Len(ends)
        PROVE  /\ Start(j) \in Nat /\ Start(j) < ends[j] /\ Start(j + 1) = ends[j]
               /\ ends[j] \in 1 .. Size
               /\ ends[j] - Start(j) \in Lens /\ ends[j] - Start(j) \in 1 .. MaxSize
               /\ Start(j) + (ends[j] - Start(j)) = ends[j]
    <2>1. /\ Start(j) \in Nat /\ Start(j) < ends[j] /\ Start(j + 1) = ends[j]
          /\ ends[j] \in 1 .. Size
          /\ ends[j] - Start(j) \in Lens
      BY <1>2, <1>3
    <2> QED
      BY <1>5, <2>1
  <1> QED
    BY <1>1, <1>2, <1>3, <1>4, <1>5, <1>6, <1>7 DEF iov_len, ends

\* The request stays what it is until the next one.
LEMMA RequestStays ==
    ASSUME req' = req, kind' = kind
    PROVE  /\ Base' = Base /\ Size' = Size /\ Capacity[kind]' = Capacity[kind]
           /\ \A j : Start(j)' = Start(j)
           /\ \A j : iov_len(j)' = iov_len(j)
  BY DEF Base, Size, Start, iov_len

LEMMA ReqStep ==
    ASSUME ReqInv, req' = req, kind' = kind, req.op # "none",
           DOMAIN file' = DOMAIN file, DOMAIN buf' = DOMAIN buf, writes' = writes,
           failed' \in BOOLEAN, ret' \in Error .. MaxSize,
           pc' \in {pc, "idle"} \/ (pc \in Serving /\ pc' \in Serving \cup {"dead"})
    PROVE  ReqInv'
  <1>1. Base' = Base /\ Size' = Size /\ Capacity[kind]' = Capacity[kind]
    BY RequestStays
  <1>2. /\ req'.sector \in Nat /\ req'.ends \in Iovs
        /\ Base' + Size' <= Capacity[kind]' /\ DOMAIN buf' = 1 .. Size'
    BY <1>1 DEF ReqInv
  <1>3. /\ pc' \in {"idle", "raw", "mmap", "dead"} \cup Serving
        /\ pc' \in {"raw", "mmap"} => kind' # "qcow"
        /\ pc' \in Serving => kind' = "qcow" /\ req'.op = "read"
    BY DEF ReqInv, Serving
  <1>4. /\ kind' \in Kinds /\ DOMAIN file' = IF kind' = "qcow" THEN {} ELSE Bytes(kind')
        /\ req'.op \in {"none", "read", "write"} /\ req'.op # "none"
        /\ ret' \in Error .. MaxSize /\ failed' \in BOOLEAN /\ writes' \in 0 .. MaxWrites
    BY DEF ReqInv
  <1> QED
    BY <1>2, <1>3, <1>4 DEF ReqInv

LEMMA CacheStays == CacheInv /\ cache' = cache => CacheInv'
  BY DEF CacheInv, Sound

\* What is not served from a QCOW image leaves its variables alone.
LEMMA QcowStays ==
    ASSUME QcowInv, UNCHANGED qcowVars, pc' \notin Serving
    PROVE  QcowInv' /\ PosInv'
  BY DEF QcowInv, PosInv, qcowVars, Serving

(***************************************************************************)
(* Raw disks                                                               *)
(***************************************************************************)

\* After a transfer of n bytes the iovecs that are done have moved.
LEMMA ShiftStep ==
    ASSUME ReqInv, RawInv, pc \in {"raw", "mmap"}, NEW n \in 1 .. Size - Start(el),
           req' = req, kind' = kind, shift_iovec(n), Loop,
           \A k \in 1 .. Start(el) + n : buf'[k] = Content'[Base + k - 1]
    PROVE  /\ RawInv' /\ ret' \in Error .. MaxSize /\ pc' \in {pc, "idle"}
           /\ pc' # "idle" => ret' = ret
           /\ pc' = "idle" => \A k \in 1 .. Size : buf'[k] = Content'[Base + k - 1]
  <1>0. req.op # "none" /\ ret \in Error .. MaxSize
    BY DEF ReqInv
  <1>1. /\ Base \in Nat /\ Size \in 1 .. MaxSize /\ MaxSize \in Nat
        /\ Len(req.ends) \in Nat \ {0} /\ Start(Len(req.ends) + 1) = Size
        /\ \A j \in 1 .. Len(req.ends) : Start(j) \in Nat
    BY <1>0, RequestFacts, ImageAssumption
  <1>2. el \in 1 .. Len(req.ends) /\ total = Start(el) /\ offset = Base + total
    BY DEF RawInv
  <1>3. PICK next \in el .. Len(req.ends) + 1 :
            /\ Start(next) - Start(el) <= n
            /\ el' = next
            /\ total' = total + (Start(next) - Start(el))
            /\ offset' = offset + (Start(next) - Start(el))
    BY DEF shift_iovec
  <1>4. Start(next) \in Nat /\ Start(el) \in Nat /\ Start(next) <= Start(el) + n
    <2>0. Len(req.ends) \in Nat /\ el \in 1 .. Len(req.ends)
      BY <1>1, <1>2
    <2>1. next \in 1 .. Len(req.ends) \/ next = Len(req.ends) + 1
      BY <2>0
    <2>2. Start(next) \in Nat /\ Start(el) \in Nat
      BY <1>1, <1>2, <2>1
    <2> QED
      BY <1>3, <2>2
  <1>5. total' = Start(next) /\ offset' = Base + total' /\ total' \in 0 .. Size
    BY <1>1, <1>2, <1>3, <1>4
  <1>6. Base' = Base /\ Size' = Size /\ \A j : Start(j)' = Start(j)
    BY RequestStays
  <1>7. \A k \in 1 .. total' : buf'[k] = Content'[Base' + k - 1]
    BY <1>1, <1>4, <1>5, <1>6
  <1>8. CASE total' = Size
    <2>1. pc' = "idle" /\ ret' = total'
      BY <1>8 DEF Loop, Return
    <2>2. AmountRead'
      BY <1>7, <2>1 DEF AmountRead, IsAmountRead, Base
    <2>3. \A k \in 1 .. Size : buf'[k] = Content'[Base + k - 1]
      BY <1>6, <1>7, <1>8
    <2> QED
      BY <1>1, <1>5, <1>6, <1>8, <2>1, <2>2, <2>3 DEF RawInv, Error
  <1>9. CASE total' # Size
    <2>1. pc' = pc /\ ret' = ret
      BY <1>9 DEF Loop
    <2>2. next \in 1 .. Len(req.ends)
      <3>1. Len(req.ends) \in Nat /\ el \in 1 .. Len(req.ends) /\ next # Len(req.ends) + 1
        BY <1>1, <1>2, <1>5, <1>9
      <3> QED
        BY <3>1
    <2>3. AmountRead'
      BY <2>1 DEF AmountRead, IsAmountRead
    <2>4. Moved(total)'
      BY <1>7 DEF Moved
    <2>5. el' \in 1 .. Len(req'.ends) /\ total' = Start(el)' /\ offset' = Base' + total'
      <3>1. Start(el)' = Start(next)
        BY <1>3 DEF Start
      <3> QED
        BY <1>3, <1>5, <1>6, <2>2, <3>1
    <2>6. pc' # "idle"
      BY <2>1
    <2> QED
      BY <1>0, <1>5, <1>6, <2>1, <2>3, <2>4, <2>5, <2>6 DEF RawInv
  <1> QED
    BY <1>8, <1>9

\* The bytes of a transfer are in the request and on the disk.
LEMMA TransferFits ==
    ASSUME ReqInv, RawInv, pc \in {"raw", "mmap"}, NEW n \in 1 .. Size - Start(el)
    PROVE  /\ Base \in Nat /\ Size \in Nat /\ Start(el) \in Nat /\ n \in Nat \ {0}
           /\ offset = Base + Start(el) /\ Moved(Start(el)) /\ Content = file
           /\ Start(el) + n <= Size /\ DOMAIN buf = 1 .. Size
           /\ Bytes(kind) = DOMAIN file
           /\ \A k \in 1 .. Size : Base + k - 1 \in DOMAIN file
  <1>0. req.op # "none" /\ kind # "qcow" /\ DOMAIN buf = 1 .. Size
    BY DEF ReqInv
  <1>1. /\ Base \in Nat /\ Size \in Nat /\ Capacity[kind] \in Nat /\ Base + Size <= Capacity[kind]
        /\ \A j \in 1 .. Len(req.ends) : Start(j) \in Nat
    BY <1>0, RequestFacts
  <1>2. el \in 1 .. Len(req.ends) /\ total = Start(el) /\ offset = Base + total /\ Moved(total)
    BY DEF RawInv
  <1>3. Start(el) \in Nat
    BY <1>1, <1>2
  <1>4. n \in Nat \ {0} /\ Start(el) + n <= Size
    BY <1>1, <1>3
  <1>5. Content = file /\ DOMAIN file = Bytes(kind)
    BY <1>0 DEF Content, ReqInv
  <1>6. \A k \in 1 .. Size : Base + k - 1 \in Bytes(kind)
    BY <1>1 DEF Bytes
  <1> QED
    BY <1>0, <1>1, <1>2, <1>3, <1>4, <1>5, <1>6

\* A read fills the bytes behind the ones that have moved, ...
LEMMA ReadMoves ==
    ASSUME ReqInv, RawInv, pc \in {"raw", "mmap"}, NEW n \in 1 .. Size - Start(el),
           buf' = Filled(Start(el), n, LAMBDA p : file[p], offset),
           kind' = kind, file' = file
    PROVE  /\ DOMAIN buf' = DOMAIN buf
           /\ \A k \in 1 .. Start(el) + n : buf'[k] = Content'[Base + k - 1]
           /\ \A k \in DOMAIN buf : buf'[k] \in {buf[k], Content[Base + k - 1]}
  <1>1. /\ Base \in Nat /\ Size \in Nat /\ Start(el) \in Nat /\ n \in Nat \ {0}
        /\ offset = Base + Start(el) /\ Moved(Start(el)) /\ Content = file
        /\ Start(el) + n <= Size /\ DOMAIN buf = 1 .. Size
    BY TransferFits
  <1>2. Content' = file
    BY <1>1 DEF Content
  <1>3. DOMAIN buf' = DOMAIN buf
    BY DEF Filled
  <1>4. ASSUME NEW k \in DOMAIN buf, k \in Start(el) + 1 .. Start(el) + n
        PROVE  buf'[k] = file[Base + k - 1]
    <2>1. buf'[k] = file[offset + k - Start(el) - 1]
      BY <1>4 DEF Filled
    <2>2. k \in Nat
      BY <1>1, <1>4
    <2>3. offset + k - Start(el) - 1 = Base + k - 1
      BY <1>1, <2>2
    <2> QED
      BY <2>1, <2>3
  <1>5. ASSUME NEW k \in DOMAIN buf, k \notin Start(el) + 1 .. Start(el) + n
        PROVE  buf'[k] = buf[k]
    BY <1>5 DEF Filled
  <1>6. ASSUME NEW k \in 1 .. Start(el) + n PROVE buf'[k] = file[Base + k - 1]
    <2>1. k \in DOMAIN buf
      BY <1>1
    <2>2. k \in Start(el) + 1 .. Start(el) + n \/ k \in 1 .. Start(el)
      BY <1>1
    <2>3. k \in 1 .. Start(el) => k \notin Start(el) + 1 .. Start(el) + n
      BY <1>1
    <2> QED
      BY <1>1, <1>4, <1>5, <2>1, <2>2, <2>3 DEF Moved
  <1>7. \A k \in DOMAIN buf : buf'[k] \in {buf[k], file[Base + k - 1]}
    BY <1>4, <1>5
  <1> QED
    BY <1>1, <1>2, <1>3, <1>6, <1>7

\* ... and a write puts the bytes of the buffer where they belong.
LEMMA WriteMoves ==
    ASSUME ReqInv, RawInv, pc \in {"raw", "mmap"}, NEW n \in 1 .. Size - Start(el),
           file' = [p \in DOMAIN file |->
                       IF p \in offset .. offset + n - 1
                       THEN buf[Start(el) + p - offset + 1] ELSE file[p]],
           kind' = kind, buf' = buf
    PROVE  /\ DOMAIN file' = DOMAIN file
           /\ \A k \in 1 .. Start(el) + n : buf'[k] = Content'[Base + k - 1]
           /\ \A p \in DOMAIN file :
                  file'[p] \in {file[p]} \cup {buf[k] : k \in {j \in DOMAIN buf : Base + j - 1 = p}}
  <1>1. /\ Base \in Nat /\ Size \in Nat /\ Start(el) \in Nat /\ n \in Nat \ {0}
        /\ offset = Base + Start(el) /\ Moved(Start(el)) /\ Content = file
        /\ Start(el) + n <= Size /\ DOMAIN buf = 1 .. Size
        /\ Bytes(kind) = DOMAIN file
        /\ \A k \in 1 .. Size : Base + k - 1 \in DOMAIN file
    BY TransferFits
  <1>2. Content' = file' /\ kind # "qcow"
    BY DEF Content, ReqInv
  <1>3. DOMAIN file' = DOMAIN file
    OBVIOUS
  <1>4. ASSUME NEW k \in 1 .. Start(el) + n PROVE buf'[k] = file'[Base + k - 1]
    <2>1. k \in Nat /\ k \in 1 .. Size /\ Base + k - 1 \in DOMAIN file
      BY <1>1
    <2>2. CASE k \in 1 .. Start(el)
      <3>1. Base + k - 1 \notin offset .. offset + n - 1
        BY <1>1, <2>1, <2>2
      <3>2. file'[Base + k - 1] = file[Base + k - 1]
        BY <2>1, <3>1
      <3> QED
        BY <1>1, <2>2, <3>2 DEF Moved
    <2>3. CASE k \in Start(el) + 1 .. Start(el) + n
      <3>1. Base + k - 1 \in offset .. offset + n - 1
        BY <1>1, <2>1, <2>3
      <3>2. file'[Base + k - 1] = buf[Start(el) + (Base + k - 1) - offset + 1]
        BY <2>1, <3>1
      <3>3. Start(el) + (Base + k - 1) - offset + 1 = k
        BY <1>1, <2>1
      <3> QED
        BY <3>2, <3>3
    <2> QED
      BY <1>1, <2>1, <2>2, <2>3
  <1>5. ASSUME NEW p \in DOMAIN file
        PROVE  file'[p] \in {file[p]} \cup {buf[k] : k \in {j \in DOMAIN buf : Base + j - 1 = p}}
    <2>1. CASE p \in offset .. offset + n - 1
      <3> DEFINE k == Start(el) + p - offset + 1
      <3>1. p \in Nat
        BY <1>1, <2>1
      <3>2. k \in 1 .. Size /\ Base + k - 1 = p
        <4>1. /\ Base \in Nat /\ Start(el) \in Nat /\ n \in Nat /\ Size \in Nat
              /\ offset = Base + Start(el) /\ Start(el) + n <= Size
              /\ offset <= p /\ p <= offset + n - 1
          BY <1>1, <2>1
        <4> QED
          BY <3>1, <4>1
      <3>3. file'[p] = buf[Start(el) + p - offset + 1]
        BY <1>3, <2>1, Zenon
      <3>4. k \in {j \in DOMAIN buf : Base + j - 1 = p}
        BY <1>1, <3>2
      <3> HIDE DEF k
      <3> DEFINE J == {j \in DOMAIN buf : Base + j - 1 = p}
      <3> HIDE DEF J
      <3>5. file'[p] \in {buf[m] : m \in J}
        BY <3>3, <3>4 DEF J, k
      <3> QED
        BY <3>5 DEF J
    <2>2. CASE p \notin offset .. offset + n - 1
      BY <2>2
    <2> QED
      BY <2>1, <2>2
  <1> QED
    BY <1>2, <1>3, <1>4, <1>5

LEMMA PreadvInv ==
    ASSUME DiskInv, NEW n, preadv(n) PROVE DiskInv' /\ PosInv'
  <1>1. /\ pc = "raw" /\ n \in 1 .. Size - Start(el)
        /\ buf' = Filled(Start(el), n, LAMBDA p : file[p], offset)
        /\ shift_iovec(n) /\ Loop
        /\ UNCHANGED <<kind, file, cache, req, failed, writes>> /\ UNCHANGED qcowVars
    BY DEF preadv
  <1>2. ReqInv /\ RawInv /\ QcowInv /\ CacheInv /\ req.op # "none" /\ failed \in BOOLEAN
    BY <1>1 DEF DiskInv, ReqInv
  <1>3. /\ DOMAIN buf' = DOMAIN buf
        /\ \A k \in 1 .. Start(el) + n : buf'[k] = Content'[Base + k - 1]
    BY <1>1, <1>2, ReadMoves
  <1>4. RawInv' /\ ret' \in Error .. MaxSize /\ pc' \in {pc, "idle"}
    BY <1>1, <1>2, <1>3, ShiftStep
  <1>5. ReqInv'
    BY <1>1, <1>2, <1>3, <1>4, ReqStep
  <1>6. QcowInv' /\ PosInv'
    BY <1>1, <1>2, <1>4, QcowStays DEF Serving
  <1> QED
    BY <1>1, <1>2, <1>4, <1>5, <1>6, CacheStays DEF DiskInv

LEMMA PwritevInv ==
    ASSUME DiskInv, NEW n, pwritev(n) PROVE DiskInv' /\ PosInv'
  <1>1. /\ pc = "raw" /\ n \in 1 .. Size - Start(el)
        /\ file' = [p \in DOMAIN file |->
                       IF p \in offset .. offset + n - 1
                       THEN buf[Start(el) + p - offset + 1] ELSE file[p]]
        /\ shift_iovec(n) /\ Loop
        /\ UNCHANGED <<kind, cache, req, buf, failed, writes>> /\ UNCHANGED qcowVars
    BY DEF pwritev
  <1>2. ReqInv /\ RawInv /\ QcowInv /\ CacheInv /\ req.op # "none" /\ failed \in BOOLEAN
    BY <1>1 DEF DiskInv, ReqInv
  <1>3. /\ DOMAIN file' = DOMAIN file
        /\ \A k \in 1 .. Start(el) + n : buf'[k] = Content'[Base + k - 1]
    BY <1>1, <1>2, WriteMoves
  <1>4. RawInv' /\ ret' \in Error .. MaxSize /\ pc' \in {pc, "idle"}
    BY <1>1, <1>2, <1>3, ShiftStep
  <1>5. ReqInv'
    BY <1>1, <1>2, <1>3, <1>4, ReqStep
  <1>6. QcowInv' /\ PosInv'
    BY <1>1, <1>2, <1>4, QcowStays DEF Serving
  <1> QED
    BY <1>1, <1>2, <1>4, <1>5, <1>6, CacheStays DEF DiskInv

\* memcpy does what a transfer of the whole iovec does.
LEMMA MemcpyShifts ==
    ASSUME ReqInv, RawInv, memcpy
    PROVE  iov_len(el) \in 1 .. Size - Start(el) /\ shift_iovec(iov_len(el))
  <1>0. pc = "mmap" /\ req.op # "none"
    BY DEF memcpy, ReqInv
  <1>1. el \in 1 .. Len(req.ends)
    BY <1>0 DEF RawInv
  <1>2. /\ Size \in Nat /\ Len(req.ends) \in Nat /\ iov_len(el) \in 1 .. MaxSize /\ MaxSize \in Nat
        /\ Start(el) \in Nat /\ Start(el + 1) = req.ends[el] /\ req.ends[el] \in 1 .. Size
        /\ Start(el) + iov_len(el) = req.ends[el]
    BY <1>0, <1>1, RequestFacts, ImageAssumption
  <1>3. /\ el' = el + 1 /\ total' = total + iov_len(el) /\ offset' = offset + iov_len(el)
    BY DEF memcpy
  <1> DEFINE next == el + 1
             done == Start(next) - Start(el)
  <1>4. iov_len(el) \in 1 .. Size - Start(el) /\ done = iov_len(el)
    BY <1>2
  <1>5. next \in el .. Len(req.ends) + 1
    BY <1>1, <1>2
  <1>6. ASSUME next <= Len(req.ends) PROVE iov_len(el) < req.ends[next] - Start(el)
    <2>1. next \in 1 .. Len(req.ends)
      BY <1>1, <1>2, <1>6
    <2>2. Start(next) < req.ends[next] /\ req.ends[next] \in 1 .. Size /\ Start(next) \in Nat
      BY <1>0, <2>1, RequestFacts
    <2> QED
      BY <1>2, <2>2
  <1>7. /\ done <= iov_len(el) /\ el' = next /\ total' = total + done /\ offset' = offset + done
    BY <1>2, <1>3, <1>4
  <1> HIDE DEF next
  <1> QED
    BY <1>4, <1>5, <1>6, <1>7 DEF shift_iovec

LEMMA MemcpyInv ==
    ASSUME DiskInv, memcpy PROVE DiskInv' /\ PosInv'
  <1> DEFINE n == iov_len(el)
  <1>1. /\ pc = "mmap" /\ Loop
        /\ UNCHANGED <<kind, cache, req, failed, writes>> /\ UNCHANGED qcowVars
    BY DEF memcpy
  <1>2. ReqInv /\ RawInv /\ QcowInv /\ CacheInv /\ req.op # "none" /\ failed \in BOOLEAN
    BY <1>1 DEF DiskInv, ReqInv
  <1>3. n \in 1 .. Size - Start(el) /\ shift_iovec(n)
    BY <1>2, MemcpyShifts
  <1>4. /\ DOMAIN file' = DOMAIN file /\ DOMAIN buf' = DOMAIN buf
        /\ \A k \in 1 .. Start(el) + n : buf'[k] = Content'[Base + k - 1]
    <2>1. CASE req.op = "read"
      <3>1. buf' = Filled(Start(el), n, LAMBDA p : file[p], offset) /\ file' = file
        BY <2>1 DEF memcpy
      <3> HIDE DEF n
      <3> QED
        BY <1>1, <1>2, <1>3, <3>1, ReadMoves
    <2>2. CASE req.op # "read"
      <3>1. /\ file' = [p \in DOMAIN file |->
                           IF p \in offset .. offset + n - 1
                           THEN buf[Start(el) + p - offset + 1] ELSE file[p]]
            /\ buf' = buf
        BY <2>2 DEF memcpy
      <3> HIDE DEF n
      <3> QED
        BY <1>1, <1>2, <1>3, <3>1, WriteMoves
    <2> QED
      BY <2>1, <2>2
  <1> HIDE DEF n
  <1>5. RawInv' /\ ret' \in Error .. MaxSize /\ pc' \in {pc, "idle"}
    BY <1>1, <1>2, <1>3, <1>4, ShiftStep
  <1>6. ReqInv'
    BY <1>1, <1>2, <1>4, <1>5, ReqStep
  <1>7. QcowInv' /\ PosInv'
    BY <1>1, <1>2, <1>5, QcowStays DEF Serving
  <1> QED
    BY <1>1, <1>2, <1>5, <1>6, <1>7, CacheStays DEF DiskInv

LEMMA TransferFailsInv ==
    ASSUME DiskInv, transfer_fails PROVE DiskInv' /\ PosInv'
  <1>1. /\ pc = "raw" /\ pc' = "idle" /\ failed' \in BOOLEAN
        /\ ret' = IF req.op = "read" /\ total > 0 THEN total ELSE Error
        /\ UNCHANGED <<kind, file, cache, req, buf, writes>> /\ UNCHANGED <<el, total, offset>>
        /\ UNCHANGED qcowVars
    BY DEF transfer_fails, Return, ioVars
  <1>2. ReqInv /\ RawInv /\ QcowInv /\ CacheInv /\ req.op # "none"
    BY <1>1 DEF DiskInv, ReqInv
  <1>3. Size \in 1 .. MaxSize /\ MaxSize \in Nat /\ total \in 0 .. Size /\ Moved(total)
    BY <1>1, <1>2, RequestFacts, ImageAssumption DEF RawInv
  <1>4. ret' \in Error .. MaxSize
    BY <1>1, <1>3 DEF Error
  <1>5. ReqInv'
    BY <1>1, <1>2, <1>4, ReqStep
  <1>6. AmountRead'
    <2>1. \A k \in 1 .. ret' : buf[k] = Content[Base + k - 1]
      BY <1>1, <1>3 DEF Moved, Error
    <2>2. Content' = Content
      BY <1>1 DEF Content
    <2> QED
      BY <1>1, <2>1, <2>2 DEF AmountRead, IsAmountRead, Base
  <1>7. RawInv'
    <2>1. Size' = Size
      BY <1>1, RequestStays
    <2> QED
      BY <1>1, <1>3, <1>6, <2>1 DEF RawInv
  <1>8. QcowInv' /\ PosInv'
    BY <1>1, <1>2, QcowStays DEF Serving
  <1> QED
    BY <1>1, <1>2, <1>5, <1>7, <1>8, CacheStays DEF DiskInv

(***************************************************************************)
(* QCOW images                                                             *)
(***************************************************************************)

LEMMA ServingFacts ==
    ASSUME ReqInv, QcowInv, pc \in Serving
    PROVE  /\ kind = "qcow" /\ req.op = "read" /\ DOMAIN buf = 1 .. Size
           /\ Base \in Nat /\ Size \in Nat /\ Base + Size <= Capacity[kind]
           /\ Capacity[kind] \in Nat
           /\ el \in 1 .. Len(req.ends) /\ Len(req.ends) \in Nat
           /\ Start(el) \in Nat /\ Start(el + 1) = req.ends[el]
           /\ Start(el) + iov_len(el) = req.ends[el] /\ req.ends[el] \in 1 .. Size
           /\ Start(Len(req.ends) + 1) = Size
           /\ iov_len(el) \in Nat \ {0} /\ iov_len(el) < Width /\ Size < Width
           /\ iov_len(el) \in Lens
           /\ nr_read \in Nat /\ nr_read < iov_len(el)
           /\ sector \in Nat /\ pos \in Nat /\ first \in Nat
           /\ Width \in Nat /\ SectorSize \in Nat \ {0} /\ MaxSize \in Nat /\ Size <= MaxSize
  <1>1. kind = "qcow" /\ req.op = "read" /\ DOMAIN buf = 1 .. Size
    BY DEF ReqInv
  <1>2. el \in 1 .. Len(req.ends) /\ nr_read < iov_len(el) /\ nr_read \in 0 .. Width - 1
    BY DEF QcowInv
  <1>3. /\ Width \in Nat /\ SectorSize \in Nat \ {0} /\ MaxSize \in Nat /\ MaxSize < Width
    BY ImageAssumption
  <1>4. /\ Capacity[kind] \in Nat /\ Base \in Nat
        /\ Size \in 1 .. MaxSize /\ Size \in Nat /\ Base + Size <= Capacity[kind]
        /\ Len(req.ends) \in Nat \ {0}
        /\ Start(Len(req.ends) + 1) = Size
    BY <1>1, RequestFacts
  <1>5. /\ Start(el) \in Nat /\ Start(el + 1) = req.ends[el]
        /\ req.ends[el] \in 1 .. Size
        /\ iov_len(el) \in Lens /\ iov_len(el) \in 1 .. MaxSize
        /\ Start(el) + iov_len(el) = req.ends[el]
    BY <1>1, <1>2, RequestFacts
  <1>6. iov_len(el) \in Nat \ {0} /\ iov_len(el) < Width /\ Size < Width /\ Size <= MaxSize
    BY <1>3, <1>4, <1>5
  <1>7. nr_read \in Nat
    BY <1>2, <1>3
  <1> QED
    BY <1>1, <1>2, <1>3, <1>4, <1>5, <1>6, <1>7 DEF QcowInv

\* The part of the request in this cluster: some bytes, all of this iovec.
LEMMA LengthFacts ==
    ASSUME ReqInv, QcowInv, pc \in Serving
    PROVE  /\ At \in Nat /\ get_l1_index(At) \in Nat
           /\ get_cluster_offset(At) \in 0 .. ClusterSize - 1
           /\ get_l2_index(At) \in 0 .. L2Entries - 1
           /\ length \in 1 .. ClusterSize /\ ClusterSize \in Nat \ {0}
           /\ length <= iov_len(el) - nr_read
           /\ get_cluster_offset(At) + length <= ClusterSize
           /\ length \in {iov_len(el) - nr_read, ClusterSize - get_cluster_offset(At)}
  <1>1. /\ sector \in Nat /\ SectorSize \in Nat \ {0} /\ iov_len(el) \in Nat
        /\ nr_read \in Nat /\ nr_read < iov_len(el)
    BY ServingFacts
  <1>2. ClusterSize \in Nat \ {0} /\ L2Entries \in Nat \ {0}
    BY QcowAssumption
  <1>3. At \in Nat
    BY <1>1 DEF At
  <1>4. L2Entries * ClusterSize \in Nat \ {0}
    BY <1>2
  <1>5. get_l1_index(At) \in Nat
    BY <1>3, <1>4, Division DEF get_l1_index
  <1>6. get_cluster_offset(At) \in 0 .. ClusterSize - 1 /\ At \div ClusterSize \in Nat
    BY <1>2, <1>3, Division DEF get_cluster_offset
  <1>7. get_l2_index(At) \in 0 .. L2Entries - 1
    BY <1>2, <1>6, Division DEF get_l2_index
  <1> DEFINE here == ClusterSize - get_cluster_offset(At)
             left == iov_len(el) - nr_read
  <1>8. /\ length = IF left < here THEN left ELSE here
    BY DEF length
  <1>9. here \in 1 .. ClusterSize /\ left \in Nat \ {0} /\ get_cluster_offset(At) + here = ClusterSize
    BY <1>1, <1>2, <1>6
  <1>10. CASE left < here
    BY <1>2, <1>3, <1>5, <1>6, <1>7, <1>8, <1>9, <1>10
  <1>11. CASE ~ (left < here)
    BY <1>2, <1>3, <1>5, <1>6, <1>7, <1>8, <1>9, <1>11
  <1> QED
    BY <1>10, <1>11

\* Whatever a cluster read gave, the next read is in an iovec of the request.
LEMMA AdvanceTypes ==
    ASSUME ReqInv, QcowInv, pc \in Serving, NEW nr \in 0 .. Width - 1,
           Advance(nr), req' = req
    PROVE  /\ QcowInv' /\ pc' \in {"sector", "idle"} /\ ret' \in Error .. MaxSize
           /\ pc' = "sector" => ret' = ret
           /\ pc' = "idle" => ret' = Size
  <1> DEFINE n == (nr_read + nr) % Width
  <1>1. /\ el \in 1 .. Len(req.ends) /\ Len(req.ends) \in Nat
        /\ Start(el) \in Nat /\ Start(el + 1) = req.ends[el] /\ req.ends[el] \in 1 .. Size
        /\ iov_len(el) \in Nat \ {0} /\ nr_read \in Nat /\ Size \in Nat /\ Size <= MaxSize
        /\ sector \in Nat /\ pos \in Nat /\ first \in Nat
        /\ Width \in Nat /\ SectorSize \in Nat \ {0} /\ MaxSize \in Nat
    BY ServingFacts
  <1>2. nr_read < Width /\ Width \in Nat \ {0} /\ nr \in Nat
    BY <1>1 DEF QcowInv
  <1>3. n \in 0 .. Width - 1
    <2>1. nr_read + nr \in Nat
      BY <1>1, <1>2
    <2> QED
      BY <1>2, <2>1, Division
  <1>4. ret \in Error .. MaxSize
    BY DEF ReqInv
  <1>5. \A j : iov_len(j)' = req.ends[j] - Start(j)
    BY DEF iov_len, Start
  <1>6. CASE /\ n < iov_len(el)
             /\ nr_read' = n /\ pos' = pos + nr /\ sector' = sector + nr \div SectorSize
             /\ pc' = "sector"
             /\ UNCHANGED <<el, first, ret>>
    <2>1. nr \div SectorSize \in Nat
      BY <1>1, <1>2, Division
    <2>2. pos' \in Nat /\ sector' \in Nat /\ first' \in Nat /\ nr_read' \in 0 .. Width - 1
      BY <1>1, <1>2, <1>3, <1>6, <2>1
    <2>3. el' \in 1 .. Len(req'.ends) /\ nr_read' < iov_len(el)'
      BY <1>1, <1>6 DEF iov_len, Start
    <2> QED
      BY <1>4, <1>6, <2>2, <2>3 DEF QcowInv, Serving
  <1>7. CASE /\ n >= iov_len(el) /\ el < Len(req.ends)
             /\ el' = el + 1
             /\ first' = first + iov_len(el) \div SectorSize
             /\ nr_read' = 0 /\ pos' = Start(el + 1) /\ sector' = first'
             /\ pc' = "sector"
             /\ UNCHANGED ret
    <2>1. iov_len(el) \div SectorSize \in Nat
      BY <1>1, Division
    <2>2. pos' \in Nat /\ sector' \in Nat /\ first' \in Nat /\ nr_read' \in 0 .. Width - 1
      <3>1. first' \in Nat /\ sector' \in Nat
        BY <1>1, <1>7, <2>1
      <3>2. pos' \in Nat
        BY <1>1, <1>7
      <3>3. nr_read' \in 0 .. Width - 1
        BY <1>2, <1>7
      <3> QED
        BY <3>1, <3>2, <3>3
    <2>3. el + 1 \in 1 .. Len(req.ends)
      BY <1>1, <1>7
    <2>4. iov_len(el + 1) \in 1 .. MaxSize
      BY <2>3, RequestFacts, ServingFacts
    <2>5. el' \in 1 .. Len(req'.ends) /\ nr_read' < iov_len(el)'
      BY <1>1, <1>7, <2>3, <2>4 DEF iov_len, Start
    <2> QED
      BY <1>4, <1>7, <2>2, <2>5 DEF QcowInv, Serving
  <1>8. CASE /\ n >= iov_len(el) /\ el = Len(req.ends)
             /\ Return(Size)
             /\ UNCHANGED <<el, qcowVars>>
    <2>1. ret' \in Error .. MaxSize /\ pc' = "idle" /\ ret' = Size
      BY <1>1, <1>8 DEF Return, Error
    <2> QED
      BY <1>8, <2>1 DEF QcowInv, Serving, qcowVars
  <1> QED
    BY <1>6, <1>7, <1>8 DEF Advance

\* The next iovec starts at the next sector of the disk.
LEMMA NextIovec ==
    ASSUME ReqInv, QcowInv, WholeReads, PosInv, pc \in Serving,
           first' = first + iov_len(el) \div SectorSize
    PROVE  first' * SectorSize = Base + Start(el + 1)
  <1>1. /\ first \in Nat /\ SectorSize \in Nat \ {0} /\ iov_len(el) \in Nat /\ iov_len(el) \in Lens
        /\ Start(el) \in Nat /\ Start(el + 1) = Start(el) + iov_len(el) /\ Base \in Nat
    BY ServingFacts
  <1>2. first * SectorSize = Base + Start(el)
    BY DEF PosInv
  <1>3. iov_len(el) % SectorSize = 0
    BY <1>1 DEF WholeReads
  <1> DEFINE l == iov_len(el) \div SectorSize
  <1>4. l \in Nat /\ l * SectorSize = iov_len(el)
    BY <1>1, <1>3, Division, WholeSum
  <1>5. first' = first + l
    OBVIOUS
  <1> HIDE DEF l
  <1>6. (first + l) * SectorSize = first * SectorSize + l * SectorSize
    BY <1>1, <1>4
  <1>7. (first + l) * SectorSize = Base + Start(el + 1)
    BY <1>1, <1>2, <1>4, <1>6
  <1> QED
    BY <1>5, <1>7

\* A cluster that was not read leaves the buffer's place wrong, but not in the
\* buffer.
LEMMA AdvanceFailed ==
    ASSUME ReqInv, QcowInv, WholeReads, PosInv, pc \in Serving, Failed,
           req' = req, kind' = kind
    PROVE  PosInv'
  <1>0. Advance(Width - 1) /\ failed' = TRUE
    BY DEF Failed
  <1>1. /\ pos \in Nat /\ Size \in Nat /\ Size < Width /\ Width \in Nat
        /\ el \in 1 .. Len(req.ends) /\ Len(req.ends) \in Nat /\ Start(el) \in Nat
        /\ Base \in Nat /\ Start(el + 1) \in Nat
    <2>1. Start(el + 1) = req.ends[el] /\ req.ends[el] \in 1 .. Size /\ Size \in Nat
      BY ServingFacts
    <2>2. Start(el + 1) \in Nat
      BY <2>1
    <2> QED
      BY <2>2, ServingFacts
  <1>2. Base' = Base /\ Size' = Size /\ \A j : Start(j)' = Start(j)
    BY RequestStays
  <1>3. CASE /\ pos' = pos + (Width - 1) /\ UNCHANGED <<el, first, ret>>
    <2>1. pos' >= Size'
      BY <1>1, <1>2, <1>3
    <2>2. first' * SectorSize = Base' + Start(el)'
      BY <1>2, <1>3 DEF PosInv, Start
    <2> QED
      BY <1>0, <2>1, <2>2 DEF PosInv
  <1>4. CASE /\ el' = el + 1
             /\ first' = first + iov_len(el) \div SectorSize
             /\ nr_read' = 0 /\ pos' = Start(el + 1) /\ sector' = first'
    <2>1. first' * SectorSize = Base + Start(el + 1)
      BY <1>4, NextIovec
    <2>2. Start(el)' = Start(el + 1)
      BY <1>4 DEF Start
    <2>3. pos' = Start(el)' + nr_read' /\ sector' * SectorSize = Base' + pos'
      BY <1>1, <1>2, <1>4, <2>1, <2>2
    <2> QED
      BY <1>0, <1>2, <2>1, <2>2, <2>3 DEF PosInv
  <1>5. CASE Return(Size)
    BY <1>5 DEF Return, PosInv, Serving
  <1> QED
    BY <1>0, <1>3, <1>4, <1>5 DEF Advance

\* A cluster that was read takes the buffer on by as much as the disk.
LEMMA AdvanceRead ==
    ASSUME ReqInv, QcowInv, WholeReads, PosInv, pc \in Serving, Advance(length),
           req' = req, kind' = kind, file' = file, failed' \in {failed, TRUE}, failed \in BOOLEAN,
           ~ failed' => \A k \in 1 .. pos + length : buf'[k] = Content[Base + k - 1]
    PROVE  /\ PosInv'
           /\ pc' = "idle" /\ ~ failed' => \A k \in 1 .. Size : buf'[k] = Content[Base + k - 1]
  <1> DEFINE n == (nr_read + length) % Width
  <1>1. /\ pos \in Nat /\ Size \in Nat /\ Width \in Nat
        /\ el \in 1 .. Len(req.ends) /\ Len(req.ends) \in Nat
        /\ Start(el) \in Nat /\ Start(el + 1) = Start(el) + iov_len(el)
        /\ Start(Len(req.ends) + 1) = Size
        /\ Base \in Nat /\ iov_len(el) \in Nat /\ iov_len(el) < Width
        /\ nr_read \in Nat /\ nr_read < iov_len(el)
        /\ sector \in Nat /\ SectorSize \in Nat \ {0}
    BY ServingFacts
  <1>2. /\ length \in Nat \ {0} /\ length <= iov_len(el) - nr_read
        /\ length \in {iov_len(el) - nr_read, ClusterSize - get_cluster_offset(At)}
        /\ At \in Nat /\ get_cluster_offset(At) \in 0 .. ClusterSize - 1
        /\ ClusterSize \in Nat \ {0}
    BY LengthFacts
  <1>3. n = nr_read + length
    <2>1. nr_read + length \in 0 .. Width - 1 /\ Width \in Nat \ {0} /\ 0 \in Nat
      BY <1>1, <1>2
    <2>2. (0 * Width + (nr_read + length)) % Width = nr_read + length
      BY <2>1, DivisionUnique
    <2>3. 0 * Width + (nr_read + length) = nr_read + length
      BY <2>1
    <2> QED
      BY <2>2, <2>3
  <1>4. Base' = Base /\ Size' = Size /\ \A j : Start(j)' = Start(j)
    BY RequestStays
  <1>5. Content' = Content
    BY DEF Content
  <1>6. failed => failed'
    OBVIOUS
  <1> HIDE DEF n
  <1>7. CASE /\ n < iov_len(el)
             /\ nr_read' = n /\ pos' = pos + length /\ sector' = sector + length \div SectorSize
             /\ pc' = "sector"
             /\ UNCHANGED <<el, first, ret>>
    <2>1. length = ClusterSize - get_cluster_offset(At)
      BY <1>1, <1>2, <1>3, <1>7
    <2>2. length % SectorSize = 0
      <3> DEFINE c == At \div ClusterSize
                 r == get_cluster_offset(At)
      <3>1. c \in Nat /\ At = c * ClusterSize + r
        BY <1>2, Division DEF get_cluster_offset
      <3>2. At % SectorSize = 0
        BY <1>1, WholeParts DEF At
      <3>3. PICK s \in Nat : ClusterSize = s * SectorSize
        <4>1. ClusterSize % SectorSize = 0
          BY DEF WholeReads
        <4>2. ClusterSize \div SectorSize \in Nat
              /\ ClusterSize = (ClusterSize \div SectorSize) * SectorSize
          BY <1>1, <1>2, <4>1, Division, WholeSum
        <4> QED
          BY <4>2
      <3> HIDE DEF c, r
      <3>4. c * ClusterSize = (c * s) * SectorSize /\ c * s \in Nat
        BY <1>1, <3>1, <3>3
      <3>5. (c * ClusterSize) % SectorSize = 0 /\ c * ClusterSize \in Nat
        BY <1>1, <3>4, WholeParts
      <3>6. r \in Nat /\ c * ClusterSize <= At /\ At - c * ClusterSize = r
        BY <1>2, <3>1, <3>5 DEF r
      <3> DEFINE x == c * ClusterSize
      <3> HIDE DEF x
      <3>7. r % SectorSize = 0
        <4>1. x \in Nat /\ x % SectorSize = 0 /\ x <= At /\ At - x = r
          BY <3>5, <3>6 DEF x
        <4>2. (At - x) % SectorSize = 0
          BY <1>1, <1>2, <3>2, <4>1, WholeSum
        <4> QED
          BY <4>1, <4>2
      <3>8. r <= ClusterSize /\ ClusterSize % SectorSize = 0
        BY <1>2 DEF r, WholeReads
      <3>9. (ClusterSize - r) % SectorSize = 0
        <4>1. ClusterSize \in Nat /\ r \in Nat /\ SectorSize \in Nat \ {0}
          BY <1>1, <1>2, <3>6
        <4> QED
          BY <4>1, <3>7, <3>8, WholeSum
      <3> QED
        BY <2>1, <3>9 DEF r
    <2>3. first' * SectorSize = Base' + Start(el)'
      BY <1>4, <1>7 DEF PosInv, Start
    <2>4. ASSUME pos = Start(el) + nr_read, sector * SectorSize = Base + pos
          PROVE  pos' = Start(el)' + nr_read' /\ sector' * SectorSize = Base' + pos'
      <3> DEFINE l == length \div SectorSize
      <3>1. l \in Nat /\ l * SectorSize = length
        BY <1>1, <1>2, <2>2, Division, WholeSum
      <3>2. sector' = sector + l
        BY <1>7
      <3> HIDE DEF l
      <3>3. (sector + l) * SectorSize = sector * SectorSize + l * SectorSize
        BY <1>1, <3>1
      <3>4. Start(el)' = Start(el)
        BY <1>4, <1>7 DEF Start
      <3>5. (sector + l) * SectorSize = Base + pos + length
        BY <1>1, <1>2, <2>4, <3>1, <3>3
      <3>6. sector' * SectorSize = Base + pos + length
        BY <3>2, <3>5
      <3>7. pos' = Start(el) + nr_read'
        <4>1. /\ pos' = pos + length /\ nr_read' = nr_read + length /\ pos = Start(el) + nr_read
              /\ length \in Nat /\ nr_read \in Nat /\ Start(el) \in Nat /\ pos \in Nat
          BY <1>1, <1>2, <1>3, <1>7, <2>4
        <4>2. (Start(el) + nr_read) + length = Start(el) + (nr_read + length)
          BY <4>1
        <4> QED
          BY <4>1, <4>2, Zenon
      <3>8. sector' * SectorSize = Base' + pos'
        <4>1. Base + pos + length = Base + (pos + length)
          BY <1>1, <1>2
        <4> QED
          BY <1>4, <1>7, <3>6, <4>1, Zenon
      <3>9. pos' = Start(el)' + nr_read'
        BY <3>4, <3>7, Zenon
      <3> QED
        BY <3>8, <3>9
    <2>5. pos >= Size => pos' >= Size'
      BY <1>1, <1>2, <1>4, <1>7
    <2>6. ~ failed' => Moved(pos)'
      BY <1>4, <1>5, <1>7 DEF Moved
    <2>7. pc' # "idle"
      BY <1>7
    <2> QED
      BY <1>6, <2>3, <2>4, <2>5, <2>6, <2>7 DEF PosInv
  <1>8. ASSUME ~ failed', n >= iov_len(el) PROVE pos + length = Start(el + 1)
    <2>1. ~ failed
      BY <1>6, <1>8
    <2>2. pos = Start(el) + nr_read
      BY <2>1 DEF PosInv
    <2>3. nr_read + length = iov_len(el)
      <3>1. /\ nr_read \in Nat /\ length \in Nat /\ iov_len(el) \in Nat
            /\ length <= iov_len(el) - nr_read
        BY <1>1, <1>2
      <3>2. nr_read + length >= iov_len(el)
        BY <1>3, <1>8
      <3> QED
        BY <3>1, <3>2
    <2>4. (Start(el) + nr_read) + length = Start(el) + (nr_read + length)
      <3>1. Start(el) \in Nat /\ nr_read \in Nat /\ length \in Nat
        BY <1>1, <1>2
      <3> QED
        BY <3>1
    <2>5. Start(el + 1) = Start(el) + iov_len(el)
      BY <1>1
    <2> QED
      BY <2>2, <2>3, <2>4, <2>5, Zenon
  <1>9. CASE /\ n >= iov_len(el) /\ el < Len(req.ends)
             /\ el' = el + 1
             /\ first' = first + iov_len(el) \div SectorSize
             /\ nr_read' = 0 /\ pos' = Start(el + 1) /\ sector' = first'
             /\ pc' = "sector"
             /\ UNCHANGED ret
    <2>1. first' * SectorSize = Base + Start(el + 1)
      BY <1>9, NextIovec
    <2>2. Start(el)' = Start(el + 1)
      BY <1>9 DEF Start
    <2>3. pos' = Start(el)' + nr_read' /\ sector' * SectorSize = Base' + pos'
      <3>1. sector' * SectorSize = Base + Start(el + 1)
        BY <1>9, <2>1
      <3>2. Start(el + 1) \in Nat
        BY <1>1
      <3> QED
        BY <1>4, <1>9, <2>2, <3>1, <3>2
    <2>4. ~ failed' => Moved(pos)'
      BY <1>4, <1>5, <1>8, <1>9 DEF Moved
    <2>5. pc' # "idle"
      BY <1>9
    <2> QED
      BY <1>4, <2>1, <2>2, <2>3, <2>4, <2>5 DEF PosInv
  <1>10. CASE /\ n >= iov_len(el) /\ el = Len(req.ends)
              /\ Return(Size)
              /\ UNCHANGED <<el, qcowVars>>
    <2>1. PosInv'
      BY <1>10 DEF PosInv, Serving, Return
    <2>2. ~ failed' => \A k \in 1 .. Size : buf'[k] = Content[Base + k - 1]
      BY <1>1, <1>8, <1>10
    <2> QED
      BY <2>1, <2>2
  <1> QED
    BY <1>7, <1>9, <1>10 DEF Advance, n

\* A byte of the disk in the cluster that is read.
LEMMA ContentAt ==
    ASSUME ReqInv, QcowInv, pc \in Serving, get_l1_index(At) + 1 \in DOMAIN L1,
           NEW i \in 0 .. length - 1, At + i < Capacity[kind]
    PROVE  /\ Table = 0 => Content[At + i] = 0
           /\ Table # 0 /\ L2[Table][get_l2_index(At) + 1] = 0 => Content[At + i] = 0
           /\ Table # 0 /\ L2[Table][get_l2_index(At) + 1] # 0 =>
                  Content[At + i] =
                      ImageByte(L2[Table][get_l2_index(At) + 1] + (get_cluster_offset(At) + i))
  <1> DEFINE p == At + i
  <1>1. /\ At \in Nat /\ get_cluster_offset(At) \in 0 .. ClusterSize - 1
        /\ length \in 1 .. ClusterSize /\ ClusterSize \in Nat \ {0}
        /\ get_cluster_offset(At) + length <= ClusterSize
    BY LengthFacts
  <1>2. /\ kind = "qcow" /\ Capacity[kind] \in Nat
    BY ServingFacts
  <1>3. i \in Nat /\ get_cluster_offset(At) + i < ClusterSize /\ L2Entries \in Nat \ {0}
    BY <1>1, QcowAssumption
  <1>4. p \in Nat /\ p \in Bytes(kind)
    BY <1>1, <1>2, <1>3 DEF Bytes
  <1>5. p \div ClusterSize = At \div ClusterSize
        /\ p % ClusterSize = get_cluster_offset(At) + i
    <2>1. (At % ClusterSize) + i < ClusterSize
      BY <1>3 DEF get_cluster_offset
    <2>2. (At + i) \div ClusterSize = At \div ClusterSize
          /\ (At + i) % ClusterSize = (At % ClusterSize) + i
      BY <1>1, <1>3, <2>1, SameCluster
    <2> QED
      BY <2>2, Zenon DEF get_cluster_offset
  <1>6. (p \div ClusterSize) \div L2Entries = get_l1_index(At)
    <2>1. At \div (L2Entries * ClusterSize) = (At \div ClusterSize) \div L2Entries
      BY <1>1, <1>3, TableOfCluster
    <2> QED
      BY <1>5, <2>1, Zenon DEF get_l1_index
  <1>7. (p \div ClusterSize) % L2Entries = get_l2_index(At)
    BY <1>5 DEF get_l2_index
  <1> HIDE DEF p
  <1>8. Content[p] =
            LET n == p \div ClusterSize
                j == n \div L2Entries + 1
                t == IF j \in DOMAIN L1 THEN L1[j] ELSE 0
                c == IF t = 0 THEN 0 ELSE L2[t][(n % L2Entries) + 1]
            IN IF c = 0 THEN 0 ELSE ImageByte(c + (p % ClusterSize))
    BY <1>2, <1>4 DEF Content
  <1> DEFINE c == IF Table = 0 THEN 0 ELSE L2[Table][get_l2_index(At) + 1]
  <1>9. Content[p] = IF c = 0 THEN 0 ELSE ImageByte(c + (get_cluster_offset(At) + i))
    BY <1>5, <1>6, <1>7, <1>8 DEF Table
  <1> QED
    BY <1>9 DEF p

\* The bytes that were filled in are the disk's.
LEMMA FillStep ==
    ASSUME ReqInv, QcowInv, WholeReads, PosInv, pc \in Serving, NEW n \in 1 .. length,
           \A k \in DOMAIN buf : k \notin pos + 1 .. pos + n => buf'[k] = buf[k],
           \A k \in DOMAIN buf : \A i \in 0 .. length - 1 :
               k = pos + 1 + i /\ i < n /\ At + i < Capacity[kind] => buf'[k] = Content[At + i]
    PROVE  /\ \A k \in DOMAIN buf : buf'[k] \in {buf[k], Content[Base + k - 1]}
           /\ ~ failed /\ n = length =>
                  \A k \in 1 .. pos + length : buf'[k] = Content[Base + k - 1]
  <1>1. /\ pos \in Nat /\ Size \in Nat /\ Base \in Nat /\ DOMAIN buf = 1 .. Size
        /\ Base + Size <= Capacity[kind] /\ Capacity[kind] \in Nat
        /\ Start(el) \in Nat /\ iov_len(el) \in Nat /\ nr_read \in Nat
        /\ Start(el) + iov_len(el) \in 1 .. Size
    BY ServingFacts
  <1>2. length \in Nat \ {0} /\ length <= iov_len(el) - nr_read /\ n \in Nat
    BY LengthFacts
  <1>3. ASSUME NEW k \in DOMAIN buf, k \in pos + 1 .. pos + n
        PROVE  buf'[k] = Content[Base + k - 1]
    <2>1. k \in Nat /\ pos < k /\ k <= Size /\ k <= pos + n
      BY <1>1, <1>2, <1>3
    <2>2. ~ (pos >= Size)
      BY <1>1, <2>1
    <2>3. At = Base + pos
      BY <2>2 DEF PosInv, At
    <2> DEFINE i == k - pos - 1
    <2>4. i \in 0 .. length - 1 /\ i < n /\ k = pos + 1 + i /\ i \in Nat
      <3>1. /\ pos \in Nat /\ n \in Nat /\ length \in Nat /\ n <= length
            /\ k \in Nat /\ pos < k /\ k <= pos + n
        BY <1>1, <1>2, <2>1
      <3> QED
        BY <3>1
    <2>5. At + i = Base + k - 1
      BY <1>1, <2>1, <2>3
    <2>6. At + i < Capacity[kind]
      BY <1>1, <2>1, <2>5
    <2> HIDE DEF i
    <2>7. buf'[k] = Content[At + i]
      BY <2>4, <2>6
    <2> QED
      BY <2>5, <2>7
  <1>4. \A k \in DOMAIN buf : buf'[k] \in {buf[k], Content[Base + k - 1]}
    BY <1>3
  <1>5. ASSUME ~ failed, n = length, NEW k \in 1 .. pos + length
        PROVE  buf'[k] = Content[Base + k - 1]
    <2>1. pos = Start(el) + nr_read /\ Moved(pos)
      BY <1>5 DEF PosInv
    <2>2. k \in Nat /\ 1 <= k /\ k <= pos + length
      BY <1>1, <1>2
    <2>3. pos + length <= Size
      BY <1>1, <1>2, <2>1
    <2>4. k \in DOMAIN buf
      BY <1>1, <1>2, <2>2, <2>3
    <2>5. CASE k \in pos + 1 .. pos + n
      BY <1>3, <2>4, <2>5
    <2>6. CASE k \notin pos + 1 .. pos + n
      <3>1. k \in 1 .. pos
        BY <1>1, <1>2, <1>5, <2>2, <2>6
      <3> QED
        BY <2>1, <2>4, <2>6, <3>1 DEF Moved
    <2> QED
      BY <2>5, <2>6
  <1> QED
    BY <1>4, <1>5

\* What a step of a read from an image may do to the request.
ReadStep ==
    /\ DOMAIN buf' = DOMAIN buf
    /\ \A k \in DOMAIN buf : buf'[k] \in {buf[k], Content[Base + k - 1]}
    /\ failed' \in {failed, TRUE}
    /\ pc' # "idle" => ret' = ret
    /\ pc' = "idle" /\ ret' # Error /\ ~ failed' =>
           \A k \in DOMAIN buf : buf'[k] = Content[Base + k - 1]

LEMMA ServingInv ==
    ASSUME DiskInv, pc \in Serving, pc' \in Serving \cup {"idle", "dead"},
           UNCHANGED <<kind, file, req, writes>>, UNCHANGED total, DOMAIN buf' = DOMAIN buf,
           failed' \in BOOLEAN, ret' \in Error .. MaxSize, QcowInv', CacheInv'
    PROVE  DiskInv'
  <1>1. ReqInv /\ RawInv /\ req.op # "none" /\ kind = "qcow"
    BY DEF DiskInv, ReqInv
  <1>2. ReqInv'
    BY <1>1, ReqStep
  <1>3. Size' = Size
    BY RequestStays
  <1>4. pc' \notin {"raw", "mmap"}
    BY DEF Serving
  <1>5. AmountRead'
    BY <1>1 DEF AmountRead
  <1>6. RawInv'
    BY <1>1, <1>3, <1>4, <1>5 DEF RawInv
  <1> QED
    BY <1>2, <1>6 DEF DiskInv

\* A step that fails goes on as if it had read, with nothing read.
LEMMA FailedInv ==
    ASSUME DiskInv, pc \in Serving, Failed, UNCHANGED <<kind, file, cache, req, total, writes>>
    PROVE  DiskInv' /\ (WholeInv => WholeInv') /\ ReadStep
  <1>1. Advance(Width - 1) /\ failed' = TRUE /\ buf' = buf
    BY DEF Failed
  <1>2. ReqInv /\ QcowInv /\ CacheInv
    BY DEF DiskInv
  <1>3. Width - 1 \in 0 .. Width - 1
    BY ImageAssumption
  <1>4. /\ QcowInv' /\ pc' \in {"sector", "idle"} /\ ret' \in Error .. MaxSize
        /\ pc' = "sector" => ret' = ret
    BY <1>1, <1>2, <1>3, AdvanceTypes
  <1>5. DiskInv'
    BY <1>1, <1>2, <1>4, ServingInv, CacheStays DEF Serving
  <1>6. WholeInv => WholeInv'
    BY <1>2, AdvanceFailed DEF WholeInv, WholeReads
  <1>7. ReadStep
    BY <1>1, <1>4 DEF ReadStep
  <1> QED
    BY <1>5, <1>6, <1>7

\* A step that reads takes the request on by what it has read.
LEMMA AdvanceInv ==
    ASSUME DiskInv, pc \in Serving, NEW n \in 1 .. length, Advance(length),
           UNCHANGED <<kind, file, cache, req, total, writes>>, DOMAIN buf' = DOMAIN buf,
           failed' \in {failed, TRUE}, n # length => failed',
           WholeInv /\ WholeReads =>
               /\ \A k \in DOMAIN buf : k \notin pos + 1 .. pos + n => buf'[k] = buf[k]
               /\ \A k \in DOMAIN buf : \A i \in 0 .. length - 1 :
                      k = pos + 1 + i /\ i < n /\ At + i < Capacity[kind] =>
                          buf'[k] = Content[At + i]
    PROVE  /\ DiskInv' /\ (WholeInv => WholeInv')
           /\ WholeInv /\ WholeReads => ReadStep
  <1>1. ReqInv /\ QcowInv /\ CacheInv /\ failed \in BOOLEAN
    BY DEF DiskInv, ReqInv
  <1>2. length \in 0 .. Width - 1
    <2>1. /\ length \in Nat \ {0} /\ length <= iov_len(el) - nr_read
      BY <1>1, LengthFacts
    <2>2. iov_len(el) \in Nat /\ nr_read \in Nat /\ iov_len(el) < Width /\ Width \in Nat
      BY <1>1, ServingFacts
    <2> QED
      BY <2>1, <2>2
  <1>3. /\ QcowInv' /\ pc' \in {"sector", "idle"} /\ ret' \in Error .. MaxSize
        /\ pc' = "sector" => ret' = ret
    BY <1>1, <1>2, AdvanceTypes
  <1>4. DiskInv'
    BY <1>1, <1>3, ServingInv, CacheStays DEF Serving
  <1>5. ASSUME WholeInv, WholeReads PROVE PosInv' /\ ReadStep
    <2>1. PosInv
      BY <1>5 DEF WholeInv
    <2>2. /\ \A k \in DOMAIN buf : buf'[k] \in {buf[k], Content[Base + k - 1]}
          /\ ~ failed /\ n = length =>
                 \A k \in 1 .. pos + length : buf'[k] = Content[Base + k - 1]
      BY <1>1, <1>5, <2>1, FillStep
    <2>3. ~ failed' => ~ failed /\ n = length
      BY <1>1
    <2>4. /\ PosInv'
          /\ pc' = "idle" /\ ~ failed' => \A k \in 1 .. Size : buf'[k] = Content[Base + k - 1]
      BY <1>1, <1>5, <2>1, <2>2, <2>3, AdvanceRead
    <2>5. DOMAIN buf = 1 .. Size
      BY <1>1, ServingFacts
    <2> QED
      BY <1>3, <2>2, <2>4, <2>5 DEF ReadStep
  <1>6. WholeReads' <=> WholeReads
    BY DEF WholeReads
  <1> QED
    BY <1>4, <1>5, <1>6 DEF WholeInv

LEMMA PastEndInv ==
    ASSUME DiskInv, past_end PROVE DiskInv' /\ (WholeInv => WholeInv') /\ ReadStep
  <1>1. /\ pc \in Serving /\ pc' = "idle" /\ ret' = Error
        /\ UNCHANGED <<kind, file, cache, req, buf, failed, writes>>
        /\ UNCHANGED total /\ UNCHANGED qcowVars
    BY DEF past_end, Return, Serving, ioVars
  <1>2. QcowInv' /\ PosInv'
    BY <1>1, QcowStays DEF DiskInv, Serving
  <1>3. CacheInv' /\ failed \in BOOLEAN
    BY <1>1, CacheStays DEF DiskInv, ReqInv
  <1>4. ret' \in Error .. MaxSize
    BY <1>1, ImageAssumption DEF Error
  <1>5. DiskInv'
    BY <1>1, <1>2, <1>3, <1>4, ServingInv
  <1>6. ReadStep
    BY <1>1 DEF ReadStep
  <1> QED
    BY <1>2, <1>5, <1>6 DEF WholeInv

\* A step within a cluster read: only the place in the code and the cache change.
LEMMA TableStep ==
    ASSUME DiskInv, pc \in Serving, pc' \in {"table", "data"},
           UNCHANGED <<kind, file, req, buf, failed, writes>>, UNCHANGED <<ret, el, total>>,
           UNCHANGED qcowVars, CacheInv',
           At < Capacity[kind], get_l1_index(At) + 1 \in DOMAIN L1, Table # 0,
           pc' = "data" => cache' # <<>> /\ Last(cache').offset = Table
    PROVE  DiskInv' /\ (WholeInv => WholeInv') /\ ReadStep
  <1>1. ReqInv /\ QcowInv /\ failed \in BOOLEAN /\ ret \in Error .. MaxSize
    BY DEF DiskInv, ReqInv
  <1>2. /\ first' = first /\ sector' = sector /\ nr_read' = nr_read /\ pos' = pos
    BY DEF qcowVars
  <1>3. At' = At /\ Table' = Table
    BY <1>2 DEF At, Table
  <1>4. iov_len(el)' = iov_len(el) /\ Start(el)' = Start(el) /\ Base' = Base /\ Size' = Size
    BY DEF iov_len, Start, Base, Size
  <1>5. QcowInv'
    BY <1>1, <1>2, <1>3, <1>4 DEF QcowInv, Serving
  <1>6. DiskInv'
    BY <1>1, <1>5, ServingInv DEF Serving
  <1>7. Content' = Content
    BY DEF Content
  <1>8. PosInv => PosInv'
    BY <1>2, <1>4, <1>7 DEF PosInv, Moved, Serving
  <1>9. ReadStep
    BY DEF ReadStep
  <1> QED
    BY <1>6, <1>8, <1>9 DEF WholeInv, WholeReads

LEMMA ReadClusterInv ==
    ASSUME DiskInv, read_cluster
    PROVE  DiskInv' /\ (WholeInv => WholeInv') /\ (WholeInv /\ WholeReads => ReadStep)
  <1>1. /\ pc \in Serving /\ At < Capacity[kind]
        /\ UNCHANGED <<kind, file, cache, req, writes>> /\ UNCHANGED total
    BY DEF read_cluster, Serving
  <1>2. ReqInv /\ QcowInv /\ CacheInv
    BY DEF DiskInv
  <1> DEFINE i == get_l1_index(At) + 1
  <1>3. get_l1_index(At) \in Nat /\ length \in 1 .. length /\ ClusterSize \in Nat
        /\ length \in Nat
    <2>1. get_l1_index(At) \in Nat /\ length \in 1 .. ClusterSize /\ ClusterSize \in Nat
      BY <1>1, <1>2, LengthFacts
    <2> QED
      BY <2>1
  <1>4. i <= Len(L1) => i \in DOMAIN L1
    BY <1>3, ImageAssumption
  <1>5. CASE Failed
    BY <1>1, <1>5, FailedInv
  <1>6. CASE i <= Len(L1) /\ L1[i] = 0 /\ Deliver(length, Zero, 0) /\ UNCHANGED failed
    <2>0. buf' = Filled(pos, length, Zero, 0) /\ Advance(length)
      BY <1>6 DEF Deliver
    <2>1. DOMAIN buf' = DOMAIN buf
      BY <2>0 DEF Filled
    <2>2. \A k \in DOMAIN buf : k \notin pos + 1 .. pos + length => buf'[k] = buf[k]
      BY <2>0 DEF Filled
    <2>3. \A k \in DOMAIN buf : k \in pos + 1 .. pos + length => buf'[k] = 0
      BY <2>0 DEF Filled, Zero
    <2>4. ASSUME NEW k \in DOMAIN buf, NEW j \in 0 .. length - 1,
                 k = pos + 1 + j, j < length, At + j < Capacity[kind]
          PROVE  buf'[k] = Content[At + j]
      <3>1. Content[At + j] = 0
        BY <1>1, <1>2, <1>4, <1>6, <2>4, ContentAt DEF Table
      <3>2. pos \in Nat
        BY <1>2 DEF QcowInv
      <3>3. k \in pos + 1 .. pos + length
        BY <1>3, <2>4, <3>2
      <3> QED
        BY <2>3, <3>1, <3>3
    <2> QED
      BY <1>1, <1>3, <1>6, <2>0, <2>1, <2>2, <2>4, AdvanceInv
  <1>7. CASE /\ i <= Len(L1) /\ L1[i] # 0
             /\ pc' = "table"
             /\ UNCHANGED <<buf, ret, el, qcowVars, failed, astray>>
    BY <1>1, <1>2, <1>4, <1>7, CacheStays, TableStep DEF Table
  <1> QED
    BY <1>5, <1>6, <1>7 DEF read_cluster

\* The table of a QCOW image that is in use.
LEMMA TableFacts ==
    ASSUME DiskInv, pc \in {"table", "data"}
    PROVE  /\ ReqInv /\ QcowInv /\ CacheInv /\ pc \in Serving
           /\ At < Capacity[kind] /\ get_l1_index(At) + 1 \in DOMAIN L1 /\ Table # 0
           /\ Table \in DOMAIN L2 /\ Table \in Nat /\ L2[Table] \in [1 .. L2Entries -> Nat]
  <1>1. /\ ReqInv /\ QcowInv /\ CacheInv /\ pc \in Serving
        /\ At < Capacity[kind] /\ get_l1_index(At) + 1 \in DOMAIN L1 /\ Table # 0
    BY DEF DiskInv, QcowInv, Serving
  <1>2. Table \in DOMAIN L2 /\ Table \in Nat
    BY <1>1, ImageAssumption DEF Table
  <1> QED
    BY <1>1, <1>2, ImageAssumption

LEMMA L2HitInv ==
    ASSUME DiskInv, l2_hit PROVE DiskInv' /\ (WholeInv => WholeInv') /\ ReadStep
  <1>1. /\ pc = "table" /\ pc' = "data"
        /\ UNCHANGED <<kind, file, req, buf, failed, writes>> /\ UNCHANGED <<ret, el, total>>
        /\ UNCHANGED qcowVars
    BY DEF l2_hit, ioVars
  <1>2. PICK i \in cached(cache, Table) : cache' = l2_table_search(cache, i)
    BY DEF l2_hit
  <1>3. /\ ReqInv /\ QcowInv /\ CacheInv /\ pc \in Serving
        /\ At < Capacity[kind] /\ get_l1_index(At) + 1 \in DOMAIN L1 /\ Table # 0
    BY <1>1, TableFacts
  <1>4. cache \in Seq(Nodes) /\ Len(cache) <= MaxCacheNodes
        /\ \A j \in DOMAIN cache : cache[j].offset \in DOMAIN L2
    BY <1>3 DEF CacheInv
  <1>5. i \in 1 .. Len(cache) /\ cache[i].offset = Table /\ Len(cache) \in Nat
    BY <1>2, <1>4 DEF cached
  <1>6. /\ cache' \in Seq(Nodes) /\ Len(cache') = Len(cache)
        /\ \A j \in 1 .. Len(cache) :
               cache'[j] = IF j < i THEN cache[j]
                           ELSE IF j < Len(cache) THEN cache[j + 1] ELSE cache[i]
    BY <1>2, <1>4, <1>5, SearchMoves
  <1>7. ASSUME NEW j \in 1 .. Len(cache) PROVE cache'[j].offset \in DOMAIN L2
    <2>1. CASE j < i
      BY <1>4, <1>5, <1>6, <2>1
    <2>2. CASE ~ (j < i) /\ j < Len(cache)
      <3>1. j + 1 \in DOMAIN cache
        BY <1>4, <1>5, <2>2
      <3> QED
        BY <1>4, <1>6, <2>2, <3>1
    <2>3. CASE ~ (j < i) /\ ~ (j < Len(cache))
      BY <1>4, <1>5, <1>6, <2>3
    <2> QED
      BY <2>1, <2>2, <2>3
  <1>8. "short" \notin HostErrors => Sound(cache')
    BY <1>2, <1>3, <1>4, <1>5, SearchSound DEF CacheInv
  <1>9. CacheInv'
    <2>1. DOMAIN cache' = 1 .. Len(cache)
      BY <1>6
    <2>2. \A j \in DOMAIN cache' : cache'[j].offset \in DOMAIN L2
      BY <1>7, <2>1
    <2>3. Sound(cache)' <=> Sound(cache')
      BY DEF Sound
    <2> QED
      BY <1>4, <1>6, <1>8, <2>2, <2>3 DEF CacheInv
  <1>10. cache' # <<>> /\ Last(cache').offset = Table
    <2>1. Len(cache') \in 1 .. Len(cache) /\ Len(cache') = Len(cache) /\ Len(cache) \in 1 .. Len(cache)
      BY <1>5, <1>6
    <2>2. cache'[Len(cache)] = cache[i]
      BY <1>5, <1>6, <2>1
    <2>3. Len(cache') # 0
      BY <2>1
    <2> QED
      BY <1>5, <1>6, <2>1, <2>2, <2>3 DEF Last
  <1> QED
    BY <1>1, <1>3, <1>9, <1>10, TableStep

LEMMA L2MissInv ==
    ASSUME DiskInv, l2_miss PROVE DiskInv' /\ (WholeInv => WholeInv') /\ ReadStep
  <1>1. /\ pc = "table" /\ pc' = "data" /\ cached(cache, Table) = {}
        /\ UNCHANGED <<kind, file, req, buf, failed, writes>> /\ UNCHANGED <<ret, el, total>>
        /\ UNCHANGED qcowVars
    BY DEF l2_miss, ioVars
  <1>2. PICK n \in (IF "short" \in HostErrors THEN 1 .. L2Entries ELSE {L2Entries}) :
            cache' = cache_table(cache,
                         [offset |-> Table,
                          table |-> [e \in 1 .. L2Entries |-> IF e <= n THEN L2[Table][e] ELSE 0]])
    BY DEF l2_miss
  <1> DEFINE t == [e \in 1 .. L2Entries |-> IF e <= n THEN L2[Table][e] ELSE 0]
             x == [offset |-> Table, table |-> t]
  <1>3. /\ ReqInv /\ QcowInv /\ CacheInv /\ pc \in Serving
        /\ At < Capacity[kind] /\ get_l1_index(At) + 1 \in DOMAIN L1 /\ Table # 0
        /\ Table \in DOMAIN L2 /\ Table \in Nat /\ L2[Table] \in [1 .. L2Entries -> Nat]
    BY <1>1, TableFacts
  <1>4. cache \in Seq(Nodes) /\ Len(cache) <= MaxCacheNodes /\ Len(cache) \in Nat
        /\ \A j \in DOMAIN cache : cache[j].offset \in DOMAIN L2
    BY <1>3 DEF CacheInv
  <1>5. t \in [1 .. L2Entries -> Nat]
    BY <1>3
  <1>6. "short" \notin HostErrors => t = L2[Table]
    <2>1. ASSUME "short" \notin HostErrors PROVE t = L2[Table]
      <3>1. n = L2Entries
        BY <1>2, <2>1
      <3>2. \A e \in 1 .. L2Entries : t[e] = L2[Table][e]
        BY <3>1, QcowAssumption
      <3> QED
        BY <1>3, <1>5, <3>2
    <2> QED
      BY <2>1
  <1> HIDE DEF t
  <1>7. x \in Nodes /\ x.offset = Table /\ x.table = t
    BY <1>3, <1>5 DEF Nodes
  <1>8. cache' = cache_table(cache, x)
    BY <1>2 DEF t
  <1> HIDE DEF x
  <1>9. PICK k \in {0, 1} :
            /\ cache' \in Seq(Nodes)
            /\ Len(cache') = Len(cache) - k + 1
            /\ Len(cache) - k \in 0 .. MaxCacheNodes - 1
            /\ \A j \in 1 .. Len(cache) - k : cache'[j] = cache[j + k]
            /\ cache'[Len(cache) - k + 1] = x
    BY <1>4, <1>7, <1>8, CachingDrops
  <1>10. "short" \notin HostErrors => Sound(cache')
    BY <1>1, <1>3, <1>4, <1>6, <1>7, <1>8, CachingSound DEF CacheInv
  <1>11. CacheInv'
    <2>1. DOMAIN cache' = 1 .. Len(cache) - k + 1 /\ Len(cache') <= MaxCacheNodes
      BY <1>4, <1>9, QcowAssumption
    <2>2. ASSUME NEW j \in DOMAIN cache' PROVE cache'[j].offset \in DOMAIN L2
      <3>1. CASE j \in 1 .. Len(cache) - k
        <4>1. j + k \in DOMAIN cache
          BY <1>4, <3>1
        <4> QED
          BY <1>4, <1>9, <3>1, <4>1
      <3>2. CASE j = Len(cache) - k + 1
        BY <1>3, <1>7, <1>9, <3>2
      <3> QED
        BY <1>4, <2>1, <3>1, <3>2
    <2>3. Sound(cache)' <=> Sound(cache')
      BY DEF Sound
    <2> QED
      BY <1>9, <1>10, <2>1, <2>2, <2>3 DEF CacheInv
  <1>12. cache' # <<>> /\ Last(cache').offset = Table
    <2>1. Len(cache') # 0
      BY <1>4, <1>9
    <2> QED
      BY <1>7, <1>9, <2>1 DEF Last
  <1> QED
    BY <1>1, <1>3, <1>11, <1>12, TableStep

\* The entry in use is the one on disk.
LEMMA ClusterFacts ==
    ASSUME DiskInv, pc = "data"
    PROVE  /\ Cluster \in Nat
           /\ "short" \notin HostErrors => Cluster = L2[Table][get_l2_index(At) + 1]
  <1>1. /\ ReqInv /\ QcowInv /\ CacheInv /\ pc \in Serving
    BY TableFacts
  <1>2. cache \in Seq(Nodes) /\ cache # <<>> /\ Last(cache).offset = Table
    BY <1>1 DEF CacheInv, QcowInv
  <1>3. Len(cache) \in DOMAIN cache /\ Last(cache) = cache[Len(cache)]
    BY <1>2 DEF Last
  <1>4. Last(cache) \in Nodes
    BY <1>2, <1>3
  <1>5. get_l2_index(At) + 1 \in 1 .. L2Entries
    <2>1. get_l2_index(At) \in 0 .. L2Entries - 1 /\ L2Entries \in Nat \ {0}
      BY <1>1, LengthFacts, QcowAssumption
    <2> QED
      BY <2>1
  <1>6. Cluster \in Nat
    BY <1>4, <1>5 DEF Cluster, Nodes
  <1>7. "short" \notin HostErrors => Last(cache).table = L2[Table]
    BY <1>1, <1>2, <1>3 DEF CacheInv, Sound
  <1> QED
    BY <1>6, <1>7 DEF Cluster

LEMMA ReadDataInv ==
    ASSUME DiskInv, NEW n, read_data(n)
    PROVE  DiskInv' /\ (WholeInv => WholeInv') /\ (WholeInv /\ WholeReads => ReadStep)
  <1>1. /\ pc = "data" /\ Cluster # 0
        /\ n \in IF Cluster \notin CompressedAt /\ ("data" \in HostErrors \/ Beyond)
                 THEN 1 .. length ELSE {length}
        /\ buf' = Filled(pos, n, ImageByte, Cluster + get_cluster_offset(At))
        /\ Advance(length)
        /\ failed' = (failed \/ n < length)
        /\ UNCHANGED <<kind, file, cache, req, writes>> /\ UNCHANGED total
    BY DEF read_data, Deliver
  <1>2. /\ ReqInv /\ QcowInv /\ CacheInv /\ pc \in Serving
        /\ At < Capacity[kind] /\ get_l1_index(At) + 1 \in DOMAIN L1 /\ Table # 0
    BY <1>1, TableFacts
  <1>3. /\ get_cluster_offset(At) \in Nat /\ length \in Nat \ {0} /\ pos \in Nat
    <2>1. /\ get_cluster_offset(At) \in 0 .. ClusterSize - 1 /\ length \in 1 .. ClusterSize
          /\ ClusterSize \in Nat
      BY <1>2, LengthFacts
    <2> QED
      BY <1>2, <2>1 DEF QcowInv
  <1>4. n \in 1 .. length
    BY <1>1, <1>3
  <1>5. DOMAIN buf' = DOMAIN buf
    BY <1>1 DEF Filled
  <1>6. \A k \in DOMAIN buf : k \notin pos + 1 .. pos + n => buf'[k] = buf[k]
    BY <1>1 DEF Filled
  <1>7. ASSUME NEW k \in DOMAIN buf, k \in pos + 1 .. pos + n
        PROVE  buf'[k] = Cluster + get_cluster_offset(At) + k - pos - 1
    BY <1>1, <1>7 DEF Filled, ImageByte
  <1>8. Cluster \in Nat /\ ("short" \notin HostErrors => Cluster = L2[Table][get_l2_index(At) + 1])
    BY <1>1, ClusterFacts
  <1>9. ASSUME WholeReads, NEW k \in DOMAIN buf, NEW i \in 0 .. length - 1,
               k = pos + 1 + i, i < n, At + i < Capacity[kind]
        PROVE  buf'[k] = Content[At + i]
    <2>1. Cluster = L2[Table][get_l2_index(At) + 1]
      BY <1>8, <1>9 DEF WholeReads
    <2>2. Content[At + i] = Cluster + (get_cluster_offset(At) + i)
      BY <1>1, <1>2, <1>9, <2>1, ContentAt DEF ImageByte
    <2>3. i \in Nat /\ n \in Nat
      BY <1>3, <1>4
    <2>4. k \in pos + 1 .. pos + n
      BY <1>3, <1>9, <2>3
    <2>5. Cluster + get_cluster_offset(At) + k - pos - 1 = Cluster + (get_cluster_offset(At) + i)
      BY <1>3, <1>8, <1>9, <2>3
    <2> QED
      BY <1>7, <2>2, <2>4, <2>5
  <1>10. failed' \in {failed, TRUE} /\ (n # length => failed')
    <2>1. failed \in BOOLEAN
      BY <1>2 DEF ReqInv
    <2>2. n # length => n < length
      BY <1>3, <1>4
    <2> QED
      BY <1>1, <2>1, <2>2
  <1> QED
    BY <1>1, <1>2, <1>4, <1>5, <1>6, <1>9, <1>10, AdvanceInv

LEMMA ZeroClusterInv ==
    ASSUME DiskInv, zero_cluster
    PROVE  DiskInv' /\ (WholeInv => WholeInv') /\ (WholeInv /\ WholeReads => ReadStep)
  <1>1. /\ pc = "data" /\ Cluster = 0
        /\ buf' = Filled(pos, length, Zero, 0)
        /\ Advance(length)
        /\ UNCHANGED <<kind, file, cache, req, writes>> /\ UNCHANGED total /\ UNCHANGED failed
    BY DEF zero_cluster, Deliver
  <1>2. /\ ReqInv /\ QcowInv /\ CacheInv /\ pc \in Serving
        /\ At < Capacity[kind] /\ get_l1_index(At) + 1 \in DOMAIN L1 /\ Table # 0
    BY <1>1, TableFacts
  <1>3. length \in Nat \ {0} /\ pos \in Nat /\ length \in 1 .. length
    <2>1. length \in 1 .. ClusterSize /\ ClusterSize \in Nat
      BY <1>2, LengthFacts
    <2> QED
      BY <1>2, <2>1 DEF QcowInv
  <1>4. DOMAIN buf' = DOMAIN buf
    BY <1>1 DEF Filled
  <1>5. \A k \in DOMAIN buf : k \notin pos + 1 .. pos + length => buf'[k] = buf[k]
    BY <1>1 DEF Filled
  <1>6. \A k \in DOMAIN buf : k \in pos + 1 .. pos + length => buf'[k] = 0
    BY <1>1 DEF Filled, Zero
  <1>7. ASSUME WholeReads, NEW k \in DOMAIN buf, NEW i \in 0 .. length - 1,
               k = pos + 1 + i, i < length, At + i < Capacity[kind]
        PROVE  buf'[k] = Content[At + i]
    <2>1. L2[Table][get_l2_index(At) + 1] = 0
      BY <1>1, <1>7, ClusterFacts DEF WholeReads
    <2>2. Content[At + i] = 0
      BY <1>2, <1>7, <2>1, ContentAt
    <2>3. k \in pos + 1 .. pos + length
      BY <1>3, <1>7
    <2> QED
      BY <1>6, <2>2, <2>3
  <1> QED
    BY <1>1, <1>2, <1>3, <1>4, <1>5, <1>7, AdvanceInv

LEMMA L2FailsInv ==
    ASSUME DiskInv, l2_fails PROVE DiskInv' /\ (WholeInv => WholeInv') /\ ReadStep
  BY FailedInv DEF l2_fails, Serving

LEMMA DataFailsInv ==
    ASSUME DiskInv, data_fails PROVE DiskInv' /\ (WholeInv => WholeInv') /\ ReadStep
  BY FailedInv DEF data_fails, Serving

LEMMA SegfaultInv ==
    ASSUME DiskInv, segfault PROVE DiskInv' /\ (WholeInv => WholeInv') /\ ReadStep
  <1>1. /\ pc \in Serving /\ pc' = "dead"
        /\ UNCHANGED <<kind, file, cache, req, buf, ret, failed, writes>>
        /\ UNCHANGED total /\ UNCHANGED qcowVars
    BY DEF segfault, Serving, ioVars
  <1>2. QcowInv' /\ PosInv'
    BY <1>1, QcowStays DEF DiskInv, Serving
  <1>3. CacheInv' /\ failed \in BOOLEAN /\ ret \in Error .. MaxSize
    BY <1>1, CacheStays DEF DiskInv, ReqInv
  <1>4. DiskInv'
    BY <1>1, <1>2, <1>3, ServingInv
  <1>5. ReadStep
    BY <1>1 DEF ReadStep
  <1> QED
    BY <1>2, <1>4, <1>5 DEF WholeInv

\* Memory beyond the iovecs is written only after a cluster could not be read.
LEMMA AstrayStep ==
    ASSUME DiskInv, WholeInv, WholeReads, astray' = astray \/ astray' = (astray \/ Beyond),
           astray \in BOOLEAN, pc \in Serving
    PROVE  astray' \in {astray, failed}
  <1>1. ReqInv /\ QcowInv /\ PosInv
    BY DEF DiskInv, WholeInv
  <1>2. pos >= Size => failed
    <2>1. /\ Start(el) \in Nat /\ Start(el) + iov_len(el) = req.ends[el]
          /\ req.ends[el] \in 1 .. Size /\ Size \in Nat /\ iov_len(el) \in Nat
          /\ nr_read \in Nat /\ nr_read < iov_len(el)
      BY <1>1, ServingFacts
    <2>2. Start(el) + nr_read < Size
      BY <2>1
    <2> QED
      BY <1>1, <2>1, <2>2 DEF PosInv
  <1>3. failed \in BOOLEAN
    BY <1>1 DEF ReqInv
  <1>4. Beyond => failed = TRUE
    BY <1>2, <1>3 DEF Beyond
  <1>5. Beyond \in BOOLEAN
    BY DEF Beyond
  <1>6. CASE Beyond
    <2>1. (astray \/ Beyond) = TRUE
      BY <1>6, Zenon
    <2> QED
      BY <1>4, <1>6, <2>1
  <1>7. CASE ~Beyond
    <2>1. (astray \/ Beyond) = astray
      BY <1>7, Zenon
    <2> QED
      BY <2>1
  <1> QED
    BY <1>6, <1>7

(***************************************************************************)
(* The invariant holds                                                     *)
(***************************************************************************)

\* A request begins with nothing moved.
LEMMA SubmitInv ==
    ASSUME DiskInv, NEW op \in {"read", "write"},
           NEW s \in 0 .. Capacity[kind] \div SectorSize - 1, NEW ends \in Iovs,
           Submit(op, s, ends)
    PROVE  DiskInv' /\ WholeInv'
  <1>1. /\ pc = "idle"
        /\ s * SectorSize + Last(ends) <= Capacity[kind]
        /\ op = "write" => kind # "qcow" /\ writes < MaxWrites
        /\ req' = [op |-> op, sector |-> s, ends |-> ends]
        /\ DOMAIN buf' = 1 .. Last(ends)
        /\ writes' = IF op = "write" THEN writes + 1 ELSE writes
        /\ pc' = IF kind = "qcow" THEN "sector" ELSE kind
        /\ el' = 1 /\ total' = 0 /\ failed' = FALSE
        /\ offset' = s * SectorSize
        /\ first' = s /\ sector' = s /\ nr_read' = 0 /\ pos' = 0
        /\ UNCHANGED <<kind, file, cache, ret>>
    BY DEF Submit
  <1>2. ReqInv /\ RawInv /\ QcowInv /\ CacheInv
    BY DEF DiskInv
  <1>3. /\ Len(ends) \in Nat \ {0} /\ StartIn(ends, Len(ends) + 1) = Last(ends)
        /\ Last(ends) \in 1 .. MaxSize /\ MaxSize \in Nat
        /\ StartIn(ends, 1) = 0 /\ StartIn(ends, 1) < ends[1] /\ ends[1] \in 1 .. Last(ends)
    <2>1. /\ Len(ends) \in Nat \ {0} /\ StartIn(ends, Len(ends) + 1) = Last(ends)
          /\ Last(ends) \in 1 .. MaxSize
          /\ \A j \in 1 .. Len(ends) : StartIn(ends, j) < ends[j] /\ ends[j] \in 1 .. Last(ends)
      BY IovsEnd
    <2>2. 1 \in 1 .. Len(ends)
      BY <2>1
    <2> QED
      BY <2>1, <2>2, ImageAssumption DEF StartIn
  <1>4. s \in Nat /\ Capacity[kind] \in Nat /\ SectorSize \in Nat /\ s * SectorSize \in Nat
    <2>1. kind \in Kinds /\ Capacity[kind] \in Nat /\ SectorSize \in Nat \ {0}
      BY <1>2, ImageAssumption DEF ReqInv
    <2>2. Capacity[kind] \div SectorSize \in Nat
      BY <2>1, Division
    <2>3. s \in Nat
      BY <2>2
    <2> QED
      BY <2>1, <2>3
  <1>5. /\ Base' = s * SectorSize /\ Size' = Last(ends) /\ Start(1)' = 0
        /\ iov_len(1)' = ends[1] /\ req'.ends = ends /\ req'.op = op /\ req'.sector = s
    BY <1>1, <1>3 DEF Base, Size, Start, iov_len
  <1>6. pc' \in {"raw", "mmap", "sector"} /\ (pc' = "sector" <=> kind = "qcow")
    BY <1>1, <1>2, ImageAssumption DEF ReqInv
  <1>7. ReqInv'
    <2>1. writes' \in 0 .. MaxWrites
      BY <1>1, <1>2, ImageAssumption DEF ReqInv
    <2>2. /\ req'.op \in {"none", "read", "write"} /\ req'.op # "none"
          /\ req'.sector \in Nat /\ req'.ends \in Iovs /\ Base' + Size' <= Capacity[kind]'
          /\ DOMAIN buf' = 1 .. Size'
      BY <1>1, <1>4, <1>5
    <2>3. /\ pc' \in {"idle", "raw", "mmap", "dead"} \cup Serving
          /\ pc' \in {"raw", "mmap"} => kind' # "qcow"
          /\ pc' \in Serving => kind' = "qcow" /\ req'.op = "read"
      BY <1>1, <1>5, <1>6 DEF Serving
    <2>4. /\ kind' \in Kinds /\ DOMAIN file' = IF kind' = "qcow" THEN {} ELSE Bytes(kind')
          /\ ret' \in Error .. MaxSize
      BY <1>1, <1>2 DEF ReqInv
    <2> QED
      BY <1>1, <2>1, <2>2, <2>3, <2>4 DEF ReqInv
  <1>8. RawInv'
    <2>1. total' \in 0 .. Size'
      BY <1>1, <1>3, <1>5
    <2>2. el' \in 1 .. Len(req'.ends) /\ total' = Start(el)' /\ offset' = Base' + total'
      <3>1. Start(el)' = 0
        BY <1>1, <1>5 DEF Start
      <3> QED
        BY <1>1, <1>3, <1>4, <1>5, <3>1
    <2>3. Moved(total)'
      BY <1>1 DEF Moved
    <2>4. AmountRead'
      BY <1>6 DEF AmountRead, IsAmountRead
    <2> QED
      BY <2>1, <2>2, <2>3, <2>4 DEF RawInv
  <1>9. QcowInv'
    <2>1. first' \in Nat /\ sector' \in Nat /\ pos' \in Nat /\ nr_read' \in 0 .. Width - 1
      BY <1>1, <1>4, ImageAssumption
    <2>2. el' \in 1 .. Len(req'.ends) /\ nr_read' < iov_len(el)'
      BY <1>1, <1>3, <1>5 DEF iov_len, Start
    <2> QED
      BY <1>6, <2>1, <2>2 DEF QcowInv
  <1>10. CacheInv'
    BY <1>1, <1>2, CacheStays
  <1>11. PosInv'
    <2>1. Start(el)' = 0
      BY <1>1, <1>5 DEF Start
    <2>2. first' * SectorSize = Base' + Start(el)'
      BY <1>1, <1>4, <1>5, <2>1
    <2>3. pos' = Start(el)' + nr_read' /\ sector' * SectorSize = Base' + pos'
      BY <1>1, <1>4, <1>5, <2>1
    <2>4. Moved(pos)'
      BY <1>1 DEF Moved
    <2> QED
      BY <2>2, <2>3, <2>4 DEF PosInv
  <1> QED
    BY <1>7, <1>8, <1>9, <1>10, <1>11 DEF DiskInv, WholeInv

LEMMA InitInv == Init => DiskInv /\ WholeInv
  <1> SUFFICES ASSUME Init PROVE DiskInv /\ WholeInv
    OBVIOUS
  <1>1. /\ kind \in Kinds
        /\ file = IF kind = "qcow" THEN <<>> ELSE [p \in Bytes(kind) |-> DiskByte(p)]
        /\ cache = <<>> /\ req = NoReq /\ pc = "idle" /\ ret = 0
        /\ el = 1 /\ total = 0 /\ first = 0 /\ sector = 0 /\ nr_read = 0 /\ pos = 0
        /\ failed = FALSE /\ writes = 0
    BY DEF Init
  <1>2. req.op = "none" /\ req.ends = <<>> /\ Size = 0
    BY <1>1 DEF NoReq, Size, Start, StartIn
  <1>3. DOMAIN file = IF kind = "qcow" THEN {} ELSE Bytes(kind)
    BY <1>1
  <1>4. ReqInv
    <2>1. ret \in Error .. MaxSize /\ writes \in 0 .. MaxWrites /\ failed \in BOOLEAN
      <3>1. MaxSize \in Nat /\ MaxWrites \in Nat
        BY ImageAssumption
      <3>2. ret = 0 /\ writes = 0 /\ failed = FALSE
        BY <1>1
      <3>3. 0 \in Error .. MaxSize
        BY <3>1 DEF Error
      <3>4. ret \in Error .. MaxSize
        BY <3>2, <3>3
      <3>5. writes \in 0 .. MaxWrites
        BY <3>1, <3>2
      <3>6. failed \in BOOLEAN
        BY <3>2, Zenon
      <3> QED
        BY <3>4, <3>5, <3>6
    <2>2. /\ pc \in {"idle", "raw", "mmap", "dead"} \cup Serving
          /\ pc \notin {"raw", "mmap"} /\ pc \notin Serving
      BY <1>1 DEF Serving
    <2> QED
      BY <1>1, <1>2, <1>3, <2>1, <2>2 DEF ReqInv
  <1>5. RawInv
    <2>1. AmountRead
      BY <1>2 DEF AmountRead, IsAmountRead
    <2>2. total \in 0 .. Size /\ pc \notin {"raw", "mmap"}
      BY <1>1, <1>2
    <2> QED
      BY <2>1, <2>2 DEF RawInv
  <1>6. QcowInv
    BY <1>1, ImageAssumption DEF QcowInv, Serving
  <1>7. CacheInv
    <2>1. cache \in Seq(Nodes) /\ Len(cache) = 0 /\ DOMAIN cache = {}
      BY <1>1
    <2> QED
      BY <2>1, QcowAssumption DEF CacheInv, Sound
  <1>8. WholeInv
    BY <1>1 DEF WholeInv, PosInv, Serving
  <1> QED
    BY <1>4, <1>5, <1>6, <1>7, <1>8 DEF DiskInv

LEMMA StutterInv ==
    ASSUME DiskInv, WholeInv, UNCHANGED vars PROVE DiskInv' /\ WholeInv'
  <1>1. /\ kind' = kind /\ file' = file /\ cache' = cache /\ req' = req /\ buf' = buf
        /\ pc' = pc /\ ret' = ret /\ el' = el /\ total' = total /\ offset' = offset
        /\ first' = first /\ sector' = sector /\ nr_read' = nr_read /\ pos' = pos
        /\ failed' = failed /\ writes' = writes
    BY DEF vars, ioVars, qcowVars
  <1>2. /\ Base' = Base /\ Size' = Size /\ Start(el)' = Start(el) /\ iov_len(el)' = iov_len(el)
        /\ Content' = Content /\ At' = At /\ Table' = Table
    BY <1>1 DEF Base, Size, Start, iov_len, Content, At, Table
  <1>3. ReqInv'
    BY <1>1, <1>2 DEF DiskInv, ReqInv
  <1>4. RawInv'
    BY <1>1, <1>2 DEF DiskInv, RawInv, Moved, AmountRead, IsAmountRead
  <1>5. QcowInv'
    BY <1>1, <1>2 DEF DiskInv, QcowInv
  <1>6. CacheInv'
    BY <1>1, CacheStays DEF DiskInv
  <1>7. WholeInv'
    BY <1>1, <1>2 DEF WholeInv, WholeReads, PosInv, Moved
  <1> QED
    BY <1>3, <1>4, <1>5, <1>6, <1>7 DEF DiskInv

LEMMA NextInv ==
    ASSUME DiskInv, WholeInv, [Next]_vars PROVE DiskInv' /\ WholeInv'
  <1>1. CASE Request
    BY <1>1, SubmitInv DEF Request
  <1>2. CASE memcpy
    BY <1>2, MemcpyInv DEF WholeInv
  <1>3. CASE past_end \/ l2_hit \/ l2_miss \/ l2_fails \/ data_fails \/ segfault
    BY <1>3, PastEndInv, L2HitInv, L2MissInv, L2FailsInv, DataFailsInv, SegfaultInv
  <1>4. CASE read_cluster \/ zero_cluster
    BY <1>4, ReadClusterInv, ZeroClusterInv
  <1>5. CASE \E n \in 1 .. ClusterSize : read_data(n)
    BY <1>5, ReadDataInv
  <1>6. CASE transfer_fails
    BY <1>6, TransferFailsInv DEF WholeInv
  <1>7. CASE \E n \in 1 .. MaxSize : Transfer(n)
    BY <1>7, PreadvInv, PwritevInv DEF WholeInv, Transfer
  <1>8. CASE UNCHANGED vars
    BY <1>8, StutterInv
  <1> QED
    BY <1>1, <1>2, <1>3, <1>4, <1>5, <1>6, <1>7, <1>8 DEF Next, Copy

LEMMA NextAstray == astray \in BOOLEAN /\ [Next]_vars => (astray \in BOOLEAN)'
  <1> SUFFICES ASSUME astray \in BOOLEAN, [Next]_vars PROVE astray' \in BOOLEAN
    OBVIOUS
  <1>1. astray' = astray \/ astray' = (astray \/ Beyond) \/ astray' = FALSE
    BY Zenon DEF Next, Request, Submit, Copy, memcpy, past_end, read_cluster, l2_hit, l2_miss,
       l2_fails, read_data, zero_cluster, data_fails, segfault, Failed, Deliver, Transfer,
       preadv, pwritev, transfer_fails, vars
  <1>2. (astray \/ Beyond) \in BOOLEAN
    BY Zenon
  <1> QED
    BY <1>1, <1>2

(***************************************************************************)
(* Theorems                                                                *)
(***************************************************************************)

\* The invariants hold of every run of requests: those of one disk always, and
\* those of requests and clusters of whole sectors when the disk has only such.
THEOREM InvHolds == Safety => [](DiskInv /\ WholeInv /\ astray \in BOOLEAN)
  <1>1. Init => DiskInv /\ WholeInv /\ astray \in BOOLEAN
    <2>1. Init => astray \in BOOLEAN
      BY DEF Init
    <2> QED
      BY <2>1, InitInv
  <1>2. DiskInv /\ WholeInv /\ [Next]_vars => (DiskInv /\ WholeInv)'
    BY NextInv
  <1> QED
    BY <1>1, <1>2, NextAstray, PTL DEF Safety

\* Every variable has its type, in any sequence of requests, failures and short
\* transfers: no request leaves its iovecs, and the cache its limit.
THEOREM TypeCorrect == Safety => []TypeOK
  <1>1. DiskInv /\ astray \in BOOLEAN => TypeOK
    <2> SUFFICES ASSUME DiskInv, astray \in BOOLEAN PROVE TypeOK
      OBVIOUS
    <2>1. pc \notin {"idle", "dead"} => el \in 1 .. Len(req.ends)
      BY DEF DiskInv, ReqInv, RawInv, QcowInv, Serving
    <2> QED
      BY <2>1 DEF DiskInv, ReqInv, RawInv, QcowInv, CacheInv, Serving, TypeOK
  <1> QED
    BY <1>1, InvHolds, PTL

\* Unless part of a table was read, a cached table is the one on disk, is cached
\* once, and the one in use is cached: cache_table does not free what it brought.
THEOREM CacheIsSound == ASSUME "short" \notin HostErrors PROVE Safety => []CacheSound
  <1>1. DiskInv => CacheSound
    BY DEF DiskInv, CacheInv, QcowInv, Sound, CacheSound
  <1> QED
    BY <1>1, InvHolds, PTL

\* What preadv_in_full says it has read of a raw disk, it has read, also when the
\* host failed after some of it.
THEOREM AmountIsRead == Safety => []AmountRead
  <1>1. DiskInv => AmountRead
    BY DEF DiskInv, RawInv
  <1> QED
    BY <1>1, InvHolds, PTL

(***************************************************************************)
(* The image implements the service                                        *)
(***************************************************************************)

\* The request as the service sees it.
Asked == IF pc = "idle" THEN NoReq ELSE [op |-> req.op, start |-> Base]

\* Steps of a read ...
LEMMA ReadRefines ==
    ASSUME ReqInv, pc # "idle", req.op = "read", UNCHANGED <<kind, file, req>>, ReadStep
    PROVE  Disk!Move
  <1>1. Asked = [op |-> req.op, start |-> Base] /\ Asked # NoReq
    BY DEF Asked, NoReq
  <1>2. Content' = Content /\ Base' = Base
    BY DEF Content, Base
  <1>3. Asked.op = "read" /\ Asked.start = Base
    BY <1>1
  <1>4. \A k \in DOMAIN buf : buf'[k] \in {buf[k], Content[Asked.start + k - 1]}
    BY <1>3 DEF ReadStep
  <1>5. failed' \in {failed, Asked.op = "read"}
    BY <1>3 DEF ReadStep
  <1>6. \/ Asked' = Asked /\ (ret >= 0)' = (ret >= 0)
        \/ /\ Asked' = NoReq
           /\ (ret >= 0)' \in BOOLEAN
           /\ (ret >= 0)' /\ ~ failed' =>
                  \A k \in DOMAIN buf : buf'[k] = Content'[Asked.start + k - 1]
    <2>1. CASE pc' # "idle"
      BY <1>1, <1>2, <2>1 DEF Asked, ReadStep
    <2>2. CASE pc' = "idle"
      <3>1. Asked' = NoReq
        BY <2>2 DEF Asked, NoReq
      <3>2. (ret >= 0)' => ret' # Error
        BY DEF Error
      <3> QED
        BY <1>2, <1>3, <2>2, <3>1, <3>2 DEF ReadStep
    <2> QED
      BY <2>1, <2>2
  <1> QED
    BY <1>1, <1>2, <1>3, <1>4, <1>5, <1>6 DEF Disk!Move, Disk!MoveIn, Disk!At, Asked, Base, ReadStep

\* ... and steps of a write.
LEMMA WriteRefines ==
    ASSUME ReqInv, pc # "idle", req.op = "write", kind # "qcow", UNCHANGED <<kind, req, buf>>,
           DOMAIN file' = DOMAIN file,
           \A p \in DOMAIN file :
               file'[p] \in {file[p]} \cup {buf[k] : k \in {j \in DOMAIN buf : Base + j - 1 = p}},
           failed' \in {failed, FALSE},
           pc' # "idle" => ret' = ret,
           pc' = "idle" /\ ret' # Error => \A k \in DOMAIN buf : buf'[k] = Content'[Base + k - 1]
    PROVE  Disk!Move
  <1>1. Asked = [op |-> req.op, start |-> Base] /\ Asked # NoReq
    BY DEF Asked, NoReq
  <1>2. Content = file /\ Content' = file' /\ Base' = Base
    BY DEF Content, Base
  <1>3. Asked.op = "write" /\ Asked.start = Base
    BY <1>1
  <1>4. \A p \in DOMAIN Content :
            Content'[p] \in {Content[p]} \cup
                {buf[k] : k \in {j \in DOMAIN buf : Asked.start + j - 1 = p}}
    BY <1>2, <1>3
  <1>5. failed' \in {failed, Asked.op = "read"}
    BY <1>3
  <1>6. \/ Asked' = Asked /\ (ret >= 0)' = (ret >= 0)
        \/ /\ Asked' = NoReq
           /\ (ret >= 0)' \in BOOLEAN
           /\ (ret >= 0)' /\ ~ failed' =>
                  \A k \in DOMAIN buf : buf'[k] = Content'[Asked.start + k - 1]
    <2>1. CASE pc' # "idle"
      BY <1>1, <1>2, <2>1 DEF Asked
    <2>2. CASE pc' = "idle"
      <3>1. Asked' = NoReq
        BY <2>2 DEF Asked, NoReq
      <3>2. (ret >= 0)' => ret' # Error
        BY DEF Error
      <3> QED
        BY <1>2, <1>3, <2>2, <3>1, <3>2
    <2> QED
      BY <2>1, <2>2
  <1>7. DOMAIN Content' = DOMAIN Content
    BY <1>2
  <1> QED
    BY <1>1, <1>3, <1>4, <1>5, <1>6, <1>7 DEF Disk!Move, Disk!MoveOut, Disk!At, Asked, Base

LEMMA SubmitRefines ==
    ASSUME DiskInv, NEW op \in {"read", "write"},
           NEW s \in 0 .. Capacity[kind] \div SectorSize - 1, NEW ends \in Iovs,
           Submit(op, s, ends)
    PROVE  Disk!Submit(op, s * SectorSize) /\ s * SectorSize \in DOMAIN Content
  <1>1. /\ pc = "idle" /\ s * SectorSize + Last(ends) <= Capacity[kind]
        /\ req' = [op |-> op, sector |-> s, ends |-> ends]
        /\ pc' = IF kind = "qcow" THEN "sector" ELSE kind
        /\ failed' = FALSE /\ astray' = FALSE
        /\ UNCHANGED <<kind, file, ret>>
    BY DEF Submit
  <1>2. pc' # "idle"
    BY <1>1, ImageAssumption DEF DiskInv, ReqInv
  <1>3. Base' = s * SectorSize /\ req'.op = op
    BY <1>1 DEF Base
  <1>4. Asked = NoReq /\ Asked' = [op |-> op, start |-> s * SectorSize]
    BY <1>1, <1>2, <1>3 DEF Asked
  <1>5. Content' = Content
    BY <1>1 DEF Content
  <1>6. kind \in Kinds /\ Capacity[kind] \in Nat /\ SectorSize \in Nat \ {0}
    BY ImageAssumption DEF DiskInv, ReqInv
  <1>7. s * SectorSize \in Bytes(kind)
    <2>1. Capacity[kind] \div SectorSize \in Nat
      BY <1>6, Division
    <2>2. s \in Nat
      BY <2>1
    <2>3. s * SectorSize \in Nat
      BY <1>6, <2>2
    <2>4. Last(ends) \in Nat \ {0}
      BY IovsEnd, ImageAssumption
    <2> QED
      BY <1>1, <1>6, <2>3, <2>4 DEF Bytes
  <1>8. DOMAIN Content = Bytes(kind)
    BY DEF Content, DiskInv, ReqInv
  <1> QED
    BY <1>1, <1>4, <1>5, <1>7, <1>8 DEF Disk!Submit, Asked, Base

LEMMA PreadvRefines ==
    ASSUME DiskInv, NEW n, preadv(n) PROVE Disk!Move
  <1>1. /\ pc = "raw" /\ n \in 1 .. Size - Start(el) /\ req.op = "read"
        /\ buf' = Filled(Start(el), n, LAMBDA p : file[p], offset)
        /\ shift_iovec(n) /\ Loop
        /\ UNCHANGED <<kind, file, req, failed>>
    BY DEF preadv
  <1>2. ReqInv /\ RawInv /\ DOMAIN buf = 1 .. Size /\ Content' = Content
    BY <1>1 DEF DiskInv, ReqInv, Content
  <1>3. /\ DOMAIN buf' = DOMAIN buf
        /\ \A k \in 1 .. Start(el) + n : buf'[k] = Content'[Base + k - 1]
        /\ \A k \in DOMAIN buf : buf'[k] \in {buf[k], Content[Base + k - 1]}
    BY <1>1, <1>2, ReadMoves
  <1>4. /\ pc' # "idle" => ret' = ret
        /\ pc' = "idle" => \A k \in 1 .. Size : buf'[k] = Content'[Base + k - 1]
    BY <1>1, <1>2, <1>3, ShiftStep
  <1>5. ReadStep
    BY <1>1, <1>2, <1>3, <1>4 DEF ReadStep
  <1> QED
    BY <1>1, <1>2, <1>5, ReadRefines

LEMMA PwritevRefines ==
    ASSUME DiskInv, NEW n, pwritev(n) PROVE Disk!Move
  <1>1. /\ pc = "raw" /\ n \in 1 .. Size - Start(el) /\ req.op = "write"
        /\ file' = [p \in DOMAIN file |->
                       IF p \in offset .. offset + n - 1
                       THEN buf[Start(el) + p - offset + 1] ELSE file[p]]
        /\ shift_iovec(n) /\ Loop
        /\ UNCHANGED <<kind, req, buf, failed>>
    BY DEF pwritev
  <1>2. ReqInv /\ RawInv /\ DOMAIN buf = 1 .. Size /\ kind # "qcow"
    BY <1>1 DEF DiskInv, ReqInv
  <1>3. /\ DOMAIN file' = DOMAIN file
        /\ \A k \in 1 .. Start(el) + n : buf'[k] = Content'[Base + k - 1]
        /\ \A p \in DOMAIN file :
               file'[p] \in {file[p]} \cup {buf[k] : k \in {j \in DOMAIN buf : Base + j - 1 = p}}
    BY <1>1, <1>2, WriteMoves
  <1>4. /\ pc' # "idle" => ret' = ret
        /\ pc' = "idle" => \A k \in 1 .. Size : buf'[k] = Content'[Base + k - 1]
    BY <1>1, <1>2, <1>3, ShiftStep
  <1> QED
    BY <1>1, <1>2, <1>3, <1>4, WriteRefines

LEMMA MemcpyRefines ==
    ASSUME DiskInv, memcpy PROVE Disk!Move
  <1> DEFINE n == iov_len(el)
  <1>1. pc = "mmap" /\ Loop /\ UNCHANGED <<kind, req, failed>>
    BY DEF memcpy
  <1>2. ReqInv /\ RawInv /\ DOMAIN buf = 1 .. Size /\ kind # "qcow" /\ req.op \in {"read", "write"}
    BY <1>1 DEF DiskInv, ReqInv
  <1>3. n \in 1 .. Size - Start(el) /\ shift_iovec(n)
    BY <1>2, MemcpyShifts
  <1>4. CASE req.op = "read"
    <2>1. buf' = Filled(Start(el), n, LAMBDA p : file[p], offset) /\ file' = file
      BY <1>4 DEF memcpy
    <2> HIDE DEF n
    <2>2. /\ DOMAIN buf' = DOMAIN buf
          /\ \A k \in 1 .. Start(el) + n : buf'[k] = Content'[Base + k - 1]
          /\ \A k \in DOMAIN buf : buf'[k] \in {buf[k], Content[Base + k - 1]}
      BY <1>1, <1>2, <1>3, <2>1, ReadMoves
    <2>3. /\ pc' # "idle" => ret' = ret
          /\ pc' = "idle" => \A k \in 1 .. Size : buf'[k] = Content'[Base + k - 1]
      BY <1>1, <1>2, <1>3, <2>2, ShiftStep
    <2>4. Content' = Content
      BY <1>1, <2>1 DEF Content
    <2>5. ReadStep
      BY <1>1, <1>2, <2>2, <2>3, <2>4 DEF ReadStep
    <2> QED
      BY <1>1, <1>2, <1>4, <2>1, <2>5, ReadRefines
  <1>5. CASE req.op = "write"
    <2>1. /\ file' = [p \in DOMAIN file |->
                         IF p \in offset .. offset + n - 1
                         THEN buf[Start(el) + p - offset + 1] ELSE file[p]]
          /\ buf' = buf
      BY <1>5 DEF memcpy
    <2> HIDE DEF n
    <2>2. /\ DOMAIN file' = DOMAIN file
          /\ \A k \in 1 .. Start(el) + n : buf'[k] = Content'[Base + k - 1]
          /\ \A p \in DOMAIN file :
                 file'[p] \in {file[p]} \cup
                     {buf[k] : k \in {j \in DOMAIN buf : Base + j - 1 = p}}
      BY <1>1, <1>2, <1>3, <2>1, WriteMoves
    <2>3. /\ pc' # "idle" => ret' = ret
          /\ pc' = "idle" => \A k \in 1 .. Size : buf'[k] = Content'[Base + k - 1]
      BY <1>1, <1>2, <1>3, <2>2, ShiftStep
    <2> QED
      BY <1>1, <1>2, <1>5, <2>1, <2>2, <2>3, WriteRefines
  <1> QED
    BY <1>2, <1>4, <1>5

LEMMA TransferFailsRefines ==
    ASSUME DiskInv, transfer_fails PROVE Disk!Move
  <1>1. /\ pc = "raw" /\ pc' = "idle" /\ failed' = (req.op = "read")
        /\ ret' = IF req.op = "read" /\ total > 0 THEN total ELSE Error
        /\ UNCHANGED <<kind, file, req, buf>>
    BY DEF transfer_fails, Return
  <1>2. ReqInv /\ kind # "qcow" /\ req.op \in {"read", "write"}
    BY <1>1 DEF DiskInv, ReqInv
  <1>3. CASE req.op = "read"
    <2>1. ReadStep
      BY <1>1, <1>3 DEF ReadStep
    <2> QED
      BY <1>1, <1>2, <1>3, <2>1, ReadRefines
  <1>4. CASE req.op = "write"
    BY <1>1, <1>2, <1>4, WriteRefines
  <1> QED
    BY <1>2, <1>3, <1>4

\* Each step of a read from an image is a step of a read.
LEMMA QcowRefines ==
    ASSUME DiskInv, WholeInv, WholeReads,
           \/ past_end \/ read_cluster \/ l2_hit \/ l2_miss \/ l2_fails
           \/ (\E n \in 1 .. ClusterSize : read_data(n)) \/ zero_cluster \/ data_fails
           \/ segfault
    PROVE  Disk!Move /\ (astray \in BOOLEAN => astray' \in {astray, failed})
  <1>1. ReadStep
    BY PastEndInv, ReadClusterInv, L2HitInv, L2MissInv, L2FailsInv, ReadDataInv,
       ZeroClusterInv, DataFailsInv, SegfaultInv
  <1>2. pc \in Serving /\ UNCHANGED <<kind, file, req>>
    BY DEF past_end, read_cluster, l2_hit, l2_miss, l2_fails, read_data, zero_cluster,
           data_fails, segfault, Serving
  <1>3. ReqInv /\ req.op = "read" /\ pc # "idle"
    BY <1>2 DEF DiskInv, ReqInv, Serving
  <1>4. astray' = astray \/ astray' = (astray \/ Beyond)
    BY DEF past_end, read_cluster, l2_hit, l2_miss, l2_fails, read_data, zero_cluster,
           data_fails, segfault, Failed, Deliver
  <1> QED
    BY <1>1, <1>2, <1>3, <1>4, ReadRefines, AstrayStep

\* Every split of a request into iovecs, clusters and short transfers moves the
\* bytes the guest asked for between its buffer and its disk and touches no others
\* of the disk; a write succeeds only when all have moved.  So does a read, and no
\* memory beyond its buffer is written, unless the image could not be read: then a
\* read may succeed without its bytes, and on a disk of 2^32 bytes and more write
\* elsewhere.
THEOREM DiskImplemented == ASSUME WholeReads PROVE Safety => ImplementsDisk
  <1>1. Init => Disk!Init
    BY DEF Init, Disk!Init
  <1>2. ASSUME DiskInv, WholeInv, astray \in BOOLEAN, [Next]_vars
        PROVE  [Disk!Next]_Disk!dsVars
    <2>0. memcpy \/ transfer_fails \/ (\E n \in 1 .. MaxSize : Transfer(n)) => Disk!Stray
      BY DEF memcpy, transfer_fails, Transfer, preadv, pwritev, Disk!Stray
    <2>1. CASE Request
      <3>1. PICK op \in {"read", "write"}, s \in 0 .. Capacity[kind] \div SectorSize - 1,
                 ends \in Iovs : Submit(op, s, ends)
        BY <2>1 DEF Request
      <3>2. Disk!Submit(op, s * SectorSize) /\ s * SectorSize \in DOMAIN Content
        BY <1>2, <3>1, SubmitRefines
      <3> QED
        BY <3>2 DEF Disk!Next
    <2>2. CASE Copy
      <3>1. Disk!Move /\ Disk!Stray
        BY <1>2, <2>0, <2>2, MemcpyRefines, QcowRefines DEF Copy, Disk!Stray
      <3> QED
        BY <3>1 DEF Disk!Next
    <2>3. CASE transfer_fails
      BY <1>2, <2>0, <2>3, TransferFailsRefines DEF Disk!Next
    <2>4. CASE \E n \in 1 .. MaxSize : Transfer(n)
      <3>1. Disk!Move
        BY <1>2, <2>4, PreadvRefines, PwritevRefines DEF Transfer
      <3> QED
        BY <2>0, <2>4, <3>1 DEF Disk!Next
    <2>5. CASE UNCHANGED vars
      <3>1. UNCHANGED <<kind, file, req, buf, pc, ret, failed, astray>>
        BY <2>5 DEF vars
      <3>2. Content' = Content
        BY <3>1 DEF Content
      <3> QED
        BY <3>1, <3>2 DEF Disk!dsVars, NoReq
    <2> QED
      BY <1>2, <2>1, <2>2, <2>3, <2>4, <2>5 DEF Next
  <1> QED
    BY <1>1, <1>2, InvHolds, PTL DEF Safety, ImplementsDisk, Disk!Spec
=============================================================================
