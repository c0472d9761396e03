-------------------------- MODULE QcowWriteProofs --------------------------
(***************************************************************************)
(* Theorems about QcowWrite, for every image whose counts cover what it    *)
(* refers to, every size of cluster, block and cache, and every read and   *)
(* allocation that fails: the counts go on covering the references, in     *)
(* what a crash leaves as well; the caches agree with the image; snapshots *)
(* stay.  Writes to the image succeed.                                     *)
(***************************************************************************)
EXTENDS QcowWrite, FiniteSetTheorems, SequenceTheorems, TLAPS

(***************************************************************************)
(* The inductive invariant                                                 *)
(***************************************************************************)

BlockTables == [1 .. RbEntries -> 0 .. CountMod - 1]
L2Tables == [1 .. L2Entries -> [at : Nat, copied : BOOLEAN]]

Requests == [from : Nat, upto : Nat, value : Nat]

\* A new block that the table in memory refers to, and the one on the disk does not.
Pending == pc \in {"count", "add", "refer"} /\ Len(chain) = 2

\* Where refcount table r refers to there is a block in the clusters, for one part
\* of the image.
BlocksIn(r, cl) ==
    /\ \A i \in DOMAIN r : r[i] # 0 => cl[r[i]].kind = "block"
    /\ \A i, j \in DOMAIN r : r[i] = r[j] /\ r[i] # 0 => i = j

\* No place has two tables in a cache.
Once(cache) == \A i, j \in DOMAIN cache : cache[i].offset = cache[j].offset => i = j

\* A cached block is as in image d, and one that refcount table r refers to.
BlocksCached(d, r, cache) ==
    /\ cache \in Seq([offset : Places(d) \ {0}, table : BlockTables])
    /\ Len(cache) <= MaxCacheNodes
    /\ \A i \in DOMAIN cache :
          /\ cache[i].table = d.cl[cache[i].offset].v
          /\ \E k \in DOMAIN r : r[k] = cache[i].offset
    /\ Once(cache)

\* A cached table is as in image d, and one that its level 1 table refers to, or a
\* snapshot's.
TablesCached(d, cache) ==
    /\ cache \in Seq([offset : Places(d) \ {0}, table : L2Tables])
    /\ Len(cache) <= MaxCacheNodes
    /\ \A i \in DOMAIN cache :
          /\ d.cl[cache[i].offset].kind = "table"
          /\ cache[i].table = d.cl[cache[i].offset].v
          /\ cache[i].offset \in Fixed \/ \E k \in DOMAIN d.l1 : d.l1[k].at = cache[i].offset

\* What is in memory is what is on the disk, but for the entry about to be written.
MemoryInv ==
    /\ rft = IF Pending THEN [disk.rft EXCEPT ![Block(chain[1])] = chain[2]] ELSE disk.rft
    /\ l1 = IF pc = "l1" THEN [disk.l1 EXCEPT ![L1Index] = Entry(Nowhere, TRUE)] ELSE disk.l1
    /\ BlocksIn(rft, disk.cl)
    /\ BlocksCached(disk, rft, rbs)
    /\ TablesCached(disk, l2s)

\* Where a call is, and what it knows there.
CallInv ==
    /\ chain \in Seq(Nat) /\ req \in Requests
    /\ pc \notin {"start", "hung"} => req # NoReq
    /\ \/ pc \in {"start", "hung", "data"} /\ chain = <<>> /\ use = "none"
       \/ pc = "copy" /\ chain = <<>> /\ use = "table" /\ OldTable # 0
       \/ pc = "search" /\ Len(chain) <= 1 /\ use \in {"table", "data"}
       \/ pc = "count" /\ Len(chain) \in {1, 2} /\ use \in {"table", "data"}
       \/ pc = "add" /\ Len(chain) \in {1, 2} /\ use \in {"table", "data"}
       \/ pc \in {"grow", "refer"} /\ Len(chain) = 2 /\ use \in {"table", "data"}
       \/ pc \in {"l1", "count", "add"} /\ Len(chain) = 1 /\ use = "old"
    /\ use = "table" => L1Index \in DOMAIN l1 /\ ~l1[L1Index].copied
    /\ pc = "data" \/ use = "old" => l2s # <<>>

\* In a part of the image that has no block a search stands at an even cluster: every
\* cluster tried there, with success or not, takes its block with it.
SearchInv ==
    /\ free \in Nat
    /\ BlockOf(free) = 0 /\ Block(free) \in DOMAIN rft =>
          \/ free % 2 = 0
          \/ chain # <<>> /\ use # "old" /\ BlockOf(chain[1]) = 0

\* A cluster being allocated counts nothing yet; a new block follows it, and as the
\* cluster is even both are in one part.
NewInv ==
    chain # <<>> /\ use # "old" =>
        /\ chain[1] \in Places(disk) => Count(disk, chain[1]) = 0
        /\ BlockOf(chain[1]) = 0 =>
              /\ free = chain[1] + Len(chain)
              /\ Block(chain[1]) \in DOMAIN rft => chain[1] % 2 = 0
        /\ pc = "search" => BlockOf(chain[1]) = 0
        /\ pc = "search" \/ Len(chain) = 2 =>
              Block(chain[1]) \in DOMAIN rft /\ disk.rft[Block(chain[1])] = 0 /\ chain[1] % 2 = 0
        /\ Len(chain) = 2 => chain[2] = chain[1] + 1

\* The block of a count is cached when it is changed, and the new block has no count
\* but its own, at last.
AddInv ==
    /\ pc = "add" => BlockOf(Last(chain)) # 0 /\ cached(rbs, BlockOf(Last(chain))) # {}
    /\ Pending => /\ cached(rbs, chain[2]) # {}
                  /\ disk.cl[chain[2]].v =
                        IF pc = "refer" THEN [NewBlock EXCEPT ![InBlock(chain[2])] = 1] ELSE NewBlock

\* The old table is a snapshot's too.  Until its count is lowered, that is more than
\* what refers to it.
OldInv ==
    use = "old" =>
        /\ chain[1] \in Fixed
        /\ pc = "l1" => L1Index \in DOMAIN l1 /\ disk.l1[L1Index].at = chain[1] /\ chain[1] > 0
        /\ pc # "l1" => Referred(disk, chain[1]) + 1 <= Count(disk, chain[1])

BoundsInv == ret \in {0, Err} /\ writes \in 0 .. MaxWrites

IInv ==
    /\ Image(disk) /\ Covered(disk)
    /\ MemoryInv /\ CallInv /\ SearchInv /\ NewInv /\ AddInv /\ OldInv
    /\ BoundsInv

-----------------------------------------------------------------------------
(***************************************************************************)
(* Where counts are                                                        *)
(***************************************************************************)

LEMMA Constants ==
    /\ RbEntries \in Nat \ {0} /\ RbEntries > 1 /\ RbEntries % 2 = 0 /\ CountMod \in Nat /\ CountMod > 2
    /\ L2Entries \in Nat \ {0} /\ MaxCacheNodes \in Nat \ {0} /\ ClusterSize \in Nat \ {0}
    /\ Sectors \in Nat /\ MaxWrites \in Nat
  BY QcowWriteAssumption, QcowAssumption

\* A quotient, a remainder, and what they are taken from.
LEMMA Division ==
    ASSUME NEW a \in Nat, NEW d \in Nat \ {0}
    PROVE  a \div d \in Nat /\ (a % d) \in 0 .. d - 1 /\ a = d * (a \div d) + (a % d)
  OBVIOUS

\* The larger of two numbers has the larger multiple.
LEMMA MultiplesGrow ==
    ASSUME NEW m \in Nat, NEW a \in Nat, NEW b \in Nat, a < b
    PROVE  m * a + m <= m * b
  <1>1. b = a + 1 + (b - a - 1) /\ b - a - 1 \in Nat
    OBVIOUS
  <1>2. m * (a + 1 + (b - a - 1)) = m * a + m + m * (b - a - 1)
    BY <1>1
  <1>3. m * (b - a - 1) \in Nat /\ m * a \in Nat
    BY <1>1
  <1> QED
    BY <1>1, <1>2, <1>3

\* A quotient is the only one whose multiple is near enough.
LEMMA QuotientUnique ==
    ASSUME NEW a \in Nat, NEW d \in Nat \ {0}, NEW q \in Nat, d * q <= a, a < d * q + d
    PROVE  a \div d = q
  <1> DEFINE p == a \div d
  <1>1. p \in Nat /\ d * p \in Nat /\ d * q \in Nat /\ d * p <= a /\ a < d * p + d
    BY Division
  <1> HIDE DEF p
  <1>2. ~ (p < q)
    <2> SUFFICES ASSUME p < q PROVE FALSE
      OBVIOUS
    <2>1. d * p + d <= d * q
      BY <1>1, MultiplesGrow
    <2> QED
      BY <1>1, <2>1
  <1>3. ~ (q < p)
    <2> SUFFICES ASSUME q < p PROVE FALSE
      OBVIOUS
    <2>1. d * q + d <= d * p
      BY <1>1, MultiplesGrow
    <2> QED
      BY <1>1, <2>1
  <1>4. p = q
    BY <1>1, <1>2, <1>3
  <1> QED
    BY <1>4 DEF p

\* A count has an index in a block, whatever its cluster.
LEMMA BlockTypes ==
    ASSUME NEW c \in Nat
    PROVE  /\ Block(c) \in Nat /\ Block(c) > 0 /\ InBlock(c) \in 1 .. RbEntries
           /\ c = RbEntries * (Block(c) - 1) + InBlock(c) - 1
  <1>1. /\ c \div RbEntries \in Nat /\ (c % RbEntries) \in 0 .. RbEntries - 1
        /\ c = RbEntries * (c \div RbEntries) + (c % RbEntries)
    BY Constants, Division
  <1> QED
    BY <1>1, Constants DEF Block, InBlock

\* The places of an image are the clusters its refcount table has an entry for.
LEMMA PlacesHaveBlocks ==
    ASSUME NEW n \in Nat, NEW c \in Nat
    PROVE  c \in 0 .. n * RbEntries - 1 <=> Block(c) \in 1 .. n
  <1> DEFINE b == c \div RbEntries
             R == RbEntries
  <1>1. /\ b \in Nat /\ R * b \in Nat /\ R * n \in Nat /\ R * b <= c /\ c < R * b + R
        /\ R \in Nat \ {0}
    BY Constants, Division
  <1>2. Block(c) = b + 1
    BY DEF Block
  <1>3. n * R = R * n
    BY <1>1
  <1> HIDE DEF b, R
  <1>4. CASE b < n
    <2>1. R * b + R <= R * n
      BY <1>1, <1>4, MultiplesGrow
    <2> QED
      BY <1>1, <1>2, <1>3, <1>4, <2>1 DEF R
  <1>5. CASE b >= n
    <2>1. R * n <= R * b
      <3>1. CASE b = n
        BY <3>1, <1>1
      <3>2. CASE n < b
        <4>1. R * n + R <= R * b
          BY <1>1, <3>2, MultiplesGrow
        <4> QED
          BY <1>1, <4>1
      <3> QED
        BY <1>1, <1>5, <3>1, <3>2
    <2> QED
      BY <1>1, <1>2, <1>3, <1>5, <2>1 DEF R
  <1> QED
    BY <1>1, <1>4, <1>5

\* Two clusters do not share a count.
LEMMA CountsApart ==
    ASSUME NEW a \in Nat, NEW b \in Nat, Block(a) = Block(b), InBlock(a) = InBlock(b)
    PROVE  a = b
  BY BlockTypes

\* The cluster after one is in the same part of the image, or the first of the next.
LEMMA NextCluster ==
    ASSUME NEW c \in Nat
    PROVE  /\ Block(c + 1) = Block(c) \/ (c + 1) % 2 = 0
           /\ c % 2 = 0 => Block(c + 1) = Block(c)
           /\ Block(c) <= Block(c + 1)
  <1> DEFINE b == c \div RbEntries
             r == c % RbEntries
             R == RbEntries
  <1>1. /\ b \in Nat /\ r \in 0 .. R - 1 /\ R * b \in Nat /\ c = R * b + r
        /\ R \in Nat \ {0} /\ R > 1
    <2>1. R \in Nat \ {0} /\ R > 1
      BY Constants
    <2>2. b \in Nat /\ r \in 0 .. R - 1 /\ c = R * b + r
      BY <2>1, Division
    <2> HIDE DEF b, r
    <2>3. R * b \in Nat
      BY <2>1, <2>2
    <2> QED
      BY <2>1, <2>2, <2>3
  <1> DEFINE e == (c + 1) \div R
             s == (c + 1) % R
  <1>2. e \in Nat /\ s \in 0 .. R - 1 /\ c + 1 = R * e + s /\ R * e \in Nat
    <2>1. c + 1 \in Nat /\ R \in Nat \ {0}
      BY <1>1
    <2>2. e \in Nat /\ s \in 0 .. R - 1 /\ c + 1 = R * e + s
      BY <2>1, Division
    <2> HIDE DEF e, s
    <2>3. R * e \in Nat
      BY <2>1, <2>2
    <2> QED
      BY <2>2, <2>3
  <1>3. Block(c) = b + 1 /\ Block(c + 1) = e + 1 /\ (c + 1) % RbEntries = s /\ c % RbEntries = r
    BY DEF Block
  <1>4. r + 1 < R => e = b
    <2> SUFFICES ASSUME r + 1 < R PROVE e = b
      OBVIOUS
    <2> HIDE DEF b, r
    <2>1. c + 1 \in Nat /\ R * b <= c + 1 /\ c + 1 < R * b + R
      BY <1>1
    <2>2. (c + 1) \div R = b
      <3> DEFINE a == c + 1
      <3> HIDE DEF a, R
      <3>1. a \in Nat /\ R \in Nat \ {0} /\ b \in Nat /\ R * b <= a /\ a < R * b + R
        BY <1>1, <2>1 DEF a
      <3>2. a \div R = b
        BY <3>1, QuotientUnique
      <3> QED
        BY <3>2 DEF a
    <2> QED
      BY <2>2
  <1> HIDE DEF e, s, b, r
  <1>5. r + 1 = R => e = b + 1 /\ s = 0
    <2> SUFFICES ASSUME r + 1 = R PROVE e = b + 1 /\ s = 0
      OBVIOUS
    <2>1. R * (b + 1) = R * b + R
      BY <1>1
    <2>2. c + 1 = R * (b + 1)
      BY <1>1, <2>1
    <2>3. (c + 1) \div R = b + 1
      <3> DEFINE a == c + 1
      <3>1. a \in Nat /\ b + 1 \in Nat /\ R * (b + 1) <= a /\ a < R * (b + 1) + R
        BY <1>1, <2>1, <2>2
      <3> HIDE DEF a
      <3>2. a \div R = b + 1
        BY <1>1, <3>1, QuotientUnique
      <3> QED
        BY <3>2 DEF a
    <2>4. e = b + 1
      BY <2>3 DEF e
    <2> QED
      BY <1>2, <2>2, <2>4
  <1>6. r + 1 < R \/ r + 1 = R
    BY <1>1
  <1>7. r + 1 = R => (c + 1) % 2 = 0
    <2> SUFFICES ASSUME r + 1 = R PROVE (c + 1) % 2 = 0
      OBVIOUS
    <2> DEFINE h == R \div 2
    <2>1. h \in Nat /\ R = 2 * h
      BY Constants
    <2> HIDE DEF h
    <2>2. c + 1 = R * e
      BY <1>2, <1>5
    <2>3. (2 * h) * e = 2 * (h * e) /\ h * e \in Nat
      BY <1>2, <2>1
    <2> DEFINE p == h * e
    <2>4. c + 1 = 2 * p /\ p \in Nat
      BY <2>1, <2>2, <2>3
    <2> HIDE DEF p, R
    <2> QED
      BY <2>4
  <1> HIDE DEF R
  <1>8. r + 1 = R => c % 2 # 0
    <2>1. (c + 1) % 2 = 0 => c % 2 # 0
      OBVIOUS
    <2> QED
      BY <1>7, <2>1
  <1> QED
    BY <1>1, <1>2, <1>3, <1>4, <1>5, <1>6, <1>7, <1>8

-----------------------------------------------------------------------------
(***************************************************************************)
(* Caches                                                                  *)
(***************************************************************************)

\* Looking for a table moves it to the end.
LEMMA SearchMoves ==
    ASSUME NEW S, NEW c \in Seq(S), NEW i \in 1 .. Len(c)
    PROVE  /\ l2_table_search(c, i) \in Seq(S)
           /\ Len(l2_table_search(c, i)) = Len(c)
           /\ \A j \in 1 .. Len(c) :
                  l2_table_search(c, i)[j] =
                      IF j < i THEN c[j] ELSE IF j < Len(c) THEN c[j + 1] ELSE c[i]
  <1> DEFINE n == Len(c)
             a == SubSeq(c, 1, i - 1)
             b == SubSeq(c, i + 1, n)
  <1>1. n \in Nat /\ i \in 1 .. n
    OBVIOUS
  <1>2. \A j \in 1 .. n : c[j] \in S
    BY ElementOfSeq
  <1>3. /\ a \in Seq(S) /\ Len(a) = i - 1
        /\ \A j \in 1 .. i - 1 : a[j] = c[j]
    <2>1. \A j \in 1 .. i - 1 : c[j] \in S
      BY <1>1, <1>2
    <2>2. /\ a \in Seq(S) /\ Len(a) = IF 1 <= i - 1 THEN (i - 1) - 1 + 1 ELSE 0
          /\ \A j \in 1 .. (i - 1) - 1 + 1 : a[j] = c[1 + j - 1]
      BY <1>1, <2>1, SubSeqProperties
    <2> QED
      BY <1>1, <2>2
  <1>4. /\ b \in Seq(S) /\ Len(b) = n - i
        /\ \A j \in 1 .. n - i : b[j] = c[i + j]
    <2>1. \A j \in i + 1 .. n : c[j] \in S
      BY <1>1, <1>2
    <2>2. /\ b \in Seq(S) /\ Len(b) = IF i + 1 <= n THEN n - (i + 1) + 1 ELSE 0
          /\ \A j \in 1 .. n - (i + 1) + 1 : b[j] = c[(i + 1) + j - 1]
      BY <1>1, <2>1, SubSeqProperties
    <2> QED
      BY <1>1, <2>2
  <1> DEFINE d == a \o b
  <1> HIDE DEF a, b, n
  <1>5. /\ d \in Seq(S) /\ Len(d) = Len(a) + Len(b)
        /\ \A j \in 1 .. Len(a) + Len(b) : d[j] = IF j <= Len(a) THEN a[j] ELSE b[j - Len(a)]
    BY <1>3, <1>4, ConcatProperties
  <1>6. Len(d) = n - 1
    BY <1>1, <1>3, <1>4, <1>5
  <1>7. ASSUME NEW j \in 1 .. n - 1 PROVE d[j] = IF j < i THEN c[j] ELSE c[j + 1]
    <2>1. d[j] = IF j <= i - 1 THEN a[j] ELSE b[j - (i - 1)]
      BY <1>1, <1>3, <1>4, <1>5
    <2>2. CASE j < i
      BY <1>1, <1>3, <2>1, <2>2
    <2>3. CASE ~ (j < i)
      <3>1. j - (i - 1) \in 1 .. n - i /\ i + (j - (i - 1)) = j + 1
        BY <1>1, <2>3
      <3> QED
        BY <1>1, <1>4, <2>1, <2>3, <3>1
    <2> QED
      BY <2>2, <2>3
  <1> HIDE DEF d
  <1> DEFINE e == Append(d, c[i])
  <1>8. c[i] \in S
    BY <1>1, <1>2
  <1>9. /\ e \in Seq(S) /\ Len(e) = n
        /\ e[n] = c[i] /\ \A j \in 1 .. n - 1 : e[j] = d[j]
    BY <1>1, <1>5, <1>6, <1>8
  <1>10. l2_table_search(c, i) = e
    BY DEF l2_table_search, RemoveAt, n, a, b, d
  <1> HIDE DEF e
  <1>11. \A j \in 1 .. n : e[j] = IF j < i THEN c[j] ELSE IF j < n THEN c[j + 1] ELSE c[i]
    BY <1>1, <1>7, <1>9
  <1> QED
    BY <1>9, <1>10, <1>11 DEF n

\* Caching a table drops none or the first, and puts it at the end.
LEMMA CachingDrops ==
    ASSUME NEW S, NEW c \in Seq(S), Len(c) <= MaxCacheNodes, NEW x \in S
    PROVE  \E k \in {0, 1} :
               /\ cache_table(c, x) \in Seq(S)
               /\ Len(cache_table(c, x)) = Len(c) - k + 1
               /\ Len(c) - k \in 0 .. MaxCacheNodes - 1
               /\ \A j \in 1 .. Len(c) - k : cache_table(c, x)[j] = c[j + k]
               /\ cache_table(c, x)[Len(c) - k + 1] = x
  <1> DEFINE m == MaxCacheNodes
             n == Len(c)
  <1>1. m \in Nat \ {0} /\ n \in Nat /\ n <= m
    BY QcowAssumption
  <1>2. CASE n = m
    <2> DEFINE t == Tail(c)
    <2>1. c # <<>>
      BY <1>1, <1>2
    <2>2. /\ t \in Seq(S) /\ Len(t) = n - 1
          /\ \A j \in 1 .. n - 1 : t[j] = c[j + 1]
      BY <2>1, HeadTailProperties
    <2>3. cache_table(c, x) = Append(t, x)
      BY <1>2 DEF cache_table
    <2> HIDE DEF t
    <2>4. /\ Append(t, x) \in Seq(S) /\ Len(Append(t, x)) = n
          /\ Append(t, x)[n] = x /\ \A j \in 1 .. n - 1 : Append(t, x)[j] = t[j]
      BY <1>1, <2>2
    <2> HIDE DEF n, m
    <2>5. /\ n - 1 + 1 = n /\ n - 1 \in 0 .. m - 1
      BY <1>1, <1>2
    <2> QED
      BY <2>2, <2>3, <2>4, <2>5 DEF n, m
  <1>3. CASE n # m
    <2>1. cache_table(c, x) = Append(c, x)
      BY <1>3 DEF cache_table
    <2>2. /\ Append(c, x) \in Seq(S) /\ Len(Append(c, x)) = n + 1
          /\ Append(c, x)[n + 1] = x /\ \A j \in 1 .. n : Append(c, x)[j] = c[j]
      BY <1>1
    <2> HIDE DEF n, m
    <2>3. n - 0 = n /\ n \in 0 .. m - 1 /\ \A j \in 1 .. n : j + 0 = j
      BY <1>1, <1>3
    <2> QED
      BY <2>1, <2>2, <2>3 DEF n, m
  <1> QED
    BY <1>2, <1>3

\* What a cache has after a search, it had before, and none twice.
LEMMA SearchKeeps ==
    ASSUME NEW S, NEW c \in Seq(S), NEW i \in 1 .. Len(c)
    PROVE  /\ l2_table_search(c, i) \in Seq(S) /\ Len(l2_table_search(c, i)) = Len(c)
           /\ l2_table_search(c, i)[Len(c)] = c[i]
           /\ \A j \in 1 .. Len(c) : \E k \in 1 .. Len(c) : l2_table_search(c, i)[j] = c[k]
           /\ Once(c) => Once(l2_table_search(c, i))
  <1> DEFINE e == l2_table_search(c, i)
             n == Len(c)
             P(j) == IF j < i THEN j ELSE IF j < n THEN j + 1 ELSE i
  <1>1. n \in Nat /\ i \in 1 .. n /\ DOMAIN c = 1 .. n
    OBVIOUS
  <1>2. /\ e \in Seq(S) /\ Len(e) = n
        /\ \A j \in 1 .. n : e[j] = IF j < i THEN c[j] ELSE IF j < n THEN c[j + 1] ELSE c[i]
    BY SearchMoves
  <1> HIDE DEF e
  <1>3. DOMAIN e = 1 .. n
    BY <1>2
  <1> HIDE DEF n
  <1>4. \A j \in 1 .. n : P(j) \in 1 .. n /\ e[j] = c[P(j)]
    BY <1>1, <1>2
  <1>5. \A j, k \in 1 .. n : P(j) = P(k) => j = k
    BY <1>1
  <1>6. P(n) = i
    BY <1>1
  <1>7. n \in 1 .. n
    BY <1>1
  <1> HIDE DEF P
  <1>8. Once(c) => Once(e)
    <2> SUFFICES ASSUME Once(c), NEW j \in 1 .. n, NEW k \in 1 .. n, e[j].offset = e[k].offset
                 PROVE  j = k
      BY <1>3 DEF Once
    <2>1. P(j) \in DOMAIN c /\ P(k) \in DOMAIN c /\ c[P(j)].offset = c[P(k)].offset
      BY <1>1, <1>4
    <2>2. P(j) = P(k)
      BY <2>1 DEF Once
    <2> QED
      BY <1>5, <2>2
  <1>9. e[n] = c[i]
    BY <1>4, <1>6, <1>7
  <1>10. \A j \in 1 .. n : \E k \in 1 .. n : e[j] = c[k]
    BY <1>4
  <1> QED
    BY <1>2, <1>8, <1>9, <1>10 DEF e, n

\* What a cache has after an insertion is the table, or was there before.
LEMMA CachingKeeps ==
    ASSUME NEW S, NEW c \in Seq(S), Len(c) <= MaxCacheNodes, NEW x \in S
    PROVE  LET e == cache_table(c, x)
           IN /\ e \in Seq(S) /\ Len(e) \in 1 .. MaxCacheNodes /\ e[Len(e)] = x
              /\ \A j \in 1 .. Len(e) : e[j] = x \/ \E k \in 1 .. Len(c) : e[j] = c[k]
              /\ Once(c) /\ cached(c, x.offset) = {} => Once(e)
  <1> DEFINE e == cache_table(c, x)
             n == Len(c)
             m == MaxCacheNodes
  <1>1. PICK d \in {0, 1} :
            /\ e \in Seq(S)
            /\ Len(e) = n - d + 1
            /\ n - d \in 0 .. m - 1
            /\ \A j \in 1 .. n - d : e[j] = c[j + d]
            /\ e[n - d + 1] = x
    BY CachingDrops, ZenonT(60)
  <1>2. n \in Nat /\ DOMAIN c = 1 .. n /\ m \in Nat \ {0} /\ d \in Nat
    BY Constants, <1>1
  <1> HIDE DEF e, n, m
  <1> DEFINE l == n - d
  <1>3. /\ l \in Nat /\ l + 1 \in 1 .. m /\ l + d = n
        /\ Len(e) = l + 1 /\ DOMAIN e = 1 .. l + 1 /\ e[l + 1] = x
        /\ \A j \in 1 .. l : e[j] = c[j + d] /\ j + d \in 1 .. n
    BY <1>1, <1>2
  <1> HIDE DEF l
  <1>4. \A j \in 1 .. l + 1 : j = l + 1 \/ j \in 1 .. l
    BY <1>3
  <1>5. \A j \in 1 .. l + 1 : e[j] = x \/ \E k \in 1 .. n : e[j] = c[k]
    BY <1>3, <1>4
  <1>6. ASSUME Once(c), cached(c, x.offset) = {} PROVE Once(e)
    <2>1. \A k \in 1 .. n : c[k].offset # x.offset
      BY <1>2, <1>6 DEF cached
    <2> SUFFICES ASSUME NEW j \in 1 .. l + 1, NEW k \in 1 .. l + 1, e[j].offset = e[k].offset
                 PROVE  j = k
      BY <1>3 DEF Once
    <2>2. CASE j = l + 1 /\ k = l + 1
      BY <2>2
    <2>3. CASE j = l + 1 /\ k \in 1 .. l
      BY <1>3, <2>1, <2>3
    <2>4. CASE j \in 1 .. l /\ k = l + 1
      BY <1>3, <2>1, <2>4
    <2>5. CASE j \in 1 .. l /\ k \in 1 .. l
      <3>1. c[j + d].offset = c[k + d].offset /\ j + d \in DOMAIN c /\ k + d \in DOMAIN c
        BY <1>2, <1>3, <2>5
      <3>2. j + d = k + d
        BY <1>6, <3>1 DEF Once
      <3> QED
        BY <1>2, <2>5, <3>2
    <2> QED
      BY <1>4, <2>2, <2>3, <2>4, <2>5
  <1> QED
    BY <1>1, <1>3, <1>5, <1>6 DEF e, n, m, l

\* The table looked for is the one used last; the others were cached before.
LEMMA ReadThroughKeeps ==
    ASSUME NEW S, NEW cache \in Seq(S), Len(cache) <= MaxCacheNodes, NEW c,
           cached(cache, c) = {} => [offset |-> c, table |-> disk.cl[c].v] \in S
    PROVE  LET e == ReadThrough(cache, c)
           IN /\ e \in Seq(S) /\ Len(e) \in 1 .. MaxCacheNodes /\ Last(e) = e[Len(e)]
              /\ Last(e).offset = c /\ cached(e, c) # {}
              /\ \A j \in 1 .. Len(e) :
                    \/ e[j] = [offset |-> c, table |-> disk.cl[c].v] /\ cached(cache, c) = {}
                    \/ \E k \in 1 .. Len(cache) : e[j] = cache[k]
              /\ Once(cache) => Once(e)
  <1> DEFINE e == ReadThrough(cache, c)
             x == [offset |-> c, table |-> disk.cl[c].v]
  <1>1. Len(cache) \in Nat /\ DOMAIN cache = 1 .. Len(cache)
    OBVIOUS
  <1> SUFFICES /\ e \in Seq(S) /\ Len(e) \in 1 .. MaxCacheNodes
               /\ e[Len(e)].offset = c
               /\ \A j \in 1 .. Len(e) :
                     \/ e[j] = x /\ cached(cache, c) = {}
                     \/ \E k \in 1 .. Len(cache) : e[j] = cache[k]
               /\ Once(cache) => Once(e)
    <2> HIDE DEF e
    <2>1. Last(e) = e[Len(e)]
      BY DEF Last
    <2> SUFFICES ASSUME e \in Seq(S), Len(e) \in 1 .. MaxCacheNodes, e[Len(e)].offset = c
                 PROVE  cached(e, c) # {}
      BY <2>1 DEF e
    <2>2. Len(e) \in DOMAIN e
      OBVIOUS
    <2> QED
      BY <2>2 DEF cached
  <1>2. CASE cached(cache, c) # {}
    <2> DEFINE i == At(cache, c)
    <2>1. i \in cached(cache, c)
      BY <1>2 DEF At
    <2>2. i \in 1 .. Len(cache) /\ cache[i].offset = c
      BY <1>1, <2>1 DEF cached
    <2>3. e = l2_table_search(cache, i)
      BY <1>2 DEF ReadThrough
    <2> HIDE DEF i, e
    <2>4. /\ e \in Seq(S) /\ Len(e) = Len(cache) /\ e[Len(cache)] = cache[i]
          /\ \A j \in 1 .. Len(cache) : \E k \in 1 .. Len(cache) : e[j] = cache[k]
          /\ Once(cache) => Once(e)
      BY <2>2, <2>3, SearchKeeps
    <2>5. Len(e) \in 1 .. MaxCacheNodes
      BY <1>1, <2>2, <2>4, Constants
    <2> QED
      BY <2>2, <2>4, <2>5
  <1>3. CASE cached(cache, c) = {}
    <2>1. e = cache_table(cache, x)
      BY <1>3 DEF ReadThrough
    <2>2. x \in S /\ x.offset = c
      BY <1>3
    <2> HIDE DEF x, e
    <2> DEFINE f == cache_table(cache, x)
    <2>4. /\ f \in Seq(S) /\ Len(f) \in 1 .. MaxCacheNodes /\ f[Len(f)] = x
          /\ \A j \in 1 .. Len(f) : f[j] = x \/ \E k \in 1 .. Len(cache) : f[j] = cache[k]
          /\ Once(cache) /\ cached(cache, x.offset) = {} => Once(f)
      BY <2>2, CachingKeeps, Zenon
    <2>3. /\ e \in Seq(S) /\ Len(e) \in 1 .. MaxCacheNodes /\ e[Len(e)] = x
          /\ \A j \in 1 .. Len(e) : e[j] = x \/ \E k \in 1 .. Len(cache) : e[j] = cache[k]
          /\ Once(cache) /\ cached(cache, x.offset) = {} => Once(e)
      BY <2>1, <2>4
    <2> QED
      BY <1>3, <2>2, <2>3
  <1> QED
    BY <1>2, <1>3

-----------------------------------------------------------------------------
(***************************************************************************)
(* Images                                                                  *)
(***************************************************************************)

\* What in image d refers to cluster c, by where it stands.
RftRefs(d, c) == {i \in DOMAIN d.rft : d.rft[i] = c /\ c # 0}
L1Used(d) == {i \in DOMAIN d.l1 : d.l1[i].at > 0}
L1Refs(d, c) == {i \in L1Used(d) : d.l1[i].at = c}
L2Refs(d, c) == {t \in L1Used(d) \X (1 .. L2Entries) : c # 0 /\ d.cl[d.l1[t[1]].at].v[t[2]].at = c}

LEMMA ImageTypes ==
    ASSUME NEW d, Image(d)
    PROVE  /\ Len(d.rft) \in Nat /\ DOMAIN d.rft = 1 .. Len(d.rft)
           /\ \A i \in DOMAIN d.rft : d.rft[i] \in Places(d)
           /\ Len(d.l1) \in Nat /\ DOMAIN d.l1 = 1 .. Len(d.l1)
           /\ \A i \in DOMAIN d.l1 :
                 /\ d.l1[i].at \in {Nowhere} \cup Places(d) /\ d.l1[i].copied \in BOOLEAN
                 /\ d.l1[i].at \in Int
           /\ Places(d) \subseteq Nat /\ DOMAIN d.cl = Places(d)
           /\ 0 \in Fixed /\ Fixed \subseteq Places(d)
           /\ Len(d.rft) * RbEntries \in Nat
  <1>1. d.rft \in Seq(Places(d)) /\ d.l1 \in Seq([at : {Nowhere} \cup Places(d), copied : BOOLEAN])
    BY DEF Image
  <1>2. Len(d.rft) \in Nat /\ DOMAIN d.rft = 1 .. Len(d.rft)
    BY <1>1
  <1>3. Len(d.rft) * RbEntries \in Nat
    BY <1>2, Constants
  <1>4. Places(d) \subseteq Nat
    BY <1>3 DEF Places
  <1>5. Len(d.l1) \in Nat /\ DOMAIN d.l1 = 1 .. Len(d.l1)
    BY <1>1
  <1>6. \A i \in DOMAIN d.rft : d.rft[i] \in Places(d)
    BY <1>1, <1>2, ElementOfSeq
  <1>7. \A i \in DOMAIN d.l1 : d.l1[i] \in [at : {Nowhere} \cup Places(d), copied : BOOLEAN]
    BY <1>1, <1>5, ElementOfSeq
  <1>8. \A i \in DOMAIN d.l1 :
           /\ d.l1[i].at \in {Nowhere} \cup Places(d) /\ d.l1[i].copied \in BOOLEAN
           /\ d.l1[i].at \in Int
    BY <1>4, <1>7 DEF Nowhere
  <1> QED
    BY <1>2, <1>3, <1>4, <1>5, <1>6, <1>8 DEF Image

\* A place has a block in the refcount table, and a cluster with a block is a place.
LEMMA PlaceHasBlock ==
    ASSUME NEW d, Image(d), NEW c \in Nat
    PROVE  c \in Places(d) <=> Block(c) \in DOMAIN d.rft
  BY ImageTypes, PlacesHaveBlocks DEF Places

\* What blocks and tables hold.
LEMMA ContentTypes ==
    ASSUME NEW d, Image(d), NEW c \in Places(d)
    PROVE  /\ d.cl[c].kind \in {"block", "table", "data"}
           /\ d.cl[c].kind = "block" => d.cl[c].v \in BlockTables
           /\ d.cl[c].kind = "table" => d.cl[c].v \in L2Tables
           /\ d.cl[c] = Content(d.cl[c].kind, d.cl[c].v)
  <1>1. d.cl[c] \in Contents \/ d.cl[c] = Content("data", d.cl[c].v)
    BY DEF Image
  <1>2. CASE d.cl[c] = Content("data", d.cl[c].v)
    BY <1>2 DEF Content
  <1>3. CASE d.cl[c] \in [kind : {"block"}, v : [1 .. RbEntries -> 0 .. CountMod - 1]]
    BY <1>3 DEF Content, BlockTables
  <1>4. CASE d.cl[c] \in [kind : {"table"}, v : [1 .. L2Entries -> [at : Nat, copied : BOOLEAN]]]
    BY <1>4 DEF Content, L2Tables
  <1> QED
    BY <1>1, <1>2, <1>3, <1>4 DEF Contents

LEMMA CountType ==
    ASSUME NEW d, Image(d), NEW c \in Places(d)
    PROVE  Count(d, c) \in 0 .. CountMod - 1
  <1> DEFINE b == d.rft[Block(c)]
  <1>1. Block(c) \in DOMAIN d.rft /\ c \in Nat
    BY ImageTypes, PlaceHasBlock
  <1>2. b \in Places(d) /\ InBlock(c) \in 1 .. RbEntries
    BY <1>1, ImageTypes, BlockTypes
  <1>3. b # 0 => d.cl[b].kind = "block"
    BY <1>1 DEF Image, Arranged
  <1>4. b # 0 => d.cl[b].v \in BlockTables
    BY <1>2, <1>3, ContentTypes
  <1>5. Count(d, c) = IF b = 0 THEN 0 ELSE d.cl[b].v[InBlock(c)]
    BY DEF Count
  <1> HIDE DEF b
  <1>6. CASE b # 0
    BY <1>2, <1>4, <1>5, <1>6 DEF BlockTables
  <1>7. CASE b = 0
    BY <1>5, <1>7, Constants
  <1> QED
    BY <1>6, <1>7

\* The references to a cluster are as many as there are places that refer to it.
LEMMA ReferredParts ==
    ASSUME NEW d, Image(d), NEW c
    PROVE  /\ Referred(d, c) = (IF c \in Fixed THEN 1 ELSE 0) + Cardinality(RftRefs(d, c))
                               + Cardinality(L1Refs(d, c)) + Cardinality(L2Refs(d, c))
           /\ IsFiniteSet(RftRefs(d, c)) /\ IsFiniteSet(L1Refs(d, c)) /\ IsFiniteSet(L2Refs(d, c))
           /\ Cardinality(RftRefs(d, c)) \in Nat /\ Cardinality(L1Refs(d, c)) \in Nat
           /\ Cardinality(L2Refs(d, c)) \in Nat /\ Referred(d, c) \in Nat
  <1>1. Referred(d, c) = (IF c \in Fixed THEN 1 ELSE 0) + Cardinality(RftRefs(d, c))
                         + Cardinality(L1Refs(d, c)) + Cardinality(L2Refs(d, c))
    BY DEF Referred, RftRefs, L1Used, L1Refs, L2Refs
  <1>2. IsFiniteSet(DOMAIN d.rft) /\ IsFiniteSet(DOMAIN d.l1) /\ IsFiniteSet(1 .. L2Entries)
    <2>1. \A n \in Nat : IsFiniteSet(1 .. n)
      BY FS_Interval
    <2>2. L2Entries \in Nat
      BY Constants
    <2> QED
      BY <2>1, <2>2, ImageTypes
  <1>3. IsFiniteSet(RftRefs(d, c))
    <2>1. RftRefs(d, c) \subseteq DOMAIN d.rft
      BY DEF RftRefs
    <2> QED
      BY <1>2, <2>1, FS_Subset
  <1>4. IsFiniteSet(L1Used(d)) /\ IsFiniteSet(L1Refs(d, c))
    <2>1. L1Used(d) \subseteq DOMAIN d.l1 /\ L1Refs(d, c) \subseteq DOMAIN d.l1
      BY DEF L1Used, L1Refs
    <2> QED
      BY <1>2, <2>1, FS_Subset
  <1>5. IsFiniteSet(L2Refs(d, c))
    <2>1. IsFiniteSet(L1Used(d) \X (1 .. L2Entries))
      BY <1>2, <1>4, FS_Product
    <2>2. L2Refs(d, c) \subseteq L1Used(d) \X (1 .. L2Entries)
      BY DEF L2Refs
    <2> QED
      BY <2>1, <2>2, FS_Subset
  <1>6. /\ Cardinality(RftRefs(d, c)) \in Nat /\ Cardinality(L1Refs(d, c)) \in Nat
        /\ Cardinality(L2Refs(d, c)) \in Nat
    BY <1>3, <1>4, <1>5, FS_CardinalityType
  <1>7. Referred(d, c) \in Nat
    BY <1>1, <1>6
  <1> QED
    BY <1>1, <1>3, <1>4, <1>5, <1>6, <1>7

\* Nothing refers to a cluster that counts nothing.
LEMMA NotCounted ==
    ASSUME NEW d, Image(d), Covered(d), NEW c \in Places(d), Count(d, c) = 0
    PROVE  /\ c \notin Fixed /\ c # 0 /\ Referred(d, c) = 0
           /\ RftRefs(d, c) = {} /\ L1Refs(d, c) = {} /\ L2Refs(d, c) = {}
           /\ \A i \in DOMAIN d.rft : d.rft[i] # c
           /\ \A i \in DOMAIN d.l1 : d.l1[i].at # c
           /\ \A i \in DOMAIN d.l1, e \in 1 .. L2Entries :
                 d.l1[i].at > 0 => d.cl[d.l1[i].at].v[e].at # c
  <1>1. Referred(d, c) <= 0 /\ Referred(d, c) \in Nat
    BY ReferredParts DEF Covered
  <1>2. /\ c \notin Fixed /\ Referred(d, c) = 0 /\ Cardinality(RftRefs(d, c)) = 0
        /\ Cardinality(L1Refs(d, c)) = 0 /\ Cardinality(L2Refs(d, c)) = 0
    BY <1>1, ReferredParts
  <1>3. RftRefs(d, c) = {} /\ L1Refs(d, c) = {} /\ L2Refs(d, c) = {}
    BY <1>2, ReferredParts, FS_EmptySet
  <1>4. c # 0 /\ c \in Nat /\ c > 0
    BY <1>2, ImageTypes
  <1>5. \A i \in DOMAIN d.rft : d.rft[i] # c
    BY <1>3, <1>4 DEF RftRefs
  <1>6. \A i \in DOMAIN d.l1 : d.l1[i].at # c
    BY <1>3, <1>4 DEF L1Refs, L1Used
  <1>7. ASSUME NEW i \in DOMAIN d.l1, NEW e \in 1 .. L2Entries, d.l1[i].at > 0,
               d.cl[d.l1[i].at].v[e].at = c
        PROVE  FALSE
    <2>1. i \in L1Used(d)
      BY <1>7 DEF L1Used
    <2>2. <<i, e>> \in L1Used(d) \X (1 .. L2Entries)
      BY <2>1
    <2>3. <<i, e>> \in L2Refs(d, c)
      BY <1>4, <1>7, <2>2 DEF L2Refs
    <2> QED
      BY <1>3, <2>3
  <1> QED
    BY <1>2, <1>3, <1>4, <1>5, <1>6, <1>7

\* Counts change only with the table or the blocks.
LEMMA SameCount ==
    ASSUME NEW d, Image(d), NEW e, e.rft = d.rft,
           \A i \in DOMAIN d.rft : d.rft[i] # 0 => e.cl[d.rft[i]].v = d.cl[d.rft[i]].v,
           NEW c \in Places(d)
    PROVE  Count(e, c) = Count(d, c)
  <1>1. Block(c) \in DOMAIN d.rft
    BY ImageTypes, PlaceHasBlock
  <1> QED
    BY <1>1 DEF Count

\* References change only with the tables.
LEMMA SameReferred ==
    ASSUME NEW d, NEW e, e.rft = d.rft, e.l1 = d.l1,
           \A i \in DOMAIN d.l1 : d.l1[i].at > 0 => e.cl[d.l1[i].at].v = d.cl[d.l1[i].at].v,
           NEW c
    PROVE  Referred(e, c) = Referred(d, c)
  <1>1. RftRefs(e, c) = RftRefs(d, c) /\ L1Used(e) = L1Used(d) /\ L1Refs(e, c) = L1Refs(d, c)
    BY DEF RftRefs, L1Used, L1Refs
  <1>2. \A t \in L1Used(d) \X (1 .. L2Entries) :
           e.cl[e.l1[t[1]].at].v[t[2]].at = d.cl[d.l1[t[1]].at].v[t[2]].at
    BY DEF L1Used
  <1>3. L2Refs(e, c) = L2Refs(d, c)
    BY <1>1, <1>2 DEF L2Refs
  <1>4. \A f : Referred(f, c) = (IF c \in Fixed THEN 1 ELSE 0) + Cardinality(RftRefs(f, c))
                                + Cardinality(L1Refs(f, c)) + Cardinality(L2Refs(f, c))
    BY DEF Referred, RftRefs, L1Used, L1Refs, L2Refs
  <1> QED
    BY <1>1, <1>3, <1>4

\* What is where in an image, part by part: the blocks, each once; the tables; the
\* entries that are copied, which a snapshot's table has none of.
LEMMA BlockThere ==
    ASSUME NEW d, Image(d), NEW i \in DOMAIN d.rft, d.rft[i] # 0
    PROVE  d.cl[d.rft[i]].kind = "block"
  BY DEF Image, Arranged

LEMMA BlockOnce ==
    ASSUME NEW d, Image(d), NEW i \in DOMAIN d.rft, NEW j \in DOMAIN d.rft,
           d.rft[i] = d.rft[j], d.rft[i] # 0
    PROVE  i = j
  BY DEF Image, Arranged

LEMMA TableThere ==
    ASSUME NEW d, Image(d), NEW i \in DOMAIN d.l1
    PROVE  /\ d.l1[i].at > 0 => d.cl[d.l1[i].at].kind = "table"
           /\ d.l1[i].copied => d.l1[i].at # 0
           /\ ~d.l1[i].copied => d.l1[i].at \in {0} \cup Fixed
  BY DEF Image, Arranged

LEMMA OwnData ==
    ASSUME NEW d, Image(d), NEW i \in DOMAIN d.l1, d.l1[i].at > 0,
           NEW n \in 1 .. L2Entries, d.cl[d.l1[i].at].v[n].copied
    PROVE  /\ d.cl[d.l1[i].at].v[n].at \in Places(d) \ Fixed
           /\ d.cl[d.cl[d.l1[i].at].v[n].at].kind = "data"
  <1> DEFINE Own(y) == y.copied => y.at \in Places(d) \ Fixed /\ d.cl[y.at].kind = "data"
  <1>1. \A e \in 1 .. L2Entries : Own(d.cl[d.l1[i].at].v[e])
    BY Zenon DEF Image, Arranged
  <1>2. Own(d.cl[d.l1[i].at].v[n])
    BY <1>1
  <1> QED
    BY <1>2

LEMMA SnapshotOwnsNone ==
    ASSUME NEW d, Image(d), NEW c \in Fixed, d.cl[c].kind = "table", NEW n \in 1 .. L2Entries
    PROVE  ~d.cl[c].v[n].copied
  BY DEF Image, Arranged

\* Where tables are, and what they refer to.
TablesIn(l, cl, places) ==
    /\ \A i \in DOMAIN l :
          /\ l[i].at > 0 => cl[l[i].at].kind = "table"
          /\ IF l[i].copied THEN l[i].at # 0 ELSE l[i].at \in {0} \cup Fixed
    /\ \A i \in DOMAIN l : l[i].at > 0 =>
          \A n \in 1 .. L2Entries : cl[l[i].at].v[n].copied =>
             /\ cl[l[i].at].v[n].at \in places \ Fixed
             /\ cl[cl[l[i].at].v[n].at].kind = "data"
    /\ \A c \in Fixed : cl[c].kind = "table" => \A n \in 1 .. L2Entries : ~cl[c].v[n].copied

LEMMA ArrangedBy ==
    ASSUME NEW d, BlocksIn(d.rft, d.cl), TablesIn(d.l1, d.cl, Places(d))
    PROVE  Arranged(d)
  <1>1. ASSUME NEW i \in DOMAIN d.l1
        PROVE  /\ d.l1[i].at > 0 => d.cl[d.l1[i].at].kind = "table"
               /\ IF d.l1[i].copied THEN d.l1[i].at # 0 ELSE d.l1[i].at \in {0} \cup Fixed
               /\ d.l1[i].at > 0 =>
                     \A e \in 1 .. L2Entries :
                        LET entry == d.cl[d.l1[i].at].v[e]
                        IN entry.copied => entry.at \in Places(d) \ Fixed /\ d.cl[entry.at].kind = "data"
    BY DEF TablesIn
  <1> QED
    BY <1>1, Zenon DEF Arranged, BlocksIn, TablesIn

\* e is image d with x in cluster c.
Edited(d, e, c, x) ==
    /\ e = [rft |-> e.rft, l1 |-> e.l1, cl |-> e.cl]
    /\ e.rft = d.rft /\ e.l1 = d.l1 /\ Places(e) = Places(d)
    /\ e.cl = [p \in Places(d) |-> e.cl[p]]
    /\ e.cl[c] = x /\ \A p \in Places(d) \ {c} : e.cl[p] = d.cl[p]

LEMMA ClusterEdited ==
    ASSUME NEW d, Image(d), NEW c \in Places(d), NEW x
    PROVE  Edited(d, [d EXCEPT !.cl[c] = x], c, x)
  <1> DEFINE e == [d EXCEPT !.cl[c] = x]
  <1>1. d = [rft |-> d.rft, l1 |-> d.l1, cl |-> d.cl] /\ d.cl = [p \in Places(d) |-> d.cl[p]]
    BY DEF Image
  <1>2. e = [rft |-> d.rft, l1 |-> d.l1, cl |-> [d.cl EXCEPT ![c] = x]]
    BY <1>1
  <1> HIDE DEF e
  <1>3. e.rft = d.rft /\ e.l1 = d.l1 /\ e.cl = [d.cl EXCEPT ![c] = x]
    BY <1>2
  <1>4. e = [rft |-> e.rft, l1 |-> e.l1, cl |-> e.cl]
    BY <1>2, <1>3
  <1>5. e.cl = [p \in Places(d) |-> e.cl[p]] /\ e.cl[c] = x /\ \A p \in Places(d) \ {c} : e.cl[p] = d.cl[p]
    BY <1>1, <1>3
  <1>6. Edited(d, e, c, x)
    BY <1>3, <1>4, <1>5 DEF Edited, Places
  <1> QED
    BY <1>6 DEF e

\* A cluster may be written with counts or data when no table is there, the blocks
\* are blocks, and what is copied has data.
LEMMA ClusterWritten ==
    ASSUME NEW d, Image(d), NEW c \in Places(d), NEW x, NEW e, Edited(d, e, c, x),
           \/ x = Content("data", x.v) /\ x.kind = "data"
           \/ x = Content("block", x.v) /\ x.kind = "block" /\ x.v \in BlockTables,
           \A i \in DOMAIN d.rft : d.rft[i] = c /\ c # 0 => x.kind = "block",
           \A i \in DOMAIN d.l1 : d.l1[i].at > 0 => d.l1[i].at # c,
           \A i \in DOMAIN d.l1, n \in 1 .. L2Entries :
              d.l1[i].at > 0 /\ d.cl[d.l1[i].at].v[n].copied /\ d.cl[d.l1[i].at].v[n].at = c
                 => x.kind = "data"
    PROVE  Image(e) /\ Places(e) = Places(d) /\ \A p : Referred(e, p) = Referred(d, p)
  <1>1. /\ e = [rft |-> e.rft, l1 |-> e.l1, cl |-> e.cl]
        /\ e.rft = d.rft /\ e.l1 = d.l1 /\ Places(e) = Places(d)
        /\ e.cl = [p \in Places(d) |-> e.cl[p]]
        /\ e.cl[c] = x /\ \A p \in Places(d) \ {c} : e.cl[p] = d.cl[p]
    BY DEF Edited
  <1>2. x \in Contents \/ x = Content("data", x.v)
    BY DEF Contents, Content, BlockTables
  <1>3. \A p \in Places(e) : e.cl[p] \in Contents \/ e.cl[p] = Content("data", e.cl[p].v)
    BY <1>1, <1>2 DEF Image
  <1>4. \A i \in DOMAIN d.l1 : d.l1[i].at > 0 => d.l1[i].at \in Places(d) \ {c}
    BY ImageTypes DEF Nowhere
  <1>5. \A i \in DOMAIN d.l1 : d.l1[i].at > 0 => e.cl[d.l1[i].at] = d.cl[d.l1[i].at]
    BY <1>1, <1>4
  <1>6. ASSUME NEW p PROVE Referred(e, p) = Referred(d, p)
    <2>1. \A i \in DOMAIN d.l1 : d.l1[i].at > 0 => e.cl[d.l1[i].at].v = d.cl[d.l1[i].at].v
      BY <1>5
    <2> QED
      BY <1>1, <2>1, SameReferred, SMTT(60)
  <1>7. Arranged(e)
    <2>1. ASSUME NEW i \in DOMAIN d.rft, d.rft[i] # 0 PROVE e.cl[d.rft[i]].kind = "block"
      <3>1. d.rft[i] \in Places(d)
        BY ImageTypes
      <3>2. d.cl[d.rft[i]].kind = "block"
        BY <2>1, BlockThere
      <3> QED
        BY <1>1, <2>1, <3>1, <3>2
    <2>2. \A i, j \in DOMAIN d.rft : d.rft[i] = d.rft[j] /\ d.rft[i] # 0 => i = j
      BY BlockOnce
    <2>3. ASSUME NEW i \in DOMAIN d.l1
          PROVE  /\ d.l1[i].at > 0 => e.cl[d.l1[i].at].kind = "table"
                 /\ IF d.l1[i].copied THEN d.l1[i].at # 0 ELSE d.l1[i].at \in {0} \cup Fixed
      BY <1>5, TableThere
    <2>4. ASSUME NEW i \in DOMAIN d.l1, d.l1[i].at > 0, NEW n \in 1 .. L2Entries,
                 e.cl[d.l1[i].at].v[n].copied
          PROVE  /\ e.cl[d.l1[i].at].v[n].at \in Places(d) \ Fixed
                 /\ e.cl[e.cl[d.l1[i].at].v[n].at].kind = "data"
      <3> DEFINE y == d.cl[d.l1[i].at].v[n]
      <3>1. e.cl[d.l1[i].at].v[n] = y /\ y.copied
        BY <1>5, <2>4
      <3>2. y.at \in Places(d) \ Fixed /\ d.cl[y.at].kind = "data"
        BY <2>4, <3>1, OwnData
      <3>3. y.at = c => x.kind = "data"
        BY <2>4, <3>1
      <3> HIDE DEF y
      <3>4. e.cl[y.at].kind = "data"
        BY <1>1, <3>2, <3>3
      <3> QED
        BY <3>1, <3>2, <3>4
    <2>5. ASSUME NEW p \in Fixed, e.cl[p].kind = "table", NEW n \in 1 .. L2Entries
          PROVE  ~e.cl[p].v[n].copied
      <3>1. p \in Places(d)
        BY ImageTypes
      <3>2. p # c
        BY <1>1, <2>5
      <3>3. e.cl[p] = d.cl[p]
        BY <1>1, <3>1, <3>2
      <3> QED
        BY <2>5, <3>3, SnapshotOwnsNone
    <2>6. e.rft = d.rft /\ e.l1 = d.l1 /\ Places(e) = Places(d)
      BY <1>1
    <2>7. BlocksIn(d.rft, e.cl)
      BY <2>1, <2>2 DEF BlocksIn
    <2>8. /\ \A i \in DOMAIN d.l1 :
                /\ d.l1[i].at > 0 => e.cl[d.l1[i].at].kind = "table"
                /\ IF d.l1[i].copied THEN d.l1[i].at # 0 ELSE d.l1[i].at \in {0} \cup Fixed
          /\ \A i \in DOMAIN d.l1 : d.l1[i].at > 0 =>
                \A n \in 1 .. L2Entries : e.cl[d.l1[i].at].v[n].copied =>
                   /\ e.cl[d.l1[i].at].v[n].at \in Places(d) \ Fixed
                   /\ e.cl[e.cl[d.l1[i].at].v[n].at].kind = "data"
          /\ \A p \in Fixed : e.cl[p].kind = "table" => \A n \in 1 .. L2Entries : ~e.cl[p].v[n].copied
      BY <2>3, <2>4, <2>5, Zenon
    <2>9. TablesIn(d.l1, e.cl, Places(d))
      BY <2>8, Zenon DEF TablesIn
    <2> QED
      BY <2>6, <2>7, <2>9, ArrangedBy, Zenon
  <1>8. Image(e)
    <2>1. /\ d.rft \in Seq(Places(d)) /\ d.l1 \in Seq([at : {Nowhere} \cup Places(d), copied : BOOLEAN])
          /\ 0 \in Fixed /\ Fixed \subseteq Places(d)
      BY DEF Image
    <2> QED
      BY <1>1, <1>3, <1>7, <2>1 DEF Image
  <1> QED
    BY <1>1, <1>6, <1>8

\* Counts or data may always be written over counts or data.
LEMMA KindKept ==
    ASSUME NEW d, Image(d), NEW c \in Places(d), NEW x, NEW e, Edited(d, e, c, x),
           \/ x = Content("data", x.v) /\ x.kind = "data"
           \/ x = Content("block", x.v) /\ x.kind = "block" /\ x.v \in BlockTables,
           d.cl[c].kind = x.kind
    PROVE  Image(e) /\ Places(e) = Places(d) /\ \A p : Referred(e, p) = Referred(d, p)
  <1>1. ASSUME NEW i \in DOMAIN d.rft, d.rft[i] = c, c # 0 PROVE x.kind = "block"
    BY <1>1, BlockThere
  <1>2. ASSUME NEW i \in DOMAIN d.l1, d.l1[i].at > 0 PROVE d.l1[i].at # c
    <2>1. d.cl[d.l1[i].at].kind = "table"
      BY <1>2, TableThere
    <2> QED
      BY <2>1
  <1>3. ASSUME NEW i \in DOMAIN d.l1, NEW n \in 1 .. L2Entries, d.l1[i].at > 0,
               d.cl[d.l1[i].at].v[n].copied, d.cl[d.l1[i].at].v[n].at = c
        PROVE  x.kind = "data"
    <2>1. d.cl[d.cl[d.l1[i].at].v[n].at].kind = "data"
      BY <1>3, OwnData
    <2> QED
      BY <1>3, <2>1
  <1> QED
    BY <1>1, <1>2, <1>3, ClusterWritten, SMTT(60)

\* A count is written where it is, and no other changes.
LEMMA CountWritten ==
    ASSUME NEW d, Image(d), NEW c \in Places(d), NEW b, b = d.rft[Block(c)], b # 0,
           NEW n \in 0 .. CountMod - 1, NEW v, v = [d.cl[b].v EXCEPT ![InBlock(c)] = n],
           NEW e, Edited(d, e, b, Content("block", v))
    PROVE  /\ Image(e) /\ Places(e) = Places(d) /\ \A p : Referred(e, p) = Referred(d, p)
           /\ Count(e, c) = n
           /\ \A p \in Places(d) \ {c} : Count(e, p) = Count(d, p)
           /\ v \in BlockTables
  <1>1. c \in Nat /\ Block(c) \in DOMAIN d.rft /\ InBlock(c) \in 1 .. RbEntries
    BY ImageTypes, PlaceHasBlock, BlockTypes
  <1>2. b \in Places(d) /\ d.cl[b].kind = "block"
    BY <1>1, ImageTypes, BlockThere
  <1>3. d.cl[b].v \in BlockTables
    BY <1>2, ContentTypes
  <1>4. v \in BlockTables /\ v[InBlock(c)] = n
        /\ \A k \in 1 .. RbEntries \ {InBlock(c)} : v[k] = d.cl[b].v[k]
    BY <1>1, <1>3 DEF BlockTables
  <1> DEFINE x == Content("block", v)
  <1>5. x = Content("block", x.v) /\ x.kind = "block" /\ x.v = v
    BY DEF Content
  <1> HIDE DEF x
  <1>6. Image(e) /\ Places(e) = Places(d) /\ \A p : Referred(e, p) = Referred(d, p)
    <2>1. Edited(d, e, b, x)
      BY DEF x
    <2> QED
      BY <1>2, <1>4, <1>5, <2>1, KindKept, SMTT(60)
  <1>7. e.rft = d.rft /\ e.cl[b].v = v /\ \A p \in Places(d) \ {b} : e.cl[p] = d.cl[p]
    BY <1>5 DEF Edited, x
  <1>8. Count(e, c) = n
    BY <1>4, <1>7 DEF Count
  <1>9. ASSUME NEW p \in Places(d), p # c PROVE Count(e, p) = Count(d, p)
    <2>1. p \in Nat /\ Block(p) \in DOMAIN d.rft /\ InBlock(p) \in 1 .. RbEntries
      BY ImageTypes, PlaceHasBlock, BlockTypes
    <2> DEFINE a == d.rft[Block(p)]
    <2>2. a \in Places(d)
      BY <2>1, ImageTypes
    <2>3. Count(e, p) = (IF a = 0 THEN 0 ELSE e.cl[a].v[InBlock(p)])
          /\ Count(d, p) = (IF a = 0 THEN 0 ELSE d.cl[a].v[InBlock(p)])
      BY <1>7 DEF Count
    <2>4. CASE a = b
      <3>1. Block(p) = Block(c)
        BY <1>1, <2>1, <2>4, BlockOnce
      <3>2. InBlock(p) # InBlock(c)
        BY <1>1, <1>9, <2>1, <3>1, CountsApart
      <3> HIDE DEF a
      <3>3. e.cl[a].v[InBlock(p)] = d.cl[a].v[InBlock(p)]
        BY <1>4, <1>7, <2>1, <2>4, <3>2
      <3> QED
        BY <2>3, <3>3
    <2>5. CASE a # b
      <3> HIDE DEF a
      <3> QED
        BY <1>7, <2>2, <2>3, <2>5
    <2> QED
      BY <2>4, <2>5
  <1> QED
    BY <1>4, <1>6, <1>8, <1>9

\* A block may be written where nothing is: no count changes.
LEMMA BlockWritten ==
    ASSUME NEW d, Image(d), Covered(d), NEW c \in Places(d), Count(d, c) = 0,
           NEW v \in BlockTables, NEW e, Edited(d, e, c, Content("block", v))
    PROVE  /\ Image(e) /\ Places(e) = Places(d) /\ \A p : Referred(e, p) = Referred(d, p)
           /\ \A p \in Places(d) : Count(e, p) = Count(d, p)
  <1> DEFINE x == Content("block", v)
  <1>1. x = Content("block", x.v) /\ x.kind = "block" /\ x.v = v
    BY DEF Content
  <1> HIDE DEF x
  <1>2. Edited(d, e, c, x)
    BY DEF x
  <1>3. /\ \A i \in DOMAIN d.rft : d.rft[i] # c
        /\ \A i \in DOMAIN d.l1 : d.l1[i].at # c
        /\ \A i \in DOMAIN d.l1, n \in 1 .. L2Entries :
              d.l1[i].at > 0 => d.cl[d.l1[i].at].v[n].at # c
    BY NotCounted
  <1>4. Image(e) /\ Places(e) = Places(d) /\ \A p : Referred(e, p) = Referred(d, p)
    BY <1>1, <1>2, <1>3, ClusterWritten, SMTT(60)
  <1>5. ASSUME NEW p \in Places(d) PROVE Count(e, p) = Count(d, p)
    <2>1. \A i \in DOMAIN d.rft : d.rft[i] \in Places(d) \ {c}
      BY <1>3, ImageTypes
    <2>2. e.rft = d.rft /\ \A q \in Places(d) \ {c} : e.cl[q] = d.cl[q]
      BY <1>2 DEF Edited
    <2> QED
      BY <2>1, <2>2, SameCount
  <1> QED
    BY <1>4, <1>5

\* Data is written over data: no count changes.
LEMMA DataWritten ==
    ASSUME NEW d, Image(d), NEW c \in Places(d), d.cl[c].kind = "data",
           NEW v, NEW e, Edited(d, e, c, Content("data", v))
    PROVE  /\ Image(e) /\ Places(e) = Places(d) /\ \A p : Referred(e, p) = Referred(d, p)
           /\ \A p \in Places(d) : Count(e, p) = Count(d, p)
  <1> DEFINE x == Content("data", v)
  <1>1. x = Content("data", x.v) /\ x.kind = "data"
    BY DEF Content
  <1> HIDE DEF x
  <1>2. Edited(d, e, c, x)
    BY DEF x
  <1>3. Image(e) /\ Places(e) = Places(d) /\ \A p : Referred(e, p) = Referred(d, p)
    BY <1>1, <1>2, KindKept
  <1>4. ASSUME NEW p \in Places(d) PROVE Count(e, p) = Count(d, p)
    <2>1. ASSUME NEW i \in DOMAIN d.rft, d.rft[i] # 0 PROVE e.cl[d.rft[i]].v = d.cl[d.rft[i]].v
      <3>1. d.cl[d.rft[i]].kind = "block" /\ d.rft[i] \in Places(d)
        BY <2>1, BlockThere, ImageTypes
      <3>2. d.rft[i] # c
        BY <3>1
      <3> QED
        BY <1>2, <3>1, <3>2 DEF Edited
    <2>2. e.rft = d.rft
      BY <1>2 DEF Edited
    <2> QED
      BY <2>1, <2>2, SameCount
  <1> QED
    BY <1>3, <1>4

\* What refers to a cluster, by where it stands, in any record of the three.
LEMMA ReferredSum ==
    ASSUME NEW d, NEW c
    PROVE  Referred(d, c) = (IF c \in Fixed THEN 1 ELSE 0) + Cardinality(RftRefs(d, c))
                            + Cardinality(L1Refs(d, c)) + Cardinality(L2Refs(d, c))
  BY DEF Referred, RftRefs, L1Used, L1Refs, L2Refs

LEMMA TablesArranged ==
    ASSUME NEW d, Image(d)
    PROVE  TablesIn(d.l1, d.cl, Places(d))
  <1>1. \A i \in DOMAIN d.l1 :
           /\ d.l1[i].at > 0 => d.cl[d.l1[i].at].kind = "table"
           /\ IF d.l1[i].copied THEN d.l1[i].at # 0 ELSE d.l1[i].at \in {0} \cup Fixed
    <2> SUFFICES ASSUME NEW i \in DOMAIN d.l1
                 PROVE  /\ d.l1[i].at > 0 => d.cl[d.l1[i].at].kind = "table"
                        /\ IF d.l1[i].copied THEN d.l1[i].at # 0 ELSE d.l1[i].at \in {0} \cup Fixed
      BY Zenon
    <2> QED
      BY TableThere
  <1>2. \A i \in DOMAIN d.l1 : d.l1[i].at > 0 =>
           \A m \in 1 .. L2Entries : d.cl[d.l1[i].at].v[m].copied =>
              /\ d.cl[d.l1[i].at].v[m].at \in Places(d) \ Fixed
              /\ d.cl[d.cl[d.l1[i].at].v[m].at].kind = "data"
    <2> SUFFICES ASSUME NEW i \in DOMAIN d.l1, d.l1[i].at > 0, NEW m \in 1 .. L2Entries,
                        d.cl[d.l1[i].at].v[m].copied
                 PROVE  /\ d.cl[d.l1[i].at].v[m].at \in Places(d) \ Fixed
                        /\ d.cl[d.cl[d.l1[i].at].v[m].at].kind = "data"
      BY Zenon
    <2> QED
      BY OwnData
  <1>3. \A p \in Fixed : d.cl[p].kind = "table" => \A m \in 1 .. L2Entries : ~d.cl[p].v[m].copied
    BY SnapshotOwnsNone
  <1> QED
    BY <1>1, <1>2, <1>3, Zenon DEF TablesIn

\* e is image d with other tables.
WithTables(d, e, r, l) == e = [rft |-> r, l1 |-> l, cl |-> d.cl]

\* The refcount table gets the block of a part that had none: it counts the block,
\* once, and nothing else.
LEMMA RftWritten ==
    ASSUME NEW d, Image(d), Covered(d), NEW n \in Places(d), d.rft[Block(n)] = 0,
           d.cl[n].kind = "block", d.cl[n].v = [NewBlock EXCEPT ![InBlock(n)] = 1],
           NEW e, WithTables(d, e, [d.rft EXCEPT ![Block(n)] = n], d.l1)
    PROVE  /\ Image(e) /\ Covered(e) /\ Places(e) = Places(d) /\ e.l1 = d.l1 /\ e.cl = d.cl
           /\ \A p \in Places(d) \ {n} : Count(e, p) = Count(d, p)
  <1> DEFINE k == Block(n)
             r == [d.rft EXCEPT ![k] = n]
  <1>1. /\ k \in DOMAIN d.rft /\ n \in Nat /\ InBlock(n) \in 1 .. RbEntries
        /\ d.rft \in Seq(Places(d)) /\ DOMAIN d.rft = 1 .. Len(d.rft)
    BY ImageTypes, PlaceHasBlock, BlockTypes DEF Image
  <1>2. e.rft = r /\ e.l1 = d.l1 /\ e.cl = d.cl /\ e = [rft |-> e.rft, l1 |-> e.l1, cl |-> e.cl]
    <2>1. e = [rft |-> r, l1 |-> d.l1, cl |-> d.cl]
      BY DEF WithTables
    <2> QED
      BY <2>1
  <1>3. /\ r \in Seq(Places(d)) /\ Len(r) = Len(d.rft) /\ DOMAIN r = DOMAIN d.rft
        /\ r[k] = n /\ \A i \in DOMAIN d.rft \ {k} : r[i] = d.rft[i]
    BY <1>1
  <1> HIDE DEF r
  <1>4. Places(e) = Places(d)
    BY <1>2, <1>3 DEF Places
  <1>5. Count(d, n) = 0
    BY DEF Count
  <1>6. /\ n \notin Fixed /\ n # 0 /\ Referred(d, n) = 0
        /\ \A i \in DOMAIN d.rft : d.rft[i] # n
        /\ RftRefs(d, n) = {} /\ L1Refs(d, n) = {} /\ L2Refs(d, n) = {}
    BY <1>5, NotCounted
  <1>7. Arranged(e)
    <2>1. ASSUME NEW i \in DOMAIN d.rft, r[i] # 0 PROVE d.cl[r[i]].kind = "block"
      <3>1. CASE i = k
        BY <1>3, <3>1
      <3>2. CASE i # k
        <4>1. r[i] = d.rft[i]
          BY <1>3, <2>1, <3>2
        <4> QED
          BY <2>1, <4>1, BlockThere
      <3> QED
        BY <3>1, <3>2
    <2>2. ASSUME NEW i \in DOMAIN d.rft, NEW j \in DOMAIN d.rft, r[i] = r[j], r[i] # 0
          PROVE  i = j
      <3> HIDE DEF k
      <3>1. CASE i = k \/ j = k
        BY <1>3, <1>6, <2>2, <3>1
      <3>2. CASE i # k /\ j # k
        <4>1. d.rft[i] = d.rft[j] /\ d.rft[i] # 0
          BY <1>3, <2>2, <3>2
        <4> QED
          BY <4>1, BlockOnce
      <3> QED
        BY <3>1, <3>2
    <2>3. BlocksIn(r, d.cl)
      BY <1>3, <2>1, <2>2 DEF BlocksIn
    <2>4. e.rft = r /\ e.l1 = d.l1 /\ e.cl = d.cl
      BY <1>2
    <2>5. BlocksIn(e.rft, e.cl)
      BY <2>3, <2>4
    <2>6. TablesIn(e.l1, e.cl, Places(e))
      BY <1>4, <2>4, TablesArranged, Zenon
    <2> QED
      BY <2>5, <2>6, ArrangedBy, Zenon
  <1>8. Image(e)
    <2>1. /\ d.l1 \in Seq([at : {Nowhere} \cup Places(d), copied : BOOLEAN])
          /\ d.cl = [c \in Places(d) |-> d.cl[c]]
          /\ \A c \in Places(d) : d.cl[c] \in Contents \/ d.cl[c] = Content("data", d.cl[c].v)
          /\ 0 \in Fixed /\ Fixed \subseteq Places(d)
      BY DEF Image
    <2> QED
      BY <1>2, <1>3, <1>4, <1>7, <2>1 DEF Image
  <1>9. \A c : L1Refs(e, c) = L1Refs(d, c) /\ L2Refs(e, c) = L2Refs(d, c)
    BY <1>2 DEF L1Refs, L2Refs, L1Used
  <1>10. ASSUME NEW c, c # n PROVE Referred(e, c) = Referred(d, c)
    <2>1. RftRefs(e, c) = RftRefs(d, c)
      <3>1. ASSUME NEW i \in DOMAIN d.rft, c # 0 PROVE r[i] = c <=> d.rft[i] = c
        BY <1>1, <1>3, <1>10, <3>1
      <3> QED
        BY <1>2, <1>3, <3>1 DEF RftRefs
    <2> QED
      BY <1>9, <2>1, ReferredSum
  <1>11. Referred(e, n) = 1
    <2>1. RftRefs(e, n) = {k}
      <3>1. \A i \in DOMAIN d.rft : r[i] = n <=> i = k
        BY <1>1, <1>3, <1>6
      <3> QED
        BY <1>1, <1>2, <1>3, <1>6, <3>1 DEF RftRefs
    <2>2. Cardinality(RftRefs(e, n)) = 1 /\ Cardinality({}) = 0
      BY <2>1, FS_Singleton, FS_EmptySet
    <2>3. L1Refs(e, n) = {} /\ L2Refs(e, n) = {}
      BY <1>6, <1>9
    <2>4. Cardinality(L1Refs(e, n)) = 0 /\ Cardinality(L2Refs(e, n)) = 0
      BY <2>2, <2>3
    <2>5. Referred(e, n) = 0 + 1 + 0 + 0
      BY <1>6, <2>2, <2>4, ReferredSum
    <2> QED
      BY <2>5
  <1>12. ASSUME NEW p \in Places(d), p # n PROVE Count(e, p) = Count(d, p)
    <2>1. p \in Nat /\ Block(p) \in DOMAIN d.rft /\ InBlock(p) \in 1 .. RbEntries
      BY ImageTypes, PlaceHasBlock, BlockTypes
    <2>2. CASE Block(p) = k
      <3>1. InBlock(p) # InBlock(n)
        BY <1>1, <1>12, <2>1, <2>2, CountsApart
      <3>2. d.cl[n].v[InBlock(p)] = 0
        BY <1>1, <2>1, <3>1 DEF NewBlock
      <3>3. Count(e, p) = 0
        BY <1>2, <1>3, <1>6, <2>2, <3>2 DEF Count
      <3>4. Count(d, p) = 0
        BY <2>2 DEF Count
      <3> QED
        BY <3>3, <3>4
    <2>3. CASE Block(p) # k
      <3>1. e.rft[Block(p)] = d.rft[Block(p)]
        BY <1>2, <1>3, <2>1, <2>3
      <3> QED
        BY <1>2, <3>1 DEF Count
    <2> QED
      BY <2>2, <2>3
  <1>13. Count(e, n) = 1
    <2>1. d.cl[n].v[InBlock(n)] = 1
      BY <1>1 DEF NewBlock
    <2> QED
      BY <1>2, <1>3, <1>6, <2>1 DEF Count
  <1>14. Covered(e)
    <2> SUFFICES ASSUME NEW p \in Places(d) PROVE Referred(e, p) <= Count(e, p)
      BY <1>4 DEF Covered
    <2>1. CASE p = n
      BY <1>11, <1>13, <2>1
    <2>2. CASE p # n
      BY <1>10, <1>12, <2>2 DEF Covered
    <2> QED
      BY <2>1, <2>2
  <1> QED
    BY <1>2, <1>4, <1>8, <1>12, <1>14

LEMMA ElementReplaced ==
    ASSUME NEW S, NEW q \in Seq(S), NEW k \in DOMAIN q, NEW x \in S
    PROVE  /\ [q EXCEPT ![k] = x] \in Seq(S) /\ Len([q EXCEPT ![k] = x]) = Len(q)
           /\ DOMAIN [q EXCEPT ![k] = x] = DOMAIN q /\ [q EXCEPT ![k] = x][k] = x
           /\ \A i \in DOMAIN q \ {k} : [q EXCEPT ![k] = x][i] = q[i]
  OBVIOUS

\* An entry of the level 1 table is given up: its table loses a reference, and
\* nothing gets one.
LEMMA L1Written ==
    ASSUME NEW d, Image(d), NEW k \in DOMAIN d.l1, d.l1[k].at > 0,
           NEW e, WithTables(d, e, d.rft, [d.l1 EXCEPT ![k] = Entry(Nowhere, TRUE)])
    PROVE  /\ Image(e) /\ Places(e) = Places(d) /\ e.rft = d.rft /\ e.cl = d.cl
           /\ \A p : Count(e, p) = Count(d, p)
           /\ \A p : Referred(e, p) <= Referred(d, p)
           /\ Referred(e, d.l1[k].at) + 1 <= Referred(d, d.l1[k].at)
  <1> DEFINE l == [d.l1 EXCEPT ![k] = Entry(Nowhere, TRUE)]
             t == d.l1[k].at
             S == [at : {Nowhere} \cup Places(d), copied : BOOLEAN]
  <1>1. /\ d.l1 \in Seq(S) /\ Len(d.l1) \in Nat /\ DOMAIN d.l1 = 1 .. Len(d.l1)
        /\ \A i \in DOMAIN d.l1 : d.l1[i].at \in Int
    BY ImageTypes DEF Image
  <1>2. e.rft = d.rft /\ e.l1 = l /\ e.cl = d.cl /\ e = [rft |-> e.rft, l1 |-> e.l1, cl |-> e.cl]
    <2>1. e = [rft |-> d.rft, l1 |-> l, cl |-> d.cl]
      BY DEF WithTables
    <2> QED
      BY <2>1
  <1>3. Places(e) = Places(d) /\ \A p : Count(e, p) = Count(d, p)
    BY <1>2 DEF Places, Count
  <1>4. Entry(Nowhere, TRUE) \in S
    BY DEF Entry
  <1>5. /\ l \in Seq(S) /\ DOMAIN l = DOMAIN d.l1
        /\ l[k] = Entry(Nowhere, TRUE) /\ \A i \in DOMAIN d.l1 \ {k} : l[i] = d.l1[i]
    <2> HIDE DEF S
    <2> DEFINE q == d.l1
               x == Entry(Nowhere, TRUE)
    <2>1. q \in Seq(S) /\ k \in DOMAIN q /\ x \in S
      BY <1>1, <1>4
    <2> HIDE DEF q, x
    <2>2. /\ [q EXCEPT ![k] = x] \in Seq(S) /\ DOMAIN [q EXCEPT ![k] = x] = DOMAIN q
          /\ [q EXCEPT ![k] = x][k] = x
          /\ \A i \in DOMAIN q \ {k} : [q EXCEPT ![k] = x][i] = q[i]
      BY <2>1, ElementReplaced, Zenon
    <2> QED
      BY <2>2 DEF q, x
  <1>6. l[k].at = -1 /\ l[k].copied
    BY <1>5 DEF Entry, Nowhere
  <1> HIDE DEF l, S
  <1>7. Image(e)
    <2>1. BlocksIn(d.rft, d.cl)
      BY BlockThere, BlockOnce DEF BlocksIn
    <2>2. TablesIn(l, d.cl, Places(d))
      <3>1. ASSUME NEW i \in DOMAIN d.l1
            PROVE  /\ l[i].at > 0 => d.cl[l[i].at].kind = "table"
                   /\ IF l[i].copied THEN l[i].at # 0 ELSE l[i].at \in {0} \cup Fixed
        <4>1. CASE i = k
          BY <1>6, <4>1
        <4>2. CASE i # k
          <5>1. l[i] = d.l1[i]
            BY <1>5, <4>2
          <5> QED
            BY <5>1, TableThere
        <4> QED
          BY <4>1, <4>2
      <3>2. ASSUME NEW i \in DOMAIN d.l1, l[i].at > 0, NEW n \in 1 .. L2Entries,
                   d.cl[l[i].at].v[n].copied
            PROVE  /\ d.cl[l[i].at].v[n].at \in Places(d) \ Fixed
                   /\ d.cl[d.cl[l[i].at].v[n].at].kind = "data"
        <4>1. i # k
          BY <1>6, <3>2
        <4>2. l[i] = d.l1[i]
          BY <1>5, <4>1
        <4>3. d.l1[i].at > 0 /\ d.cl[d.l1[i].at].v[n].copied
          BY <3>2, <4>2
        <4>4. /\ d.cl[d.l1[i].at].v[n].at \in Places(d) \ Fixed
              /\ d.cl[d.cl[d.l1[i].at].v[n].at].kind = "data"
          BY <4>3, OwnData, Zenon
        <4> QED
          BY <4>2, <4>4
      <3>3. \A c \in Fixed : d.cl[c].kind = "table" => \A n \in 1 .. L2Entries : ~d.cl[c].v[n].copied
        BY SnapshotOwnsNone
      <3>4. /\ \A i \in DOMAIN l :
                  /\ l[i].at > 0 => d.cl[l[i].at].kind = "table"
                  /\ IF l[i].copied THEN l[i].at # 0 ELSE l[i].at \in {0} \cup Fixed
            /\ \A i \in DOMAIN l : l[i].at > 0 =>
                  \A n \in 1 .. L2Entries : d.cl[l[i].at].v[n].copied =>
                     /\ d.cl[l[i].at].v[n].at \in Places(d) \ Fixed
                     /\ d.cl[d.cl[l[i].at].v[n].at].kind = "data"
        BY <1>5, <3>1, <3>2, Zenon
      <3> QED
        BY <3>3, <3>4, Zenon DEF TablesIn
    <2>3. Arranged(e)
      <3>1. BlocksIn(e.rft, e.cl) /\ TablesIn(e.l1, e.cl, Places(e))
        BY <1>2, <1>3, <2>1, <2>2
      <3> QED
        BY <3>1, ArrangedBy, Zenon
    <2>4. /\ d.rft \in Seq(Places(d)) /\ d.cl = [c \in Places(d) |-> d.cl[c]]
          /\ \A c \in Places(d) : d.cl[c] \in Contents \/ d.cl[c] = Content("data", d.cl[c].v)
          /\ 0 \in Fixed /\ Fixed \subseteq Places(d)
      BY DEF Image
    <2> QED
      BY <1>2, <1>3, <1>5, <2>3, <2>4 DEF Image, S
  <1>8. L1Used(e) = L1Used(d) \ {k}
    <2>1. ASSUME NEW i \in DOMAIN d.l1 PROVE l[i].at > 0 <=> d.l1[i].at > 0 /\ i # k
      <3>1. CASE i = k
        BY <1>6, <3>1
      <3>2. CASE i # k
        <4>1. l[i] = d.l1[i]
          BY <1>5, <3>2
        <4> QED
          BY <3>2, <4>1
      <3> QED
        BY <3>1, <3>2
    <2> QED
      BY <1>2, <1>5, <2>1 DEF L1Used
  <1>9. \A i \in L1Used(e) : l[i] = d.l1[i]
    BY <1>5, <1>8 DEF L1Used
  <1>10. ASSUME NEW p
         PROVE  /\ Cardinality(RftRefs(e, p)) = Cardinality(RftRefs(d, p))
                /\ Cardinality(L2Refs(e, p)) <= Cardinality(L2Refs(d, p))
                /\ L1Refs(e, p) = L1Refs(d, p) \ {k}
    <2>1. RftRefs(e, p) = RftRefs(d, p)
      BY <1>2 DEF RftRefs
    <2>2. L2Refs(e, p) \subseteq L2Refs(d, p)
      <3>1. \A x \in L1Used(e) \X (1 .. L2Entries) :
               x \in L1Used(d) \X (1 .. L2Entries) /\ e.l1[x[1]] = d.l1[x[1]]
        BY <1>2, <1>8, <1>9
      <3> QED
        BY <1>2, <3>1 DEF L2Refs
    <2>3. IsFiniteSet(L2Refs(d, p))
      BY ReferredParts
    <2>4. Cardinality(L2Refs(e, p)) <= Cardinality(L2Refs(d, p))
      BY <2>2, <2>3, FS_Subset
    <2>5. L1Refs(e, p) = L1Refs(d, p) \ {k}
      BY <1>2, <1>8, <1>9 DEF L1Refs
    <2> QED
      BY <2>1, <2>4, <2>5
  <1>11. ASSUME NEW p PROVE Referred(e, p) <= Referred(d, p)
    <2>1. Cardinality(L1Refs(e, p)) <= Cardinality(L1Refs(d, p))
      <3>1. L1Refs(e, p) \subseteq L1Refs(d, p) /\ IsFiniteSet(L1Refs(d, p))
        BY <1>10, ReferredParts
      <3> QED
        BY <3>1, FS_Subset
    <2> DEFINE f == IF p \in Fixed THEN 1 ELSE 0
    <2>2. /\ Referred(e, p) = f + Cardinality(RftRefs(e, p))
                              + Cardinality(L1Refs(e, p)) + Cardinality(L2Refs(e, p))
          /\ Referred(d, p) = f + Cardinality(RftRefs(d, p))
                              + Cardinality(L1Refs(d, p)) + Cardinality(L2Refs(d, p))
      BY ReferredSum
    <2>3. f \in Nat
      OBVIOUS
    <2>4. /\ Cardinality(RftRefs(e, p)) \in Nat /\ Cardinality(L1Refs(e, p)) \in Nat
          /\ Cardinality(L2Refs(e, p)) \in Nat /\ Cardinality(RftRefs(d, p)) \in Nat
          /\ Cardinality(L1Refs(d, p)) \in Nat /\ Cardinality(L2Refs(d, p)) \in Nat
      BY <1>7, ReferredParts
    <2>5. Cardinality(RftRefs(e, p)) = Cardinality(RftRefs(d, p))
          /\ Cardinality(L2Refs(e, p)) <= Cardinality(L2Refs(d, p))
      BY <1>10
    <2> HIDE DEF f
    <2> QED
      BY <2>1, <2>2, <2>3, <2>4, <2>5
  <1>12. Referred(e, t) + 1 <= Referred(d, t)
    <2>1. Cardinality(L1Refs(e, t)) = Cardinality(L1Refs(d, t)) - 1
      <3>1. k \in L1Refs(d, t)
        BY DEF L1Refs, L1Used
      <3>2. L1Refs(e, t) = L1Refs(d, t) \ {k} /\ IsFiniteSet(L1Refs(d, t))
        BY <1>10, ReferredParts
      <3> QED
        BY <3>1, <3>2, FS_RemoveElement
    <2> DEFINE f == IF t \in Fixed THEN 1 ELSE 0
    <2>2. /\ Referred(e, t) = f + Cardinality(RftRefs(e, t))
                              + Cardinality(L1Refs(e, t)) + Cardinality(L2Refs(e, t))
          /\ Referred(d, t) = f + Cardinality(RftRefs(d, t))
                              + Cardinality(L1Refs(d, t)) + Cardinality(L2Refs(d, t))
      BY ReferredSum
    <2>3. f \in Nat
      OBVIOUS
    <2>4. /\ Cardinality(RftRefs(e, t)) \in Nat /\ Cardinality(L1Refs(e, t)) \in Nat
          /\ Cardinality(L2Refs(e, t)) \in Nat /\ Cardinality(RftRefs(d, t)) \in Nat
          /\ Cardinality(L1Refs(d, t)) \in Nat /\ Cardinality(L2Refs(d, t)) \in Nat
      BY <1>7, ReferredParts
    <2>5. Cardinality(RftRefs(e, t)) = Cardinality(RftRefs(d, t))
          /\ Cardinality(L2Refs(e, t)) <= Cardinality(L2Refs(d, t))
      BY <1>10
    <2> HIDE DEF f
    <2> QED
      BY <2>1, <2>2, <2>3, <2>4, <2>5
  <1> QED
    BY <1>2, <1>3, <1>7, <1>11, <1>12

-----------------------------------------------------------------------------
(***************************************************************************)
(* What the invariant says of a state                                      *)
(***************************************************************************)

\* The tables in memory have the entries that those of the image have.
LEMMA MemoryTypes ==
    ASSUME IInv
    PROVE  /\ DOMAIN rft = DOMAIN disk.rft /\ DOMAIN l1 = DOMAIN disk.l1
           /\ DOMAIN disk.rft = 1 .. Len(disk.rft) /\ DOMAIN disk.l1 = 1 .. Len(disk.l1)
           /\ Len(l1) = Len(disk.l1) /\ Len(disk.l1) \in Nat /\ Len(rft) = Len(disk.rft)
           /\ Places(disk) \subseteq Nat /\ 0 \in Fixed /\ Fixed \subseteq Places(disk)
           /\ DOMAIN disk.cl = Places(disk)
           /\ chain \in Seq(Nat) /\ free \in Nat /\ req.from \in Nat /\ req.upto \in Nat
           /\ ~Pending => rft = disk.rft
           /\ pc # "l1" => l1 = disk.l1
  <1>1. Image(disk) /\ MemoryInv /\ CallInv /\ SearchInv
    BY DEF IInv
  <1>2. DOMAIN rft = DOMAIN disk.rft /\ (~Pending => rft = disk.rft)
    BY <1>1 DEF MemoryInv
  <1>3. DOMAIN l1 = DOMAIN disk.l1 /\ (pc # "l1" => l1 = disk.l1)
    BY <1>1 DEF MemoryInv
  <1>4. /\ DOMAIN disk.rft = 1 .. Len(disk.rft) /\ DOMAIN disk.l1 = 1 .. Len(disk.l1)
        /\ Len(disk.l1) \in Nat /\ Len(disk.rft) \in Nat
        /\ Places(disk) \subseteq Nat /\ 0 \in Fixed /\ Fixed \subseteq Places(disk)
        /\ DOMAIN disk.cl = Places(disk)
    BY <1>1, ImageTypes
  <1>5. Len(l1) = Len(disk.l1)
    <2>1. CASE pc = "l1"
      <3>1. l1 = [disk.l1 EXCEPT ![L1Index] = Entry(Nowhere, TRUE)]
        BY <1>1, <2>1 DEF MemoryInv
      <3>2. disk.l1 \in Seq([at : {Nowhere} \cup Places(disk), copied : BOOLEAN])
        BY <1>1 DEF Image
      <3>3. \A S : \A q \in Seq(S) : \A k, x : Len([q EXCEPT ![k] = x]) = Len(q)
        OBVIOUS
      <3> QED
        BY <3>1, <3>2, <3>3, Zenon
    <2>2. CASE pc # "l1"
      BY <1>3, <2>2
    <2> QED
      BY <2>1, <2>2
  <1>6. Len(rft) = Len(disk.rft)
    <2>1. CASE Pending
      <3>1. rft = [disk.rft EXCEPT ![Block(chain[1])] = chain[2]]
        BY <1>1, <2>1 DEF MemoryInv
      <3>2. disk.rft \in Seq(Places(disk))
        BY <1>1 DEF Image
      <3>3. \A S : \A q \in Seq(S) : \A k, x : Len([q EXCEPT ![k] = x]) = Len(q)
        OBVIOUS
      <3> QED
        BY <3>1, <3>2, <3>3, Zenon
    <2>2. CASE ~Pending
      BY <1>2, <2>2
    <2> QED
      BY <2>1, <2>2
  <1> QED
    BY <1>1, <1>2, <1>3, <1>4, <1>5, <1>6 DEF CallInv, SearchInv, Requests

\* A sequence of two is its first and its second.
LEMMA TwoElements ==
    ASSUME NEW S, NEW s \in Seq(S), Len(s) = 2
    PROVE  s[1] \in S /\ s[2] \in S /\ s # <<>> /\ s = <<s[1], s[2]>>
  <1>1. DOMAIN s = 1 .. 2 /\ 1 \in 1 .. 2 /\ 2 \in 1 .. 2
    OBVIOUS
  <1>2. s[1] \in S /\ s[2] \in S
    <2>1. \A i \in 1 .. 2 : s[i] \in S
      BY ElementOfSeq, Zenon
    <2> QED
      BY <1>1, <2>1, Zenon
  <1>3. s # <<>>
    BY <1>1
  <1>4. s = <<s[1], s[2]>>
    BY <1>1, <1>2
  <1> QED
    BY <1>2, <1>3, <1>4

\* A new block is the second cluster of a part of the image that has none on the disk.
LEMMA NewBlockFacts ==
    ASSUME IInv, Len(chain) = 2, use # "old"
    PROVE  /\ chain[1] \in Places(disk) /\ chain[2] \in Places(disk) /\ chain[2] = chain[1] + 1
           /\ Block(chain[1]) = Block(chain[2]) /\ Block(chain[2]) \in DOMAIN disk.rft
           /\ disk.rft[Block(chain[2])] = 0
           /\ Count(disk, chain[1]) = 0 /\ Count(disk, chain[2]) = 0
           /\ chain[2] # 0 /\ chain[2] \notin Fixed /\ Last(chain) = chain[2]
           /\ chain = <<chain[1], chain[2]>>
  <1>1. Image(disk) /\ Covered(disk) /\ NewInv /\ chain \in Seq(Nat) /\ DOMAIN rft = DOMAIN disk.rft
    BY MemoryTypes DEF IInv
  <1>2. chain[1] \in Nat /\ chain[2] \in Nat /\ chain # <<>> /\ chain = <<chain[1], chain[2]>>
    BY <1>1, TwoElements, Zenon
  <1>3. /\ Block(chain[1]) \in DOMAIN disk.rft /\ disk.rft[Block(chain[1])] = 0
        /\ chain[1] % 2 = 0 /\ chain[2] = chain[1] + 1
    BY <1>1, <1>2 DEF NewInv
  <1>4. Block(chain[2]) = Block(chain[1])
    <2>1. Block(chain[1] + 1) = Block(chain[1])
      BY <1>2, <1>3, NextCluster
    <2> QED
      BY <1>3, <2>1
  <1>5. chain[1] \in Places(disk) /\ chain[2] \in Places(disk)
    BY <1>1, <1>2, <1>3, <1>4, PlaceHasBlock
  <1>6. Count(disk, chain[1]) = 0 /\ Count(disk, chain[2]) = 0
    BY <1>3, <1>4 DEF Count
  <1>7. chain[2] # 0 /\ chain[2] \notin Fixed
    BY <1>1, <1>5, <1>6, NotCounted
  <1>8. Last(chain) = chain[2]
    BY DEF Last
  <1> QED
    BY <1>2, <1>3, <1>4, <1>5, <1>6, <1>7, <1>8

\* The table in memory refers to places in the image.
LEMMA RftPlaces ==
    ASSUME IInv
    PROVE  \A k \in DOMAIN rft : rft[k] \in Places(disk)
  <1>1. Image(disk) /\ (~Pending => rft = disk.rft)
    BY MemoryTypes DEF IInv
  <1>2. CASE ~Pending
    BY <1>1, <1>2, ImageTypes
  <1>3. CASE Pending
    <2>1. rft = [disk.rft EXCEPT ![Block(chain[1])] = chain[2]]
      BY <1>3 DEF IInv, MemoryInv
    <2>2. use # "old" /\ Len(chain) = 2
      BY <1>3 DEF Pending, IInv, CallInv
    <2>3. chain[2] \in Places(disk)
      BY <2>2, NewBlockFacts
    <2>4. \A k \in DOMAIN disk.rft : disk.rft[k] \in Places(disk)
      BY <1>1, ImageTypes
    <2> QED
      BY <2>1, <2>3, <2>4
  <1> QED
    BY <1>2, <1>3

\* The block that the table in memory has for a cluster is a place with counts, which
\* the disk has for the cluster too, but for the new one.
LEMMA BlockFacts ==
    ASSUME IInv, NEW c \in Nat
    PROVE  /\ BlockOf(c) \in Places(disk)
           /\ BlockOf(c) # 0 =>
                 /\ Block(c) \in DOMAIN rft /\ rft[Block(c)] = BlockOf(c) /\ c \in Places(disk)
                 /\ disk.cl[BlockOf(c)].kind = "block" /\ disk.cl[BlockOf(c)].v \in BlockTables
           /\ ~Pending /\ c \in Places(disk) => BlockOf(c) = disk.rft[Block(c)]
           /\ ~Pending /\ BlockOf(c) = 0 /\ c \in Places(disk) => Count(disk, c) = 0
           /\ ~Pending /\ BlockOf(c) # 0 =>
                 disk.cl[BlockOf(c)].v[InBlock(c)] = Count(disk, c)
  <1>1. Image(disk) /\ DOMAIN rft = DOMAIN disk.rft /\ 0 \in Places(disk) /\ BlocksIn(rft, disk.cl)
        /\ (~Pending => rft = disk.rft) /\ Places(disk) \subseteq Nat
    BY MemoryTypes DEF IInv, MemoryInv
  <1>2. \A k \in DOMAIN rft : rft[k] \in Places(disk)
    BY RftPlaces
  <1>3. BlockOf(c) \in Places(disk)
    BY <1>1, <1>2 DEF BlockOf
  <1>4. ASSUME BlockOf(c) # 0
        PROVE  /\ Block(c) \in DOMAIN rft /\ rft[Block(c)] = BlockOf(c) /\ c \in Places(disk)
               /\ disk.cl[BlockOf(c)].kind = "block" /\ disk.cl[BlockOf(c)].v \in BlockTables
    <2>1. Block(c) \in DOMAIN rft /\ rft[Block(c)] = BlockOf(c)
      BY <1>4 DEF BlockOf
    <2>2. c \in Places(disk)
      BY <1>1, <2>1, PlaceHasBlock
    <2>3. disk.cl[BlockOf(c)].kind = "block"
      BY <1>1, <1>4, <2>1 DEF BlocksIn
    <2>4. disk.cl[BlockOf(c)].v \in BlockTables
      BY <1>1, <1>3, <2>3, ContentTypes
    <2> QED
      BY <2>1, <2>2, <2>3, <2>4
  <1>5. ASSUME ~Pending, c \in Places(disk) PROVE BlockOf(c) = disk.rft[Block(c)]
    <2>1. Block(c) \in DOMAIN disk.rft
      BY <1>1, <1>5, PlaceHasBlock
    <2> QED
      BY <1>1, <1>5, <2>1 DEF BlockOf
  <1>6. ASSUME ~Pending, BlockOf(c) = 0, c \in Places(disk) PROVE Count(disk, c) = 0
    BY <1>5, <1>6 DEF Count
  <1>7. ASSUME ~Pending, BlockOf(c) # 0
        PROVE  disk.cl[BlockOf(c)].v[InBlock(c)] = Count(disk, c)
    BY <1>4, <1>5, <1>7 DEF Count
  <1> QED
    BY <1>3, <1>4, <1>5, <1>6, <1>7

\* The new block is the one that the table in memory has for both clusters.
LEMMA PendingFacts ==
    ASSUME IInv, Pending
    PROVE  /\ use # "old" /\ Len(chain) = 2 /\ Last(chain) = chain[2]
           /\ BlockOf(chain[2]) = chain[2] /\ BlockOf(chain[1]) = chain[2]
           /\ rft = [disk.rft EXCEPT ![Block(chain[2])] = chain[2]]
           /\ disk.cl[chain[2]].kind = "block"
  <1>1. use # "old" /\ Len(chain) = 2
    BY DEF Pending, IInv, CallInv
  <1>2. /\ chain[2] \in Places(disk) /\ Block(chain[1]) = Block(chain[2]) /\ Last(chain) = chain[2]
        /\ Block(chain[2]) \in DOMAIN disk.rft /\ chain[2] # 0
    BY <1>1, NewBlockFacts
  <1>3. rft = [disk.rft EXCEPT ![Block(chain[2])] = chain[2]]
    BY <1>2 DEF IInv, MemoryInv
  <1>4. BlockOf(chain[2]) = chain[2] /\ BlockOf(chain[1]) = chain[2]
    BY <1>2, <1>3 DEF BlockOf
  <1>5. disk.cl[chain[2]].kind = "block"
    <2>1. chain[2] \in Nat
      BY <1>2, MemoryTypes
    <2> QED
      BY <1>2, <1>4, <2>1, BlockFacts
  <1> QED
    BY <1>1, <1>2, <1>3, <1>4, <1>5

LEMMA OneElement ==
    ASSUME NEW s \in Seq(Nat), Len(s) = 1
    PROVE  s # <<>> /\ s[1] \in Nat /\ Last(s) = s[1] /\ s = <<s[1]>>
  <1>1. s # <<>> /\ s[1] \in Nat
    OBVIOUS
  <1>2. Last(s) = s[1]
    BY DEF Last
  <1> QED
    BY <1>1, <1>2

\* The old table is counted more often than what is left refers to it.
LEMMA OldFacts ==
    ASSUME IInv, use = "old", pc # "l1"
    PROVE  /\ Len(chain) = 1 /\ Last(chain) = chain[1] /\ chain # <<>> /\ chain[1] \in Places(disk)
           /\ Count(disk, chain[1]) \in 1 .. CountMod - 1
           /\ Referred(disk, chain[1]) + 1 <= Count(disk, chain[1])
           /\ BlockOf(chain[1]) # 0 /\ pc \in {"count", "add"} /\ ~Pending
  <1>1. Len(chain) = 1 /\ pc \in {"count", "add"} /\ ~Pending /\ chain \in Seq(Nat) /\ Image(disk)
    <2>1. CallInv /\ Image(disk)
      BY DEF IInv
    <2>2. Len(chain) = 1 /\ pc \in {"count", "add"}
      BY <2>1 DEF CallInv
    <2>3. ~Pending
      BY <2>2 DEF Pending
    <2>4. chain \in Seq(Nat)
      BY <2>1 DEF CallInv
    <2> QED
      BY <2>1, <2>2, <2>3, <2>4
  <1>2. Last(chain) = chain[1] /\ chain # <<>> /\ chain[1] \in Nat
    BY <1>1, OneElement, Zenon
  <1>3. chain[1] \in Fixed /\ Referred(disk, chain[1]) + 1 <= Count(disk, chain[1])
    BY DEF IInv, OldInv
  <1>4. chain[1] \in Places(disk)
    BY <1>3, MemoryTypes
  <1>5. Count(disk, chain[1]) \in 0 .. CountMod - 1 /\ Referred(disk, chain[1]) \in Nat
    BY <1>1, <1>4, CountType, ReferredParts
  <1>6. Count(disk, chain[1]) \in 1 .. CountMod - 1
    BY <1>3, <1>5, Constants
  <1>7. BlockOf(chain[1]) # 0
    <2>1. Count(disk, chain[1]) # 0
      BY <1>6
    <2> QED
      BY <1>1, <1>2, <1>4, <2>1, BlockFacts
  <1> QED
    BY <1>1, <1>2, <1>3, <1>4, <1>6, <1>7

-----------------------------------------------------------------------------
(***************************************************************************)
(* Steps that write nothing                                                *)
(***************************************************************************)

\* A block looked for is cached then, as the image has it.
LEMMA BlockRead ==
    ASSUME IInv, NEW c \in Nat, BlockOf(c) # 0
    PROVE  LET r == ReadThrough(rbs, BlockOf(c))
           IN /\ BlocksCached(disk, rft, r) /\ cached(r, BlockOf(c)) # {}
              /\ Last(r).table = disk.cl[BlockOf(c)].v
  <1> DEFINE b == BlockOf(c)
             r == ReadThrough(rbs, b)
             x == [offset |-> b, table |-> disk.cl[b].v]
             S == [offset : Places(disk) \ {0}, table : BlockTables]
  <1>1. BlocksCached(disk, rft, rbs)
    BY DEF IInv, MemoryInv
  <1>2. b \in Places(disk) \ {0} /\ Block(c) \in DOMAIN rft /\ rft[Block(c)] = b
        /\ disk.cl[b].v \in BlockTables
    BY BlockFacts
  <1>3. x \in S
    BY <1>2
  <1>4. rbs \in Seq(S) /\ Len(rbs) <= MaxCacheNodes /\ Once(rbs) /\ DOMAIN rbs = 1 .. Len(rbs)
    BY <1>1 DEF BlocksCached
  <1> HIDE DEF S
  <1>5. /\ r \in Seq(S) /\ Len(r) \in 1 .. MaxCacheNodes /\ Last(r) = r[Len(r)]
        /\ Last(r).offset = b /\ cached(r, b) # {}
        /\ \A j \in 1 .. Len(r) : (r[j] = x /\ cached(rbs, b) = {}) \/ \E k \in 1 .. Len(rbs) : r[j] = rbs[k]
        /\ Once(rbs) => Once(r)
    <2> HIDE DEF b, r
    <2> QED
      BY <1>3, <1>4, ReadThroughKeeps, Zenon DEF r
  <1> HIDE DEF r, x
  <1>6. ASSUME NEW j \in 1 .. Len(r)
        PROVE  r[j].table = disk.cl[r[j].offset].v /\ \E k \in DOMAIN rft : rft[k] = r[j].offset
    <2>1. CASE r[j] = x
      <3>1. r[j].offset = b /\ r[j].table = disk.cl[b].v
        BY <2>1 DEF x
      <3> HIDE DEF b
      <3> QED
        BY <1>2, <3>1
    <2>2. ASSUME NEW k \in 1 .. Len(rbs), r[j] = rbs[k]
          PROVE  r[j].table = disk.cl[r[j].offset].v /\ \E m \in DOMAIN rft : rft[m] = r[j].offset
      BY <1>1, <1>4, <2>2 DEF BlocksCached
    <2> QED
      BY <1>5, <2>1, <2>2
  <1>7. DOMAIN r = 1 .. Len(r) /\ Len(r) \in 1 .. Len(r) /\ Len(r) <= MaxCacheNodes
    BY <1>5, Constants
  <1>8. Last(r).table = disk.cl[b].v
    BY <1>5, <1>6, <1>7
  <1>9. BlocksCached(disk, rft, r)
    BY <1>4, <1>5, <1>6, <1>7, Zenon DEF BlocksCached, S
  <1> QED
    BY <1>5, <1>8, <1>9 DEF r

\* So is a table of the level 1 table or of a snapshot.
LEMMA TableRead ==
    ASSUME IInv, NEW t \in Places(disk) \ {0}, disk.cl[t].kind = "table",
           t \in Fixed \/ \E k \in DOMAIN disk.l1 : disk.l1[k].at = t
    PROVE  LET r == ReadThrough(l2s, t)
           IN /\ TablesCached(disk, r) /\ r # <<>> /\ Last(r) = r[Len(r)] /\ Len(r) \in 1 .. MaxCacheNodes
              /\ Last(r).offset = t /\ Last(r).table = disk.cl[t].v
  <1> DEFINE r == ReadThrough(l2s, t)
             x == [offset |-> t, table |-> disk.cl[t].v]
             S == [offset : Places(disk) \ {0}, table : L2Tables]
  <1>1. TablesCached(disk, l2s) /\ Image(disk)
    BY DEF IInv, MemoryInv
  <1>2. x \in S
    <2>1. disk.cl[t].v \in L2Tables
      BY <1>1, ContentTypes
    <2> QED
      BY <2>1
  <1>3. l2s \in Seq(S) /\ Len(l2s) <= MaxCacheNodes /\ DOMAIN l2s = 1 .. Len(l2s)
    BY <1>1 DEF TablesCached
  <1> HIDE DEF S
  <1>4. /\ r \in Seq(S) /\ Len(r) \in 1 .. MaxCacheNodes /\ Last(r) = r[Len(r)]
        /\ Last(r).offset = t /\ cached(r, t) # {}
        /\ \A j \in 1 .. Len(r) : (r[j] = x /\ cached(l2s, t) = {}) \/ \E k \in 1 .. Len(l2s) : r[j] = l2s[k]
        /\ Once(l2s) => Once(r)
    <2> HIDE DEF r
    <2> QED
      BY <1>2, <1>3, ReadThroughKeeps, Zenon DEF r
  <1> HIDE DEF r, x
  <1>5. ASSUME NEW j \in 1 .. Len(r)
        PROVE  /\ disk.cl[r[j].offset].kind = "table" /\ r[j].table = disk.cl[r[j].offset].v
               /\ r[j].offset \in Fixed \/ \E k \in DOMAIN disk.l1 : disk.l1[k].at = r[j].offset
    <2>1. CASE r[j] = x
      <3>1. r[j].offset = t /\ r[j].table = disk.cl[t].v
        BY <2>1 DEF x
      <3> QED
        BY <3>1
    <2>2. ASSUME NEW k \in 1 .. Len(l2s), r[j] = l2s[k]
          PROVE  /\ disk.cl[r[j].offset].kind = "table" /\ r[j].table = disk.cl[r[j].offset].v
                 /\ r[j].offset \in Fixed \/ \E m \in DOMAIN disk.l1 : disk.l1[m].at = r[j].offset
      BY <1>1, <1>3, <2>2 DEF TablesCached
    <2> QED
      BY <1>4, <2>1, <2>2
  <1>6. DOMAIN r = 1 .. Len(r) /\ Len(r) \in 1 .. Len(r) /\ Len(r) <= MaxCacheNodes /\ r # <<>>
    BY <1>4, Constants
  <1>7. Last(r).table = disk.cl[t].v
    BY <1>4, <1>5, <1>6
  <1>8. TablesCached(disk, r)
    BY <1>4, <1>5, <1>6, Zenon DEF TablesCached, S
  <1> QED
    BY <1>4, <1>6, <1>7, <1>8 DEF r

\* What can be read is a place in the image.
LEMMA PlaceRead ==
    ASSUME IInv, NEW t, CanRead(l2s, t)
    PROVE  t \in Places(disk)
  <1>1. CASE cached(l2s, t) # {}
    <2>1. PICK i \in DOMAIN l2s : l2s[i].offset = t
      BY <1>1 DEF cached
    <2> DEFINE S == [offset : Places(disk) \ {0}, table : L2Tables]
    <2>2. l2s \in Seq(S)
      BY DEF IInv, MemoryInv, TablesCached
    <2> HIDE DEF S
    <2>3. l2s[i] \in S
      BY <2>1, <2>2
    <2> QED
      BY <2>1, <2>3 DEF S
  <1>2. CASE t \in Places(disk)
    BY <1>2
  <1> QED
    BY <1>1, <1>2 DEF CanRead

\* While nothing is counted, there is nothing to say of counts.
LEMMA Quiet ==
    ASSUME chain' = <<>>, use' # "old", pc' # "add"
    PROVE  NewInv' /\ AddInv' /\ OldInv' /\ ~Pending'
  <1>1. ~Pending'
    BY DEF Pending
  <1> QED
    BY <1>1 DEF NewInv, AddInv, OldInv

\* The image and the tables in memory stay, whatever is read into the caches.
LEMMA MemoryKept ==
    ASSUME IInv, ~Pending, ~Pending', pc # "l1", pc' # "l1", disk' = disk, rft' = rft, l1' = l1,
           BlocksCached(disk, rft, rbs'), TablesCached(disk, l2s')
    PROVE  MemoryInv' /\ Image(disk)' /\ Covered(disk)'
  <1>1. rft = disk.rft /\ l1 = disk.l1
    BY MemoryTypes
  <1>2. Image(disk') /\ Covered(disk')
    BY DEF IInv
  <1>3. BlocksIn(rft', disk'.cl)
    BY DEF IInv, MemoryInv
  <1>4. BlocksCached(disk', rft', rbs') /\ TablesCached(disk', l2s')
    BY Zenon
  <1>5. rft' = disk'.rft /\ l1' = disk'.l1
    BY <1>1
  <1>6. MemoryInv'
    BY <1>3, <1>4, <1>5 DEF MemoryInv
  <1> QED
    BY <1>2, <1>6

\* A cluster that the search may stand at.
AtPart(c) == c \in Nat /\ (BlockOf(c) = 0 /\ Block(c) \in DOMAIN rft => c % 2 = 0)

LEMMA SearchBegins ==
    ASSUME IInv, chain = <<>> \/ use = "old" \/ BlockOf(chain[1]) # 0
    PROVE  AtPart(free)
  BY DEF IInv, SearchInv, AtPart

LEMMA SearchNext ==
    ASSUME IInv, BlockOf(free) # 0
    PROVE  AtPart(free + 1)
  <1>1. free \in Nat /\ free + 1 \in Nat
    BY MemoryTypes
  <1>2. Block(free + 1) = Block(free) \/ (free + 1) % 2 = 0
    BY <1>1, NextCluster
  <1>3. Block(free + 1) = Block(free) => BlockOf(free + 1) = BlockOf(free)
    BY DEF BlockOf
  <1> QED
    BY <1>1, <1>2, <1>3 DEF AtPart

LEMMA SearchKept ==
    ASSUME AtPart(free'), rft' = rft
    PROVE  SearchInv'
  BY DEF AtPart, SearchInv, BlockOf

\* A call that fails leaves the table as it is, and counts nothing more.
LEMMA CallFailed ==
    ASSUME IInv, (pc \in {"search", "count"} /\ Len(chain) <= 1) \/ pc = "grow",
           Failed, l1' = l1, l2s' = l2s, writes' = writes
    PROVE  /\ rft' = rft /\ chain' = <<>> /\ use' # "old" /\ pc' # "add" /\ pc' # "l1"
           /\ CallInv' /\ BoundsInv'
  <1>1. CallInv /\ BoundsInv
    BY DEF IInv
  <1>2. rft' = rft
    <2>1. rft' = [i \in DOMAIN rft |->
                     IF \E k \in 2 .. Len(chain) : rft[i] = chain[k] THEN 0 ELSE rft[i]]
      BY DEF Failed
    <2>2. ~Pending /\ chain \in Seq(Nat) /\ rft = disk.rft
      <3>1. ~Pending
        <4>1. pc = "count" => Len(chain) # 2
          OBVIOUS
        <4> QED
          BY <4>1 DEF Pending
      <3> QED
        BY <3>1, MemoryTypes
    <2>3. ASSUME NEW i \in DOMAIN rft, NEW k \in 2 .. Len(chain), rft[i] = chain[k]
          PROVE  FALSE
      <3>1. Len(chain) \in Nat
        BY <2>2
      <3>2. pc = "grow" /\ Len(chain) = 2 /\ use # "old"
        BY <1>1, <2>3, <3>1 DEF CallInv
      <3>3. k = 2
        BY <2>3, <3>2
      <3>4. chain[2] \in Places(disk) /\ Count(disk, chain[2]) = 0
        BY <3>2, NewBlockFacts
      <3>5. Image(disk) /\ Covered(disk)
        BY DEF IInv
      <3> QED
        BY <2>2, <2>3, <3>3, <3>4, <3>5, NotCounted
    <2>4. rft' = [i \in DOMAIN rft |-> rft[i]]
      BY <2>1, <2>3
    <2>5. rft = [i \in DOMAIN rft |-> rft[i]]
      <3>1. rft \in Seq(Places(disk))
        BY <2>2 DEF IInv, Image
      <3> QED
        BY <3>1
    <2> QED
      BY <2>4, <2>5
  <1>3. CASE use = "old" /\ OldFreed
    <2>1. pc' = "data" /\ chain' = <<>> /\ use' = "none" /\ req' = req /\ ret' = ret
      BY <1>3 DEF OldFreed
    <2>2. l2s' # <<>> /\ req # NoReq /\ req \in Requests
      BY <1>1, <1>3 DEF CallInv
    <2>3. CallInv' /\ BoundsInv'
      BY <1>1, <2>1, <2>2 DEF CallInv, BoundsInv
    <2> QED
      BY <1>2, <2>1, <2>3
  <1>4. CASE use # "old" /\ use = "table" /\ OldTable # 0 /\ pc' = "copy" /\ chain' = <<>>
             /\ UNCHANGED <<use, req, ret>>
    <2>1. OldTable' # 0 /\ L1Index' = L1Index
      BY <1>4 DEF OldTable, L1Index
    <2>2. /\ req # NoReq /\ req \in Requests
          /\ L1Index \in DOMAIN l1 /\ ~l1[L1Index].copied
      BY <1>1, <1>4 DEF CallInv
    <2>3. CallInv' /\ BoundsInv'
      BY <1>1, <1>4, <2>1, <2>2 DEF CallInv, BoundsInv
    <2> QED
      BY <1>2, <1>4, <2>3
  <1>5. CASE Refused
    <2>1. pc' = "start" /\ chain' = <<>> /\ use' = "none" /\ req' = NoReq /\ ret' = Err
      BY <1>5 DEF Refused, NoCall
    <2>2. CallInv' /\ BoundsInv'
      BY <1>1, <2>1 DEF CallInv, BoundsInv, NoReq, Requests
    <2> QED
      BY <1>2, <2>1, <2>2
  <1> QED
    BY <1>2, <1>3, <1>4, <1>5 DEF Failed, NotAllocated

\* The image opened anew.
LEMMA OpenedAnew ==
    ASSUME Image(disk'), Covered(disk'), rft' = disk'.rft, l1' = disk'.l1, rbs' = <<>>, l2s' = <<>>,
           free' = 0, pc' = "start", chain' = <<>>, use' = "none", req' = NoReq, BoundsInv'
    PROVE  IInv'
  <1>1. NewInv' /\ AddInv' /\ OldInv' /\ ~Pending'
    BY Quiet
  <1>2. BlocksIn(rft', disk'.cl)
    <2>1. BlocksIn(disk'.rft, disk'.cl)
      <3>1. \A d : Image(d) => BlocksIn(d.rft, d.cl)
        BY BlockThere, BlockOnce DEF BlocksIn
      <3> QED
        BY <3>1
    <2> QED
      BY <2>1
  <1>3. BlocksCached(disk', rft', rbs')
    <2>1. DOMAIN rbs' = {} /\ Len(rbs') <= MaxCacheNodes
          /\ rbs' \in Seq([offset : Places(disk') \ {0}, table : BlockTables])
      BY Constants
    <2> QED
      BY <2>1, Zenon DEF BlocksCached, Once
  <1>4. TablesCached(disk', l2s')
    <2>1. DOMAIN l2s' = {} /\ Len(l2s') <= MaxCacheNodes
          /\ l2s' \in Seq([offset : Places(disk') \ {0}, table : L2Tables])
      BY Constants
    <2> QED
      BY <2>1, Zenon DEF TablesCached
  <1>5. MemoryInv'
    BY <1>1, <1>2, <1>3, <1>4 DEF MemoryInv
  <1>6. CallInv'
    BY DEF CallInv, NoReq, Requests
  <1>7. SearchInv'
    <2>1. free' \in Nat /\ free' % 2 = 0
      BY Constants
    <2> QED
      BY <2>1 DEF SearchInv
  <1> QED
    BY <1>1, <1>5, <1>6, <1>7 DEF IInv

LEMMA InitHolds == ASSUME Init PROVE IInv
  <1>1. Image(disk) /\ Covered(disk)
    BY QcowWriteAssumption DEF Init
  <1>2. NewInv /\ AddInv /\ OldInv /\ ~Pending
    BY DEF Init, NewInv, AddInv, OldInv, Pending
  <1>3. BlocksIn(rft, disk.cl)
    BY <1>1, BlockThere, BlockOnce DEF Init, BlocksIn
  <1>4. rbs = <<>> /\ l2s = <<>> /\ rft = disk.rft /\ l1 = disk.l1
    BY DEF Init
  <1>5. BlocksCached(disk, rft, rbs)
    <2>1. DOMAIN rbs = {} /\ Len(rbs) <= MaxCacheNodes
          /\ rbs \in Seq([offset : Places(disk) \ {0}, table : BlockTables])
      BY <1>4, Constants
    <2> QED
      BY <2>1, Zenon DEF BlocksCached, Once
  <1>6. TablesCached(disk, l2s)
    <2>1. DOMAIN l2s = {} /\ Len(l2s) <= MaxCacheNodes
          /\ l2s \in Seq([offset : Places(disk) \ {0}, table : L2Tables])
      BY <1>4, Constants
    <2> QED
      BY <2>1, Zenon DEF TablesCached
  <1>7. MemoryInv
    BY <1>2, <1>3, <1>4, <1>5, <1>6 DEF MemoryInv, Init
  <1>8. CallInv
    BY DEF Init, CallInv, NoReq, Requests
  <1>9. SearchInv
    <2>1. free \in Nat /\ free % 2 = 0
      BY Constants DEF Init
    <2> QED
      BY <2>1 DEF SearchInv
  <1>10. BoundsInv
    BY Constants DEF Init, BoundsInv
  <1> QED
    BY <1>1, <1>2, <1>7, <1>8, <1>9, <1>10 DEF IInv

LEMMA CloseKeeps == ASSUME IInv, qcow_disk_close \/ crash PROVE IInv'
  <1>1. Image(disk) /\ Covered(disk) /\ BoundsInv /\ CallInv
    BY DEF IInv
  <1>2. /\ disk' = disk /\ rft' = disk.rft /\ l1' = disk.l1 /\ rbs' = <<>> /\ l2s' = <<>> /\ free' = 0
        /\ ret' = ret /\ writes' = writes
    BY DEF qcow_disk_close, crash, Opened, call
  <1>3. pc' = "start" /\ chain' = <<>> /\ use' = "none" /\ req' = NoReq
    <2>1. CASE crash
      BY <2>1 DEF crash, NoCall
    <2>2. CASE qcow_disk_close
      <3>1. req = NoReq /\ pc' = pc /\ chain' = chain /\ use' = use /\ req' = req
        BY <2>2 DEF qcow_disk_close, call
      <3>2. pc = "start"
        BY <2>2 DEF qcow_disk_close
      <3>3. chain = <<>> /\ use = "none"
        BY <1>1, <3>2 DEF CallInv
      <3> QED
        BY <3>1, <3>2, <3>3
    <2> QED
      BY <2>1, <2>2
  <1>4. BoundsInv'
    BY <1>1, <1>2 DEF BoundsInv
  <1> QED
    BY <1>1, <1>2, <1>3, <1>4, OpenedAnew

\* Nothing that IInv is about changes.
LEMMA Stutter == ASSUME IInv, UNCHANGED vars PROVE IInv'
  <1>1. /\ disk' = disk /\ rft' = rft /\ l1' = l1 /\ rbs' = rbs /\ l2s' = l2s /\ free' = free
        /\ pc' = pc /\ chain' = chain /\ use' = use /\ req' = req /\ ret' = ret /\ writes' = writes
    BY DEF vars, tables, call
  <1>2. Pending' = Pending
    BY <1>1 DEF Pending
  <1>3. L1Index' = L1Index
    BY <1>1 DEF L1Index
  <1>4. MemoryInv'
    <2>1. MemoryInv
      BY DEF IInv
    <2> QED
      BY <1>1, <1>2, <1>3, <2>1, Zenon DEF MemoryInv
  <1>5. CallInv'
    BY <1>1, <1>3 DEF IInv, CallInv, OldTable
  <1>6. SearchInv' /\ NewInv'
    BY <1>1 DEF IInv, SearchInv, NewInv, BlockOf
  <1>7. AddInv'
    BY <1>1, <1>2 DEF IInv, AddInv, BlockOf
  <1>8. OldInv' /\ BoundsInv'
    BY <1>1, <1>3 DEF IInv, OldInv, BoundsInv
  <1>9. Image(disk') /\ Covered(disk')
    BY <1>1 DEF IInv
  <1> QED
    BY <1>4, <1>5, <1>6, <1>7, <1>8, <1>9 DEF IInv

\* What is flushed is what the image has.
LEMMA FlushWritesTheSame ==
    ASSUME IInv, NEW dirty \in SUBSET DOMAIN rbs, qcow_disk_flush(dirty)
    PROVE  disk' = disk
  <1> DEFINE cl == [c \in DOMAIN disk.cl |->
                       IF \E i \in dirty : rbs[i].offset = c
                       THEN Content("block", rbs[CHOOSE i \in dirty : rbs[i].offset = c].table)
                       ELSE disk.cl[c]]
  <1>1. disk' = [disk EXCEPT !.cl = cl]
    BY DEF qcow_disk_flush
  <1>2. Image(disk) /\ BlocksCached(disk, rft, rbs) /\ BlocksIn(rft, disk.cl)
    BY DEF IInv, MemoryInv
  <1>3. disk = [rft |-> disk.rft, l1 |-> disk.l1, cl |-> disk.cl]
    BY <1>2 DEF Image
  <1>4. ASSUME NEW c \in DOMAIN disk.cl, NEW i \in dirty, rbs[i].offset = c
        PROVE  Content("block", rbs[i].table) = disk.cl[c]
    <2>1. i \in DOMAIN rbs
      OBVIOUS
    <2>2. rbs[i].table = disk.cl[c].v /\ \E k \in DOMAIN rft : rft[k] = c
      BY <1>2, <1>4, <2>1 DEF BlocksCached
    <2>3. c \in Places(disk) /\ c # 0
      <3> DEFINE S == [offset : Places(disk) \ {0}, table : BlockTables]
      <3>1. rbs \in Seq(S)
        BY <1>2 DEF BlocksCached
      <3> HIDE DEF S
      <3>2. rbs[i] \in S
        BY <2>1, <3>1
      <3> QED
        BY <1>4, <3>2 DEF S
    <2>4. disk.cl[c].kind = "block"
      BY <1>2, <2>2, <2>3 DEF BlocksIn
    <2>5. disk.cl[c] = Content(disk.cl[c].kind, disk.cl[c].v)
      BY <1>2, <2>3, ContentTypes
    <2> QED
      BY <2>2, <2>4, <2>5
  <1>5. ASSUME NEW c \in DOMAIN disk.cl PROVE cl[c] = disk.cl[c]
    <2>1. CASE \E i \in dirty : rbs[i].offset = c
      <3> DEFINE i == CHOOSE i \in dirty : rbs[i].offset = c
      <3>1. i \in dirty /\ rbs[i].offset = c
        BY <2>1
      <3>2. cl[c] = Content("block", rbs[i].table)
        BY <2>1
      <3> HIDE DEF i, cl
      <3> QED
        BY <1>4, <3>1, <3>2
    <2>2. CASE ~ \E i \in dirty : rbs[i].offset = c
      BY <2>2
    <2> QED
      BY <2>1, <2>2
  <1>6. DOMAIN cl = DOMAIN disk.cl /\ cl = [c \in DOMAIN disk.cl |-> cl[c]]
    OBVIOUS
  <1> HIDE DEF cl
  <1>7. cl = [c \in DOMAIN disk.cl |-> disk.cl[c]]
    BY <1>5, <1>6
  <1>8. disk.cl = [c \in DOMAIN disk.cl |-> disk.cl[c]]
    <2>1. disk.cl = [c \in Places(disk) |-> disk.cl[c]] /\ DOMAIN disk.cl = Places(disk)
      BY <1>2, ImageTypes DEF Image
    <2> QED
      BY <2>1
  <1>9. cl = disk.cl
    BY <1>7, <1>8
  <1> QED
    BY <1>1, <1>3, <1>9

\* A step of a call that has not got to counting: the image and the tables stay.
LEMMA QuietStep ==
    ASSUME IInv, disk' = disk, rft' = rft, l1' = l1, chain' = <<>>, use' # "old", pc' # "add",
           ~Pending, pc # "l1", pc' # "l1",
           BlocksCached(disk, rft, rbs'), TablesCached(disk, l2s'), AtPart(free'), CallInv', BoundsInv'
    PROVE  IInv'
  <1>1. NewInv' /\ AddInv' /\ OldInv' /\ ~Pending'
    BY Quiet
  <1>2. MemoryInv' /\ Image(disk)' /\ Covered(disk)'
    BY <1>1, MemoryKept
  <1>3. SearchInv'
    BY SearchKept
  <1> QED
    BY <1>1, <1>2, <1>3 DEF IInv

\* Before a search, nothing is counted.
LEMMA Beginning ==
    ASSUME IInv, pc \in {"start", "data", "copy"}
    PROVE  /\ chain = <<>> /\ ~Pending /\ l1 = disk.l1 /\ rft = disk.rft /\ use # "old"
           /\ BlocksCached(disk, rft, rbs) /\ TablesCached(disk, l2s) /\ AtPart(free)
           /\ CallInv /\ BoundsInv
  <1>1. CallInv /\ BoundsInv /\ MemoryInv
    BY DEF IInv
  <1>2. chain = <<>> /\ use # "old"
    BY <1>1 DEF CallInv
  <1>3. ~Pending
    BY DEF Pending
  <1>4. l1 = disk.l1 /\ rft = disk.rft
    BY <1>3, MemoryTypes
  <1> QED
    BY <1>1, <1>2, <1>3, <1>4, SearchBegins DEF MemoryInv

\* A flush leaves a call that has not begun, or hangs.
LEMMA FlushKeeps ==
    ASSUME IInv, NEW dirty \in SUBSET DOMAIN rbs, qcow_disk_flush(dirty)
    PROVE  IInv'
  <1>1. disk' = disk
    BY FlushWritesTheSame
  <1>2. /\ rft' = rft /\ l1' = l1 /\ rbs' = rbs /\ l2s' = l2s /\ free' = free
        /\ chain' = chain /\ use' = use /\ req' = req /\ ret' = ret /\ writes' = writes
        /\ pc = "start" /\ pc' \in {"start", "hung"} /\ req = NoReq
    BY DEF qcow_disk_flush, tables
  <1>3. /\ chain = <<>> /\ ~Pending /\ use # "old" /\ CallInv /\ BoundsInv /\ AtPart(free)
        /\ BlocksCached(disk, rft, rbs) /\ TablesCached(disk, l2s)
    BY <1>2, Beginning
  <1>4. CallInv'
    BY <1>2, <1>3 DEF CallInv
  <1>5. BoundsInv'
    BY <1>2, <1>3 DEF BoundsInv
  <1>6. AtPart(free')
    BY <1>2, <1>3
  <1> QED
    BY <1>1, <1>2, <1>3, <1>4, <1>5, <1>6, QuietStep

LEMMA SubmitKeeps ==
    ASSUME IInv, NEW from \in 0 .. Sectors + 1, NEW upto \in 0 .. Sectors + 1, from < upto,
           Submit(from, upto)
    PROVE  IInv'
  <1>1. req = NoReq /\ CallInv /\ BoundsInv
    BY DEF Submit, IInv
  <1>2. pc = "start" /\ use = "none" /\ chain = <<>>
    BY <1>1 DEF CallInv, Submit
  <1>3. /\ disk' = disk /\ rft' = rft /\ l1' = l1 /\ rbs' = rbs /\ l2s' = l2s /\ free' = free
        /\ pc' = pc /\ chain' = chain /\ use' = use /\ ret' = ret
        /\ writes < MaxWrites /\ writes' = writes + 1
        /\ req' = [from |-> from, upto |-> upto, value |-> writes + 1]
    BY DEF Submit, tables
  <1>4. req' \in Requests
    <2>1. from \in Nat /\ upto \in Nat /\ writes + 1 \in Nat
      BY <1>1, Constants DEF BoundsInv
    <2> QED
      BY <1>3, <2>1 DEF Requests
  <1>5. CallInv'
    BY <1>2, <1>3, <1>4 DEF CallInv
  <1>6. BoundsInv'
    BY <1>1, <1>3, Constants DEF BoundsInv
  <1>7. /\ ~Pending /\ BlocksCached(disk, rft, rbs) /\ TablesCached(disk, l2s) /\ AtPart(free)
    BY <1>2, Beginning
  <1> QED
    BY <1>2, <1>3, <1>5, <1>6, <1>7, QuietStep

\* A request stands at a cluster that has an entry in the tables.
LEMMA IndexTypes ==
    ASSUME IInv
    PROVE  L1Index \in Nat \ {0} /\ L2Index \in 1 .. L2Entries
  <1>1. req.from \in Nat /\ L2Entries \in Nat \ {0} /\ ClusterSize \in Nat \ {0}
    BY MemoryTypes, Constants
  <1>2. L2Entries * ClusterSize \in Nat \ {0}
    <2>1. \A a, b \in Nat \ {0} : a * b \in Nat \ {0}
      OBVIOUS
    <2> QED
      BY <1>1, <2>1
  <1>3. req.from \div (L2Entries * ClusterSize) \in Nat
    <2> DEFINE m == L2Entries * ClusterSize
               a == req.from
    <2>1. m \in Nat \ {0} /\ a \in Nat
      BY <1>1, <1>2
    <2> HIDE DEF m, a
    <2>2. a \div m \in Nat
      BY <2>1, Division
    <2> QED
      BY <2>2 DEF m, a
  <1>4. req.from \div ClusterSize \in Nat
    BY <1>1, Division
  <1>5. ((req.from \div ClusterSize) % L2Entries) \in 0 .. L2Entries - 1
    <2> DEFINE a == req.from \div ClusterSize
    <2>1. a \in Nat
      BY <1>4
    <2> HIDE DEF a
    <2>2. (a % L2Entries) \in 0 .. L2Entries - 1
      BY <1>1, <2>1, Division
    <2> QED
      BY <2>2 DEF a
  <1>6. L1Index \in Nat \ {0}
    BY <1>3 DEF L1Index, get_l1_index
  <1>7. L2Index \in 1 .. L2Entries
    <2> DEFINE a == (req.from \div ClusterSize) % L2Entries
    <2>1. a \in 0 .. L2Entries - 1 /\ L2Index = a + 1
      BY <1>5 DEF L2Index, get_l2_index
    <2> HIDE DEF a
    <2> QED
      BY <1>1, <2>1
  <1> QED
    BY <1>6, <1>7

\* The call gives up.
LEMMA RefusedCall ==
    ASSUME IInv, Refused, writes' = writes
    PROVE  /\ chain' = <<>> /\ use' # "old" /\ pc' # "add" /\ pc' # "l1"
           /\ CallInv' /\ BoundsInv'
  <1>1. pc' = "start" /\ chain' = <<>> /\ use' = "none" /\ req' = NoReq /\ ret' = Err
    BY DEF Refused, NoCall
  <1>2. CallInv'
    BY <1>1 DEF CallInv, NoReq, Requests
  <1>3. BoundsInv'
    BY <1>1 DEF BoundsInv, IInv
  <1> QED
    BY <1>1, <1>2, <1>3

\* A table that the level 1 table has and that can be read is a table of the image.
LEMMA OldTableFacts ==
    ASSUME IInv, pc # "l1", L1Index \in DOMAIN l1, OldTable # 0, CanRead(l2s, OldTable)
    PROVE  /\ OldTable \in Places(disk) \ {0} /\ disk.cl[OldTable].kind = "table"
           /\ OldTable > 0 /\ disk.l1[L1Index].at = OldTable /\ L1Index \in DOMAIN disk.l1
           /\ ~l1[L1Index].copied => OldTable \in Fixed
  <1>1. l1 = disk.l1 /\ Image(disk) /\ Places(disk) \subseteq Nat
    BY MemoryTypes DEF IInv
  <1>2. OldTable \in Places(disk) \ {0}
    BY PlaceRead
  <1>3. OldTable > 0
    BY <1>1, <1>2
  <1>4. disk.l1[L1Index].at = OldTable /\ L1Index \in DOMAIN disk.l1
    BY <1>1 DEF OldTable
  <1>5. /\ disk.cl[OldTable].kind = "table"
        /\ ~disk.l1[L1Index].copied => OldTable \in {0} \cup Fixed
    BY <1>1, <1>3, <1>4, TableThere
  <1> QED
    BY <1>1, <1>2, <1>3, <1>4, <1>5

LEMMA GetTableKeeps == ASSUME IInv, get_cluster_table PROVE IInv'
  <1>1. pc = "start" /\ req # NoReq
    BY DEF get_cluster_table
  <1>2. /\ chain = <<>> /\ ~Pending /\ l1 = disk.l1 /\ rft = disk.rft /\ use # "old"
        /\ BlocksCached(disk, rft, rbs) /\ TablesCached(disk, l2s) /\ AtPart(free)
        /\ CallInv /\ BoundsInv
    BY <1>1, Beginning
  <1>3. /\ disk' = disk /\ rft' = rft /\ l1' = l1 /\ rbs' = rbs /\ free' = free /\ writes' = writes
    BY DEF get_cluster_table
  <1>4. use = "none" /\ req \in Requests
    BY <1>1, <1>2 DEF CallInv
  <1>5. CASE Refused /\ UNCHANGED l2s
    <2>1. /\ chain' = <<>> /\ use' # "old" /\ pc' # "add" /\ pc' # "l1"
          /\ CallInv' /\ BoundsInv'
      BY <1>3, <1>5, RefusedCall
    <2> QED
      BY <1>1, <1>2, <1>3, <1>5, <2>1, QuietStep
  <1>6. L1Index \in Nat \ {0} /\ DOMAIN l1 = 1 .. Len(l1) /\ Len(l1) \in Nat
    BY IndexTypes, MemoryTypes
  <1>7. CASE /\ req.from < Sectors /\ L1Index <= Len(l1)
             /\ l1[L1Index].copied /\ CanRead(l2s, OldTable)
             /\ l2s' = ReadThrough(l2s, OldTable) /\ Goto("data")
    <2>1. L1Index \in DOMAIN l1
      BY <1>6, <1>7
    <2>2. OldTable # 0
      BY <1>2, <1>7, <2>1, TableThere DEF OldTable, IInv
    <2>3. /\ OldTable \in Places(disk) \ {0} /\ disk.cl[OldTable].kind = "table"
          /\ disk.l1[L1Index].at = OldTable /\ L1Index \in DOMAIN disk.l1
      BY <1>1, <1>7, <2>1, <2>2, OldTableFacts
    <2>4. TablesCached(disk, l2s') /\ l2s' # <<>>
      BY <1>7, <2>3, TableRead
    <2>5. pc' = "data" /\ chain' = <<>> /\ use' = "none" /\ req' = req /\ ret' = ret
      BY <1>2, <1>4, <1>7 DEF Goto
    <2>6. CallInv'
      BY <1>1, <1>4, <2>4, <2>5 DEF CallInv
    <2>7. BoundsInv'
      BY <1>2, <1>3, <2>5 DEF BoundsInv
    <2> QED
      BY <1>1, <1>2, <1>3, <2>4, <2>5, <2>6, <2>7, QuietStep
  <1>8. CASE /\ req.from < Sectors /\ L1Index <= Len(l1) /\ ~l1[L1Index].copied
             /\ pc' = "search" /\ use' = "table" /\ UNCHANGED <<l2s, chain, req, ret>>
    <2>1. L1Index \in DOMAIN l1 /\ L1Index' = L1Index
      BY <1>6, <1>8 DEF L1Index
    <2>2. Len(chain') <= 1 /\ chain' \in Seq(Nat) /\ chain' = <<>>
      BY <1>2, <1>8
    <2>3. CallInv'
      BY <1>1, <1>3, <1>4, <1>8, <2>1, <2>2 DEF CallInv
    <2>4. BoundsInv'
      BY <1>2, <1>3, <1>8 DEF BoundsInv
    <2>5. TablesCached(disk, l2s')
      BY <1>2, <1>8
    <2> QED
      BY <1>1, <1>2, <1>3, <1>8, <2>2, <2>3, <2>4, <2>5, QuietStep
  <1> QED
    BY <1>5, <1>7, <1>8 DEF get_cluster_table

\* No cluster for the copy of a table: the call goes on to count the old one less.
LEMMA CopyKeeps ==
    ASSUME IInv, qcow_l2_cache_write
    PROVE  IInv' /\ disk' = disk
  <1>1. pc = "copy"
    BY DEF qcow_l2_cache_write
  <1>2. /\ chain = <<>> /\ ~Pending /\ l1 = disk.l1 /\ rft = disk.rft /\ use # "old"
        /\ BlocksCached(disk, rft, rbs) /\ TablesCached(disk, l2s) /\ AtPart(free)
        /\ CallInv /\ BoundsInv
    BY <1>1, Beginning
  <1>3. rft' = rft /\ rbs' = rbs /\ free' = free /\ writes' = writes
    BY DEF qcow_l2_cache_write
  <1>4. use = "table" /\ OldTable # 0 /\ req \in Requests /\ req # NoReq
    BY <1>1, <1>2 DEF CallInv
  <1>5. L1Index \in DOMAIN l1 /\ ~l1[L1Index].copied
    BY <1>2, <1>4 DEF CallInv
  <1>6. CASE Refused /\ UNCHANGED <<disk, l1, l2s>>
    <2>1. /\ chain' = <<>> /\ use' # "old" /\ pc' # "add" /\ pc' # "l1"
          /\ CallInv' /\ BoundsInv'
      BY <1>3, <1>6, RefusedCall
    <2> QED
      BY <1>1, <1>2, <1>3, <1>6, <2>1, QuietStep
  <1> DEFINE r == ReadThrough(l2s, OldTable)
  <1>7. CASE /\ CanRead(l2s, OldTable)
             /\ pwrite(OldTable, Content("table", Last(r).table))
             /\ l2s' = cache_table(r, Last(r))
             /\ l1' = [l1 EXCEPT ![L1Index] = Entry(Nowhere, TRUE)]
             /\ pc' = "l1" /\ chain' = <<OldTable>> /\ use' = "old"
             /\ UNCHANGED <<req, ret>>
    <2>1. /\ OldTable \in Places(disk) \ {0} /\ disk.cl[OldTable].kind = "table"
          /\ OldTable > 0 /\ disk.l1[L1Index].at = OldTable /\ L1Index \in DOMAIN disk.l1
          /\ OldTable \in Fixed
      BY <1>1, <1>4, <1>5, <1>7, OldTableFacts
    <2>2. /\ TablesCached(disk, r) /\ r # <<>> /\ Last(r) = r[Len(r)] /\ Len(r) \in 1 .. MaxCacheNodes
          /\ Last(r).offset = OldTable /\ Last(r).table = disk.cl[OldTable].v
      BY <2>1, TableRead
    <2>3. disk' = disk
      <3>1. Image(disk) /\ disk.cl[OldTable] = Content(disk.cl[OldTable].kind, disk.cl[OldTable].v)
        BY <2>1, ContentTypes DEF IInv
      <3>2. Content("table", Last(r).table) = disk.cl[OldTable]
        BY <2>1, <2>2, <3>1
      <3>3. disk' = [disk EXCEPT !.cl[OldTable] = disk.cl[OldTable]]
        <4> HIDE DEF r
        <4> QED
          BY <1>7, <3>2 DEF pwrite
      <3>4. /\ disk = [rft |-> disk.rft, l1 |-> disk.l1, cl |-> disk.cl]
            /\ disk.cl = [c \in Places(disk) |-> disk.cl[c]]
        BY <3>1 DEF Image
      <3>5. [disk.cl EXCEPT ![OldTable] = disk.cl[OldTable]] = disk.cl
        BY <3>4
      <3>6. disk' = [rft |-> disk.rft, l1 |-> disk.l1, cl |-> [disk.cl EXCEPT ![OldTable] = disk.cl[OldTable]]]
        BY <3>3, <3>4
      <3> QED
        BY <3>4, <3>5, <3>6
    <2> HIDE DEF r
    <2>4. TablesCached(disk, l2s') /\ l2s' # <<>>
      <3> DEFINE S == [offset : Places(disk) \ {0}, table : L2Tables]
                 x == Last(r)
                 e == cache_table(r, x)
      <3>1. r \in Seq(S) /\ Len(r) <= MaxCacheNodes /\ DOMAIN r = 1 .. Len(r)
        BY <2>2 DEF TablesCached
      <3>2. x \in S /\ Len(r) \in 1 .. Len(r)
        <4> HIDE DEF S
        <4>1. Len(r) \in 1 .. Len(r)
          BY <2>2, Constants
        <4> QED
          BY <2>2, <3>1, <4>1
      <3> HIDE DEF S, x
      <3>3. /\ e \in Seq(S) /\ Len(e) \in 1 .. MaxCacheNodes /\ e[Len(e)] = x
            /\ \A j \in 1 .. Len(e) : e[j] = x \/ \E k \in 1 .. Len(r) : e[j] = r[k]
            /\ Once(r) /\ cached(r, x.offset) = {} => Once(e)
        BY <3>1, <3>2, CachingKeeps, Zenon
      <3> HIDE DEF e
      <3>4. \A j \in 1 .. Len(e) : \E k \in 1 .. Len(r) : e[j] = r[k]
        BY <2>2, <3>2, <3>3 DEF x
      <3>5. \A k \in 1 .. Len(r) :
               /\ disk.cl[r[k].offset].kind = "table" /\ r[k].table = disk.cl[r[k].offset].v
               /\ r[k].offset \in Fixed \/ \E m \in DOMAIN disk.l1 : disk.l1[m].at = r[k].offset
        BY <2>2, <3>1 DEF TablesCached
      <3>6. DOMAIN e = 1 .. Len(e) /\ Len(e) <= MaxCacheNodes /\ e # <<>>
        BY <3>3, Constants
      <3>7. \A j \in DOMAIN e :
               /\ disk.cl[e[j].offset].kind = "table"
               /\ e[j].table = disk.cl[e[j].offset].v
               /\ e[j].offset \in Fixed \/ \E m \in DOMAIN disk.l1 : disk.l1[m].at = e[j].offset
        BY <3>4, <3>5, <3>6
      <3>8. TablesCached(disk, e)
        BY <3>3, <3>6, <3>7, Zenon DEF TablesCached, S
      <3> QED
        BY <1>7, <3>6, <3>8 DEF e, x
    <2>5. L1Index' = L1Index /\ req' = req
      BY <1>7 DEF L1Index
    <2>6. chain' \in Seq(Nat) /\ Len(chain') = 1 /\ chain'[1] = OldTable /\ ~Pending'
      <3>1. OldTable \in Nat
        BY <2>1, MemoryTypes
      <3>2. chain' = <<OldTable>>
        BY <1>7
      <3> HIDE DEF OldTable
      <3>3. chain' \in Seq(Nat) /\ Len(chain') = 1 /\ chain'[1] = OldTable
        BY <3>1, <3>2
      <3> QED
        BY <3>3 DEF Pending
    <2>7. MemoryInv'
      <3>1. rft' = disk'.rft /\ l1' = [disk'.l1 EXCEPT ![L1Index'] = Entry(Nowhere, TRUE)]
        BY <1>2, <1>3, <1>7, <2>3, <2>5
      <3>2. BlocksIn(rft', disk'.cl) /\ BlocksCached(disk', rft', rbs') /\ TablesCached(disk', l2s')
        BY <1>2, <1>3, <2>3, <2>4 DEF IInv, MemoryInv
      <3> QED
        BY <1>7, <2>6, <3>1, <3>2 DEF MemoryInv
    <2>8. CallInv'
      BY <1>4, <1>7, <2>4, <2>5, <2>6 DEF CallInv
    <2>9. SearchInv'
      BY <1>2, <1>3, SearchKept
    <2>10. NewInv' /\ AddInv'
      BY <1>7, <2>6 DEF NewInv, AddInv
    <2>11. OldInv'
      <3>1. DOMAIN l1' = DOMAIN l1
        BY <1>7
      <3> QED
        BY <1>2, <1>7, <2>1, <2>3, <2>5, <2>6, <3>1 DEF OldInv
    <2>12. BoundsInv'
      BY <1>2, <1>3, <1>7 DEF BoundsInv
    <2>13. Image(disk') /\ Covered(disk')
      BY <2>3 DEF IInv
    <2> QED
      BY <2>3, <2>7, <2>8, <2>9, <2>10, <2>11, <2>12, <2>13 DEF IInv
  <1> QED
    BY <1>6, <1>7, Zenon DEF qcow_l2_cache_write

\* A search begins with nothing to count, or goes on for the block of a part that has none.
LEMMA SearchFacts ==
    ASSUME IInv, pc = "search"
    PROVE  /\ use \in {"table", "data"} /\ use # "old" /\ ~Pending /\ Len(chain) <= 1
           /\ rft = disk.rft /\ l1 = disk.l1 /\ free \in Nat /\ chain \in Seq(Nat)
           /\ req # NoReq /\ req \in Requests
           /\ use = "table" => L1Index \in DOMAIN l1 /\ ~l1[L1Index].copied
           /\ BlocksCached(disk, rft, rbs) /\ TablesCached(disk, l2s) /\ BoundsInv
           /\ chain # <<>> =>
                 /\ Len(chain) = 1 /\ chain = <<chain[1]>> /\ chain[1] \in Nat
                 /\ BlockOf(chain[1]) = 0 /\ Block(chain[1]) \in DOMAIN rft
                 /\ chain[1] % 2 = 0 /\ free = chain[1] + 1 /\ BlockOf(free) = 0
                 /\ disk.rft[Block(chain[1])] = 0
                 /\ chain[1] \in Places(disk) => Count(disk, chain[1]) = 0
  <1>1. CallInv /\ BoundsInv /\ MemoryInv /\ NewInv
    BY DEF IInv
  <1>2. use \in {"table", "data"} /\ Len(chain) <= 1 /\ chain \in Seq(Nat)
    BY <1>1 DEF CallInv
  <1>3. ~Pending
    BY DEF Pending
  <1>4. rft = disk.rft /\ l1 = disk.l1 /\ free \in Nat /\ DOMAIN rft = DOMAIN disk.rft
    BY <1>3, MemoryTypes
  <1>5. ASSUME chain # <<>>
        PROVE  /\ Len(chain) = 1 /\ chain = <<chain[1]>> /\ chain[1] \in Nat
               /\ BlockOf(chain[1]) = 0 /\ Block(chain[1]) \in DOMAIN rft
               /\ chain[1] % 2 = 0 /\ free = chain[1] + 1 /\ BlockOf(free) = 0
               /\ disk.rft[Block(chain[1])] = 0
               /\ chain[1] \in Places(disk) => Count(disk, chain[1]) = 0
    <2>1. Len(chain) = 1
      <3>1. chain \in Seq(Nat) /\ chain # <<>>
        BY <1>2, <1>5
      <3>2. Len(chain) \in Nat /\ Len(chain) # 0
        BY <3>1, EmptySeq
      <3>3. Len(chain) <= 1
        BY <1>2
      <3> QED
        BY <3>2, <3>3
    <2>2. chain = <<chain[1]>> /\ chain[1] \in Nat
      <3>1. chain \in Seq(Nat)
        BY <1>2
      <3> QED
        BY <2>1, <3>1, OneElement
    <2>3. /\ BlockOf(chain[1]) = 0 /\ disk.rft[Block(chain[1])] = 0 /\ chain[1] % 2 = 0
          /\ Block(chain[1]) \in DOMAIN disk.rft
          /\ chain[1] \in Places(disk) => Count(disk, chain[1]) = 0
      <3>1. use # "old"
        BY <1>2
      <3> QED
        BY <1>1, <1>4, <1>5, <3>1 DEF NewInv
    <2>4. free = chain[1] + 1
      <3>1. use # "old"
        BY <1>2
      <3> QED
        BY <1>1, <1>5, <2>1, <2>3, <3>1 DEF NewInv
    <2>5. Block(chain[1] + 1) = Block(chain[1])
      BY <2>2, <2>3, NextCluster
    <2>6. BlockOf(free) = 0
      BY <2>3, <2>4, <2>5 DEF BlockOf
    <2> QED
      BY <1>4, <2>1, <2>2, <2>3, <2>4, <2>6
  <1>6. /\ req # NoReq /\ req \in Requests
        /\ use = "table" => L1Index \in DOMAIN l1 /\ ~l1[L1Index].copied
    BY <1>1 DEF CallInv
  <1>7. BlocksCached(disk, rft, rbs) /\ TablesCached(disk, l2s)
    BY <1>1 DEF MemoryInv
  <1>8. use # "old"
    BY <1>2
  <1> QED
    BY <1>1, <1>2, <1>3, <1>4, <1>5, <1>6, <1>7, <1>8

\* A free cluster is found for the table or the data.
LEMMA ClusterFound ==
    ASSUME IInv, pc = "search", chain = <<>>, Found, free' = free + 1,
           disk' = disk, l1' = l1, l2s' = l2s, writes' = writes, BlocksCached(disk, rft, rbs'),
           BlockOf(free) # 0 => Count(disk, free) = 0
    PROVE  IInv'
  <1>1. /\ use \in {"table", "data"} /\ use # "old" /\ ~Pending /\ rft = disk.rft /\ l1 = disk.l1
        /\ free \in Nat /\ req # NoReq /\ req \in Requests
        /\ use = "table" => L1Index \in DOMAIN l1 /\ ~l1[L1Index].copied
        /\ TablesCached(disk, l2s) /\ BoundsInv /\ free' \in Nat
    BY SearchFacts
  <1>2. rft' = rft /\ pc' = "count" /\ use' = use /\ req' = req /\ ret' = ret /\ chain' = <<free>>
    BY DEF Found
  <1>3. chain' \in Seq(Nat) /\ Len(chain') = 1 /\ chain'[1] = free /\ chain' # <<>>
    <2>1. chain' = <<free>> /\ free \in Nat
      BY <1>1, <1>2
    <2> QED
      BY <2>1
  <1>4. ~Pending'
    BY <1>3 DEF Pending
  <1>5. MemoryInv' /\ Image(disk)' /\ Covered(disk)'
    BY <1>1, <1>2, <1>4, MemoryKept
  <1>6. CallInv'
    BY <1>1, <1>2, <1>3 DEF CallInv, L1Index
  <1>7. AtPart(free)
    BY SearchBegins
  <1>8. (BlockOf(chain[1]))' = BlockOf(free) /\ (Block(chain[1]))' = Block(free)
    BY <1>2, <1>3 DEF BlockOf
  <1>9. SearchInv'
    <2>1. CASE BlockOf(free) = 0
      BY <1>1, <1>2, <1>3, <1>8, <2>1 DEF SearchInv
    <2>2. CASE BlockOf(free) # 0
      <3>1. AtPart(free')
        BY <2>2, SearchNext
      <3> QED
        BY <1>2, <3>1, SearchKept
    <2> QED
      BY <2>1, <2>2
  <1>10. NewInv'
    <2>1. ASSUME free \in Places(disk) PROVE Count(disk', free) = 0
      <3>1. BlockOf(free) = 0 => Count(disk, free) = 0
        BY <1>1, <2>1, BlockFacts
      <3> QED
        BY <3>1
    <2>2. BlockOf(free) = 0 /\ Block(free) \in DOMAIN rft' => free % 2 = 0
      BY <1>2, <1>7 DEF AtPart
    <2>3. free' = free + Len(chain')
      BY <1>3
    <2> QED
      BY <1>2, <1>3, <1>8, <2>1, <2>2, <2>3 DEF NewInv
  <1>11. AddInv' /\ OldInv' /\ BoundsInv'
    BY <1>1, <1>2, <1>4 DEF AddInv, OldInv, BoundsInv
  <1> QED
    BY <1>5, <1>6, <1>9, <1>10, <1>11 DEF IInv

\* A cluster is found for a new block.
LEMMA BlockFound ==
    ASSUME IInv, pc = "search", chain # <<>>, Found, free' = free + 1, rbs' = rbs,
           disk' = disk, l1' = l1, l2s' = l2s, writes' = writes
    PROVE  IInv'
  <1>1. /\ use \in {"table", "data"} /\ use # "old" /\ ~Pending /\ rft = disk.rft /\ l1 = disk.l1
        /\ free \in Nat /\ req # NoReq /\ req \in Requests
        /\ use = "table" => L1Index \in DOMAIN l1 /\ ~l1[L1Index].copied
        /\ BlocksCached(disk, rft, rbs) /\ TablesCached(disk, l2s) /\ BoundsInv /\ free' \in Nat
    BY SearchFacts
  <1>2. /\ Len(chain) = 1 /\ chain = <<chain[1]>> /\ chain[1] \in Nat
        /\ BlockOf(chain[1]) = 0 /\ Block(chain[1]) \in DOMAIN rft
        /\ chain[1] % 2 = 0 /\ free = chain[1] + 1
        /\ disk.rft[Block(chain[1])] = 0
        /\ chain[1] \in Places(disk) => Count(disk, chain[1]) = 0
    BY SearchFacts
  <1>3. rft' = rft /\ pc' = "grow" /\ use' = use /\ req' = req /\ ret' = ret
        /\ chain' = Append(chain, free)
    BY DEF Found
  <1>4. chain' \in Seq(Nat) /\ Len(chain') = 2 /\ chain'[1] = chain[1] /\ chain'[2] = free /\ chain' # <<>>
    <2> DEFINE c == chain[1]
    <2>1. chain' = Append(<<c>>, free) /\ c \in Nat
      BY <1>2, <1>3
    <2> HIDE DEF c
    <2>2. chain' \in Seq(Nat) /\ Len(chain') = 2 /\ chain'[1] = c /\ chain'[2] = free /\ chain' # <<>>
      BY <1>1, <2>1
    <2> QED
      BY <2>2 DEF c
  <1>5. ~Pending'
    BY <1>3 DEF Pending
  <1>6. MemoryInv' /\ Image(disk)' /\ Covered(disk)'
    BY <1>1, <1>3, <1>5, MemoryKept
  <1>7. CallInv'
    BY <1>1, <1>3, <1>4 DEF CallInv, L1Index
  <1>8. (BlockOf(chain[1]))' = 0 /\ (Block(chain[1]))' = Block(chain[1])
    BY <1>2, <1>3, <1>4 DEF BlockOf
  <1>9. SearchInv'
    BY <1>1, <1>3, <1>4, <1>8 DEF SearchInv
  <1>10. NewInv'
    <2>1. free' = chain'[1] + Len(chain')
      BY <1>1, <1>2, <1>4
    <2>2. chain'[2] = chain'[1] + 1
      BY <1>2, <1>4
    <2> QED
      BY <1>2, <1>3, <1>4, <1>8, <2>1, <2>2 DEF NewInv
  <1>11. AddInv' /\ OldInv' /\ BoundsInv'
    BY <1>1, <1>3, <1>5 DEF AddInv, OldInv, BoundsInv
  <1> QED
    BY <1>6, <1>7, <1>9, <1>10, <1>11 DEF IInv

LEMMA AllocKeeps == ASSUME IInv, qcow_alloc_clusters PROVE IInv'
  <1>1. pc = "search" /\ free' = free + 1 /\ disk' = disk /\ l1' = l1 /\ l2s' = l2s /\ writes' = writes
    BY DEF qcow_alloc_clusters
  <1>2. /\ use # "old" /\ ~Pending /\ Len(chain) <= 1 /\ free \in Nat
        /\ chain \in Seq(Nat) /\ BlocksCached(disk, rft, rbs) /\ TablesCached(disk, l2s) /\ BoundsInv
        /\ chain # <<>> => BlockOf(free) = 0
    BY <1>1, SearchFacts
  <1> DEFINE r == ReadThrough(rbs, BlockOf(free))
             n == Last(rbs').table[InBlock(free)]
  <1>3. CASE BlockOf(free) = 0 /\ Found /\ UNCHANGED rbs
    <2>1. CASE chain = <<>>
      <3>1. BlocksCached(disk, rft, rbs')
        BY <1>2, <1>3
      <3> QED
        BY <1>1, <1>3, <2>1, <3>1, ClusterFound
    <2>2. CASE chain # <<>>
      BY <1>1, <1>3, <2>2, BlockFound
    <2> QED
      BY <2>1, <2>2
  <1>4. ASSUME BlockOf(free) # 0
        PROVE  /\ chain = <<>> /\ AtPart(free') /\ BlocksCached(disk, rft, r)
               /\ Last(r).table[InBlock(free)] = Count(disk, free)
    <2>1. chain = <<>>
      BY <1>2, <1>4
    <2>2. AtPart(free')
      BY <1>1, <1>4, SearchNext
    <2>3. BlocksCached(disk, rft, r) /\ Last(r).table = disk.cl[BlockOf(free)].v
      BY <1>2, <1>4, BlockRead
    <2>4. disk.cl[BlockOf(free)].v[InBlock(free)] = Count(disk, free)
      BY <1>2, <1>4, BlockFacts
    <2> HIDE DEF r
    <2> QED
      BY <2>1, <2>2, <2>3, <2>4
  <1> HIDE DEF r
  <1>5. CASE BlockOf(free) # 0 /\ rbs' = r /\ n = 0 /\ Found
    <2>1. chain = <<>> /\ BlocksCached(disk, rft, rbs') /\ Count(disk, free) = 0
      BY <1>4, <1>5
    <2> QED
      BY <1>1, <1>5, <2>1, ClusterFound
  <1>6. CASE BlockOf(free) # 0 /\ rbs' = r /\ UNCHANGED <<rft, call>>
    <2>1. chain = <<>> /\ BlocksCached(disk, rft, rbs') /\ AtPart(free')
      BY <1>4, <1>6
    <2>2. /\ rft' = rft /\ pc' = pc /\ chain' = chain /\ use' = use /\ req' = req /\ ret' = ret
      BY <1>6 DEF call
    <2>3. CallInv'
      BY <1>1, <2>2 DEF IInv, CallInv, L1Index, OldTable
    <2>4. BoundsInv'
      BY <1>1, <1>2, <2>2 DEF BoundsInv
    <2>5. TablesCached(disk, l2s')
      BY <1>1, <1>2
    <2> QED
      BY <1>1, <1>2, <2>1, <2>2, <2>3, <2>4, <2>5, QuietStep
  <1>7. ASSUME BlockOf(free) # 0, rbs' \in {r, rbs}, Failed PROVE IInv'
    <2>1. BlocksCached(disk, rft, rbs') /\ AtPart(free') /\ TablesCached(disk, l2s')
      BY <1>1, <1>2, <1>4, <1>7
    <2>2. /\ rft' = rft /\ chain' = <<>> /\ use' # "old" /\ pc' # "add" /\ pc' # "l1"
          /\ CallInv' /\ BoundsInv'
      BY <1>1, <1>2, <1>7, CallFailed
    <2> QED
      BY <1>1, <1>2, <2>1, <2>2, QuietStep
  <1>8. \/ BlockOf(free) = 0 /\ Found /\ UNCHANGED rbs
        \/ BlockOf(free) # 0 /\ rbs' = r /\ n = 0 /\ Found
        \/ BlockOf(free) # 0 /\ rbs' = r /\ UNCHANGED <<rft, call>>
        \/ BlockOf(free) # 0 /\ rbs' = r /\ Failed
        \/ BlockOf(free) # 0 /\ rbs' = rbs /\ Failed
    BY Zenon DEF qcow_alloc_clusters, r
  <1>9. CASE BlockOf(free) # 0 /\ rbs' = r /\ Failed
    BY <1>7, <1>9
  <1>10. CASE BlockOf(free) # 0 /\ rbs' = rbs /\ Failed
    BY <1>7, <1>10
  <1> QED
    BY <1>3, <1>5, <1>6, <1>8, <1>9, <1>10

LEMMA CountKeeps == ASSUME IInv, update_cluster_refcount PROVE IInv'
  <1> DEFINE c == Last(chain)
             r == ReadThrough(rbs, BlockOf(c))
  <1>1. pc = "count" /\ disk' = disk /\ l1' = l1 /\ l2s' = l2s /\ free' = free /\ writes' = writes
    BY DEF update_cluster_refcount
  <1>2. CallInv /\ BoundsInv /\ MemoryInv /\ NewInv /\ AddInv /\ OldInv /\ SearchInv
    BY DEF IInv
  <1>3. /\ Len(chain) \in {1, 2} /\ chain \in Seq(Nat) /\ use \in {"table", "data", "old"}
        /\ Pending <=> Len(chain) = 2
    BY <1>1, <1>2 DEF CallInv, Pending
  <1>4. BlocksCached(disk, rft, rbs) /\ TablesCached(disk, l2s) /\ l1 = disk.l1
    BY <1>1, <1>2, MemoryTypes DEF MemoryInv
  <1>5. ASSUME Pending
        PROVE  BlockOf(c) = chain[2] /\ chain[2] # 0 /\ cached(rbs, chain[2]) # {} /\ c = chain[2]
               /\ disk.cl[chain[2]].v = NewBlock /\ BlockOf(chain[2]) = chain[2] /\ c \in Nat
    <2>1. /\ use # "old" /\ Len(chain) = 2 /\ Last(chain) = chain[2] /\ BlockOf(chain[2]) = chain[2]
      BY <1>5, PendingFacts
    <2>2. chain[2] # 0 /\ chain[2] \in Nat
      BY <2>1, NewBlockFacts, MemoryTypes
    <2>3. cached(rbs, chain[2]) # {} /\ disk.cl[chain[2]].v = NewBlock
      BY <1>1, <1>2, <1>5 DEF AddInv
    <2> QED
      BY <2>1, <2>2, <2>3
  <1>6. ASSUME ~Pending
        PROVE  Len(chain) = 1 /\ c = chain[1] /\ c \in Nat /\ rft = disk.rft
    <2>1. Len(chain) = 1
      BY <1>3, <1>6
    <2> QED
      BY <1>3, <1>6, <2>1, OneElement, MemoryTypes
  <1>15. chain # <<>>
    BY <1>3, EmptySeq
  <1>7. use = "old" => ~Pending /\ BlockOf(c) # 0
    BY <1>1, <1>6, OldFacts
  <1>8. c \in Nat
    BY <1>5, <1>6
  <1> HIDE DEF c, r
  <1>9. CASE BlockOf(c) = 0 /\ Block(c) \in DOMAIN rft /\ Goto("search") /\ UNCHANGED <<rft, rbs>>
    <2>1. ~Pending /\ use \in {"table", "data"} /\ use # "old"
      BY <1>3, <1>5, <1>7, <1>9
    <2>2. Len(chain) = 1 /\ c = chain[1] /\ rft = disk.rft
      BY <1>6, <2>1
    <2>3. /\ pc' = "search" /\ chain' = chain /\ use' = use /\ req' = req /\ ret' = ret
          /\ rft' = rft /\ rbs' = rbs
      BY <1>9 DEF Goto
    <2>4. ~Pending'
      BY <2>3 DEF Pending
    <2>5. MemoryInv' /\ Image(disk)' /\ Covered(disk)'
      <3>1. BlocksCached(disk, rft, rbs') /\ TablesCached(disk, l2s')
        BY <1>1, <1>4, <2>3
      <3> QED
        BY <1>1, <2>1, <2>3, <2>4, <3>1, MemoryKept
    <2>6. CallInv'
      <3>1. L1Index' = L1Index
        BY <2>3 DEF L1Index
      <3>2. pc' = "search" /\ Len(chain') <= 1 /\ use' \in {"table", "data"}
        BY <2>1, <2>2, <2>3
      <3>3. /\ req # NoReq /\ req \in Requests
            /\ use = "table" => L1Index \in DOMAIN l1 /\ ~l1[L1Index].copied
        BY <1>1, <1>2 DEF CallInv
      <3> QED
        BY <1>1, <1>3, <2>3, <3>1, <3>2, <3>3 DEF CallInv
    <2>7. SearchInv'
      BY <1>1, <1>2, <2>3 DEF SearchInv, BlockOf
    <2>8. NewInv'
      <3>1. /\ c \in Places(disk) => Count(disk, c) = 0
            /\ free = c + Len(chain) /\ c % 2 = 0
        BY <1>2, <1>9, <1>15, <2>1, <2>2 DEF NewInv
      <3>2. disk.rft[Block(c)] = 0
        BY <1>9, <2>2 DEF BlockOf
      <3>3. (BlockOf(chain[1]))' = 0 /\ chain'[1] = c /\ Len(chain') = 1
        BY <1>9, <2>2, <2>3 DEF BlockOf
      <3>4. /\ chain'[1] \in Places(disk') => Count(disk', chain'[1]) = 0
            /\ free' = chain'[1] + Len(chain') /\ chain'[1] % 2 = 0
            /\ Block(chain'[1]) \in DOMAIN rft' /\ disk'.rft[Block(chain'[1])] = 0
        BY <1>1, <1>9, <2>2, <2>3, <3>1, <3>2, <3>3
      <3> QED
        BY <3>3, <3>4 DEF NewInv
    <2>9. AddInv' /\ OldInv' /\ BoundsInv'
      BY <1>1, <1>2, <2>1, <2>3, <2>4 DEF AddInv, OldInv, BoundsInv
    <2> QED
      BY <2>5, <2>6, <2>7, <2>8, <2>9 DEF IInv
  <1>10. ASSUME \/ BlockOf(c) = 0 /\ Block(c) \notin DOMAIN rft
                \/ BlockOf(c) # 0 /\ CanFail(rbs, BlockOf(c)),
                Failed, rbs' = rbs
         PROVE  IInv'
    <2>1. ~Pending
      <3>1. Pending => cached(rbs, BlockOf(c)) # {} /\ BlockOf(c) # 0
        BY <1>5
      <3> QED
        BY <1>10, <3>1 DEF CanFail
    <2>2. Len(chain) = 1 /\ c = chain[1] /\ rft = disk.rft
      BY <1>6, <2>1
    <2>3. /\ rft' = rft /\ chain' = <<>> /\ use' # "old" /\ pc' # "add" /\ pc' # "l1"
          /\ CallInv' /\ BoundsInv'
      BY <1>1, <1>10, <2>2, CallFailed
    <2>4. AtPart(free')
      <3>1. CASE use = "old" \/ BlockOf(c) # 0
        BY <1>1, <2>2, <3>1, SearchBegins
      <3>2. CASE use # "old" /\ BlockOf(c) = 0
        <4>1. free = c + 1 /\ free \in Nat
          BY <1>2, <1>15, <2>2, <3>2, MemoryTypes DEF NewInv
        <4>2. Block(c) <= Block(free) /\ Block(c) \in Nat /\ Block(free) \in Nat /\ Block(c) > 0
          BY <1>8, <4>1, NextCluster, BlockTypes
        <4>3. DOMAIN rft = 1 .. Len(disk.rft) /\ Len(disk.rft) \in Nat
          BY MemoryTypes, ImageTypes DEF IInv
        <4>4. Block(free) \notin DOMAIN rft
          BY <1>10, <3>2, <4>2, <4>3
        <4> QED
          BY <1>1, <4>1, <4>4 DEF AtPart
      <3> QED
        BY <3>1, <3>2
    <2>5. BlocksCached(disk, rft, rbs') /\ TablesCached(disk, l2s')
      BY <1>1, <1>4, <1>10
    <2> QED
      BY <1>1, <2>1, <2>3, <2>4, <2>5, QuietStep
  <1>11. CASE BlockOf(c) # 0 /\ rbs' = r /\ Goto("add") /\ UNCHANGED rft
    <2>1. /\ pc' = "add" /\ chain' = chain /\ use' = use /\ req' = req /\ ret' = ret /\ rft' = rft
      BY <1>11 DEF Goto
    <2>2. BlocksCached(disk, rft, rbs') /\ cached(rbs', BlockOf(c)) # {}
      BY <1>8, <1>11, BlockRead DEF r
    <2>3. Pending' = Pending
      BY <1>1, <2>1 DEF Pending
    <2>4. MemoryInv'
      BY <1>1, <1>2, <2>1, <2>2, <2>3 DEF MemoryInv
    <2>5. CallInv'
      <3>1. L1Index' = L1Index
        BY <2>1 DEF L1Index
      <3> QED
        BY <1>1, <1>2, <1>3, <2>1, <3>1 DEF CallInv
    <2>6. SearchInv' /\ NewInv'
      BY <1>1, <1>2, <2>1 DEF SearchInv, NewInv, BlockOf
    <2>7. AddInv'
      <3>1. (BlockOf(Last(chain)))' = BlockOf(c) /\ (cached(rbs, BlockOf(Last(chain))))' # {}
        BY <2>1, <2>2 DEF BlockOf, c, cached
      <3>2. Pending => cached(rbs', chain[2]) # {}
        BY <1>5, <2>2
      <3>3. Pending' => (cached(rbs, chain[2]))' # {}
        BY <2>1, <2>3, <3>2 DEF cached
      <3> QED
        BY <1>1, <1>5, <1>11, <2>1, <2>3, <3>1, <3>3 DEF AddInv
    <2>8. OldInv' /\ BoundsInv'
      <3>1. L1Index' = L1Index
        BY <2>1 DEF L1Index
      <3> QED
        BY <1>1, <1>2, <2>1, <3>1 DEF OldInv, BoundsInv
    <2>9. Image(disk') /\ Covered(disk')
      BY <1>1 DEF IInv
    <2> QED
      BY <2>4, <2>5, <2>6, <2>7, <2>8, <2>9 DEF IInv
  <1>12. \/ BlockOf(c) = 0 /\ Block(c) \in DOMAIN rft /\ Goto("search") /\ UNCHANGED <<rft, rbs>>
         \/ BlockOf(c) = 0 /\ Block(c) \notin DOMAIN rft /\ Failed /\ UNCHANGED rbs
         \/ BlockOf(c) # 0 /\ rbs' = r /\ Goto("add") /\ UNCHANGED rft
         \/ BlockOf(c) # 0 /\ CanFail(rbs, BlockOf(c)) /\ Failed /\ UNCHANGED rbs
    BY Zenon DEF update_cluster_refcount, c, r
  <1>13. CASE BlockOf(c) = 0 /\ Block(c) \notin DOMAIN rft /\ Failed /\ UNCHANGED rbs
    BY <1>10, <1>13
  <1>14. CASE BlockOf(c) # 0 /\ CanFail(rbs, BlockOf(c)) /\ Failed /\ UNCHANGED rbs
    BY <1>10, <1>14
  <1> QED
    BY <1>9, <1>11, <1>12, <1>13, <1>14, Zenon

-----------------------------------------------------------------------------
(***************************************************************************)
(* Steps that write                                                        *)
(***************************************************************************)

\* A cached block stays what it is when its place in the image does.
LEMMA BlocksStay ==
    ASSUME NEW d, NEW e, NEW r, NEW cache, BlocksCached(d, r, cache), Places(e) = Places(d),
           \A i \in DOMAIN cache : e.cl[cache[i].offset] = d.cl[cache[i].offset]
    PROVE  BlocksCached(e, r, cache)
  <1>1. cache \in Seq([offset : Places(e) \ {0}, table : BlockTables])
    BY DEF BlocksCached
  <1>2. ASSUME NEW i \in DOMAIN cache
        PROVE  cache[i].table = e.cl[cache[i].offset].v /\ \E k \in DOMAIN r : r[k] = cache[i].offset
    BY DEF BlocksCached
  <1>3. Len(cache) <= MaxCacheNodes /\ Once(cache)
    BY DEF BlocksCached
  <1> QED
    BY <1>1, <1>2, <1>3, Zenon DEF BlocksCached

LEMMA TablesStay ==
    ASSUME NEW d, NEW e, NEW cache, TablesCached(d, cache), Places(e) = Places(d), e.l1 = d.l1,
           \A i \in DOMAIN cache : e.cl[cache[i].offset] = d.cl[cache[i].offset]
    PROVE  TablesCached(e, cache)
  <1>1. cache \in Seq([offset : Places(e) \ {0}, table : L2Tables])
    BY DEF TablesCached
  <1>2. ASSUME NEW i \in DOMAIN cache
        PROVE  /\ e.cl[cache[i].offset].kind = "table"
               /\ cache[i].table = e.cl[cache[i].offset].v
               /\ cache[i].offset \in Fixed \/ \E k \in DOMAIN e.l1 : e.l1[k].at = cache[i].offset
    BY DEF TablesCached
  <1>3. Len(cache) <= MaxCacheNodes
    BY DEF TablesCached
  <1> QED
    BY <1>1, <1>2, <1>3, Zenon DEF TablesCached

\* Where a cached block or table may be.
LEMMA CachedBlock ==
    ASSUME NEW d, NEW r, NEW cache, BlocksCached(d, r, cache), NEW i \in DOMAIN cache
    PROVE  /\ cache[i].offset \in Places(d) \ {0} /\ cache[i].table \in BlockTables
           /\ \E k \in DOMAIN r : r[k] = cache[i].offset
  <1> DEFINE S == [offset : Places(d) \ {0}, table : BlockTables]
  <1>1. cache \in Seq(S) /\ \E k \in DOMAIN r : r[k] = cache[i].offset
    BY DEF BlocksCached
  <1> HIDE DEF S
  <1>2. cache[i] \in S
    BY <1>1
  <1> QED
    BY <1>1, <1>2 DEF S

LEMMA CachedTable ==
    ASSUME NEW d, NEW cache, TablesCached(d, cache), NEW i \in DOMAIN cache
    PROVE  /\ cache[i].offset \in Places(d) \ {0} /\ cache[i].table \in L2Tables
           /\ d.cl[cache[i].offset].kind = "table" /\ cache[i].table = d.cl[cache[i].offset].v
           /\ cache[i].offset \in Fixed \/ \E k \in DOMAIN d.l1 : d.l1[k].at = cache[i].offset
  <1> DEFINE S == [offset : Places(d) \ {0}, table : L2Tables]
  <1>1. cache \in Seq(S)
        /\ d.cl[cache[i].offset].kind = "table" /\ cache[i].table = d.cl[cache[i].offset].v
        /\ (cache[i].offset \in Fixed \/ \E k \in DOMAIN d.l1 : d.l1[k].at = cache[i].offset)
    BY DEF TablesCached
  <1> HIDE DEF S
  <1>2. cache[i] \in S
    BY <1>1
  <1> QED
    BY <1>1, <1>2 DEF S

\* Neither a block in use nor a cached table is written: what is in memory stays true.
LEMMA WrittenElsewhere ==
    ASSUME IInv, NEW c \in Places(disk), NEW x, Edited(disk, disk', c, x),
           \A k \in DOMAIN rft : rft[k] # 0 => rft[k] # c,
           \A i \in DOMAIN l2s : l2s[i].offset # c
    PROVE  /\ BlocksIn(rft, disk'.cl) /\ BlocksCached(disk', rft, rbs) /\ TablesCached(disk', l2s)
           /\ Places(disk') = Places(disk) /\ disk'.rft = disk.rft /\ disk'.l1 = disk.l1
  <1>1. /\ disk'.rft = disk.rft /\ disk'.l1 = disk.l1 /\ Places(disk') = Places(disk)
        /\ \A p \in Places(disk) \ {c} : disk'.cl[p] = disk.cl[p]
    BY DEF Edited
  <1>2. BlocksIn(rft, disk.cl) /\ BlocksCached(disk, rft, rbs) /\ TablesCached(disk, l2s)
    BY DEF IInv, MemoryInv
  <1>3. ASSUME NEW k \in DOMAIN rft, rft[k] # 0 PROVE disk'.cl[rft[k]] = disk.cl[rft[k]]
    <2>1. rft[k] \in Places(disk)
      BY RftPlaces
    <2> QED
      BY <1>1, <1>3, <2>1
  <1>4. BlocksIn(rft, disk'.cl)
    BY <1>2, <1>3 DEF BlocksIn
  <1>5. ASSUME NEW i \in DOMAIN rbs PROVE disk'.cl[rbs[i].offset] = disk.cl[rbs[i].offset]
    <2>1. rbs[i].offset \in Places(disk) \ {0} /\ \E k \in DOMAIN rft : rft[k] = rbs[i].offset
      BY <1>2, CachedBlock
    <2> QED
      BY <1>1, <2>1
  <1>6. ASSUME NEW i \in DOMAIN l2s PROVE disk'.cl[l2s[i].offset] = disk.cl[l2s[i].offset]
    <2>1. l2s[i].offset \in Places(disk)
      BY <1>2, CachedTable
    <2> QED
      BY <1>1, <2>1
  <1>7. BlocksCached(disk', rft, rbs)
    BY <1>1, <1>2, <1>5, BlocksStay
  <1>8. TablesCached(disk', l2s)
    BY <1>1, <1>2, <1>6, TablesStay
  <1> QED
    BY <1>1, <1>4, <1>7, <1>8

\* A call that has written its data answers, or goes to its next cluster.
LEMMA WrittenCall ==
    ASSUME IInv, Written, writes' = writes
    PROVE  /\ chain' = <<>> /\ use' # "old" /\ pc' # "add" /\ pc' # "l1"
           /\ CallInv' /\ BoundsInv'
  <1> DEFINE next == req.from - get_cluster_offset(req.from) + ClusterSize
  <1>1. pc' = "start" /\ chain' = <<>> /\ use' = "none"
    BY DEF Written, NoCall
  <1>2. CallInv /\ BoundsInv
    BY DEF IInv
  <1>3. next \in Nat
    <2>1. req.from \in Nat /\ ClusterSize \in Nat \ {0}
      BY MemoryTypes, Constants
    <2> DEFINE a == req.from
               o == get_cluster_offset(a)
    <2>2. o \in 0 .. ClusterSize - 1
      <3> HIDE DEF a
      <3>1. (a % ClusterSize) \in 0 .. ClusterSize - 1
        BY <2>1, Division DEF a
      <3> QED
        BY <3>1 DEF get_cluster_offset
    <2>3. next = a - o + ClusterSize
      OBVIOUS
    <2> HIDE DEF a, o, next
    <2>4. a \in Nat
      BY <2>1 DEF a
    <2> QED
      BY <2>1, <2>2, <2>3, <2>4
  <1> HIDE DEF next
  <1>4. \/ req' = [req EXCEPT !.from = next] /\ ret' = ret
        \/ req' = NoReq /\ ret' = 0
    BY DEF Written, next
  <1>5. req' \in Requests
    <2>1. req \in Requests /\ NoReq \in Requests
      BY <1>2 DEF CallInv, NoReq, Requests
    <2>2. [req EXCEPT !.from = next] \in Requests
      BY <1>3, <2>1 DEF Requests
    <2> QED
      BY <1>4, <2>1, <2>2
  <1>6. CallInv'
    BY <1>1, <1>5 DEF CallInv
  <1>7. BoundsInv'
    BY <1>2, <1>4 DEF BoundsInv
  <1> QED
    BY <1>1, <1>6, <1>7

\* The entry for the place written is that of a table in the image.  A cluster that it
\* owns has data, and is no snapshot's.
LEMMA EntryFacts ==
    ASSUME IInv, pc = "data", NEW y, y = Last(l2s).table[L2Index], y.copied
    PROVE  y.at \in Places(disk) \ Fixed /\ disk.cl[y.at].kind = "data"
  <1>1. TablesCached(disk, l2s) /\ Image(disk)
    BY DEF IInv, MemoryInv
  <1>2. l2s # <<>>
    BY DEF IInv, CallInv
  <1> DEFINE S == [offset : Places(disk) \ {0}, table : L2Tables]
             n == Len(l2s)
             t == l2s[n].offset
  <1>3. l2s \in Seq(S)
    BY <1>1 DEF TablesCached
  <1> HIDE DEF S
  <1>4. n \in DOMAIN l2s /\ Last(l2s) = l2s[n]
    <2>1. Len(l2s) \in Nat /\ Len(l2s) # 0 /\ DOMAIN l2s = 1 .. Len(l2s)
      BY <1>2, <1>3, EmptySeq
    <2> QED
      BY <2>1 DEF Last
  <1>5. /\ t \in Places(disk) \ {0} /\ disk.cl[t].kind = "table" /\ l2s[n].table = disk.cl[t].v
        /\ t \in Fixed \/ \E k \in DOMAIN disk.l1 : disk.l1[k].at = t
    <2> HIDE DEF n
    <2> QED
      BY <1>1, <1>4, CachedTable
  <1> HIDE DEF n, t
  <1>6. y = disk.cl[t].v[L2Index] /\ L2Index \in 1 .. L2Entries
    BY <1>4, <1>5, IndexTypes DEF t
  <1>7. t \notin Fixed
    <2> SUFFICES ASSUME t \in Fixed PROVE FALSE
      OBVIOUS
    <2>1. ~disk.cl[t].v[L2Index].copied
      BY <1>1, <1>5, <1>6, SnapshotOwnsNone
    <2> QED
      BY <1>6, <2>1
  <1>8. PICK k \in DOMAIN disk.l1 : disk.l1[k].at = t
    BY <1>5, <1>7
  <1>9. t \in Nat /\ t > 0
    BY <1>5, MemoryTypes
  <1>10. disk.cl[disk.l1[k].at].v[L2Index].copied /\ disk.l1[k].at > 0
    BY <1>6, <1>8, <1>9
  <1>11. /\ disk.cl[disk.l1[k].at].v[L2Index].at \in Places(disk) \ Fixed
         /\ disk.cl[disk.cl[disk.l1[k].at].v[L2Index].at].kind = "data"
    BY <1>1, <1>6, <1>10, OwnData
  <1> QED
    BY <1>6, <1>8, <1>11

\* A step may change what is in cluster c, a snapshot has the others as they were.
Shared == \A c \in Fixed : disk'.cl[c] = disk.cl[c] \/ disk.cl[c].kind = "block"

LEMMA DataKeeps ==
    ASSUME IInv, qcow_write_cluster
    PROVE  IInv' /\ Shared
  <1> DEFINE y == Last(l2s).table[L2Index]
  <1>1. pc = "data" /\ rft' = rft /\ l1' = l1 /\ rbs' = rbs /\ l2s' = l2s /\ free' = free /\ writes' = writes
    BY DEF qcow_write_cluster, tables
  <1>2. /\ chain = <<>> /\ ~Pending /\ l1 = disk.l1 /\ rft = disk.rft /\ use # "old"
        /\ BlocksCached(disk, rft, rbs) /\ TablesCached(disk, l2s) /\ AtPart(free)
        /\ CallInv /\ BoundsInv
    BY <1>1, Beginning
  <1>3. Image(disk) /\ Covered(disk) /\ Fixed \subseteq Places(disk)
    BY MemoryTypes DEF IInv
  <1> HIDE DEF y
  <1>4. CASE ~y.copied /\ pc' = "search" /\ use' = "data" /\ UNCHANGED <<disk, chain, req, ret>>
    <2>1. Len(chain') <= 1 /\ chain' \in Seq(Nat) /\ chain' = <<>> /\ L1Index' = L1Index
      BY <1>2, <1>4 DEF L1Index
    <2>2. req' # NoReq /\ req' \in Requests
      BY <1>1, <1>2, <1>4 DEF CallInv
    <2>3. CallInv' /\ BoundsInv'
      BY <1>1, <1>2, <1>4, <2>1, <2>2 DEF CallInv, BoundsInv
    <2>4. BlocksCached(disk, rft, rbs') /\ TablesCached(disk, l2s') /\ AtPart(free')
      BY <1>1, <1>2
    <2>5. IInv'
      BY <1>1, <1>2, <1>4, <2>1, <2>3, <2>4, QuietStep
    <2> QED
      BY <1>4, <2>5 DEF Shared
  <1>5. ASSUME y.copied PROVE y.at \in Places(disk) \ Fixed /\ disk.cl[y.at].kind = "data"
    BY <1>1, <1>5, EntryFacts DEF y
  <1>6. CASE y.copied /\ pwrite(y.at, Content("data", Overwritten(y.at))) /\ Written
    <2> DEFINE c == y.at
               v == Overwritten(y.at)
    <2>1. c \in Places(disk) \ Fixed /\ disk.cl[c].kind = "data"
      BY <1>5, <1>6
    <2>2. disk' = [disk EXCEPT !.cl[c] = Content("data", v)]
      BY <1>6 DEF pwrite
    <2> HIDE DEF c, v
    <2>3. Edited(disk, disk', c, Content("data", v))
      <3>1. Edited(disk, [disk EXCEPT !.cl[c] = Content("data", v)], c, Content("data", v))
        BY <1>3, <2>1, ClusterEdited
      <3> QED
        BY <2>2, <3>1
    <2>4. /\ Image(disk') /\ Places(disk') = Places(disk) /\ \A p : Referred(disk', p) = Referred(disk, p)
          /\ \A p \in Places(disk) : Count(disk', p) = Count(disk, p)
      BY <1>3, <2>1, <2>3, DataWritten
    <2>5. Covered(disk')
      BY <1>3, <2>4 DEF Covered
    <2>6. \A k \in DOMAIN rft : rft[k] # 0 => rft[k] # c
      BY <2>1 DEF IInv, MemoryInv, BlocksIn
    <2>7. \A i \in DOMAIN l2s : l2s[i].offset # c
      BY <1>2, <2>1, CachedTable
    <2>8. /\ BlocksIn(rft, disk'.cl) /\ BlocksCached(disk', rft, rbs) /\ TablesCached(disk', l2s)
          /\ Places(disk') = Places(disk) /\ disk'.rft = disk.rft /\ disk'.l1 = disk.l1
      BY <2>1, <2>3, <2>6, <2>7, WrittenElsewhere
    <2>9. /\ chain' = <<>> /\ use' # "old" /\ pc' # "add" /\ pc' # "l1"
          /\ CallInv' /\ BoundsInv'
      BY <1>1, <1>6, WrittenCall
    <2>10. NewInv' /\ AddInv' /\ OldInv' /\ ~Pending'
      BY <2>9, Quiet
    <2>11. MemoryInv'
      BY <1>1, <1>2, <2>8, <2>9, <2>10 DEF MemoryInv
    <2>12. SearchInv'
      BY <1>1, <1>2, SearchKept
    <2>13. IInv'
      BY <2>4, <2>5, <2>9, <2>10, <2>11, <2>12 DEF IInv
    <2>14. Shared
      BY <1>3, <2>1, <2>3 DEF Shared, Edited
    <2> QED
      BY <2>13, <2>14
  <1>7. \/ ~y.copied /\ pc' = "search" /\ use' = "data" /\ UNCHANGED <<disk, chain, req, ret>>
        \/ y.copied /\ y.at \in Places(disk)
             /\ pwrite(y.at, Content("data", Overwritten(y.at))) /\ Written
        \/ y.copied /\ y.at \notin Places(disk)
    BY Zenon DEF qcow_write_cluster, y
  <1> QED
    BY <1>4, <1>5, <1>6, <1>7, Zenon

\* The level 1 table is written without the old table, which has one count more than
\* it needs.
LEMMA L1Keeps ==
    ASSUME IInv, qcow_write_l1_table
    PROVE  IInv' /\ Shared
  <1>1. /\ pc = "l1" /\ pc' = "count" /\ disk' = [disk EXCEPT !.l1 = l1]
        /\ rft' = rft /\ l1' = l1 /\ rbs' = rbs /\ l2s' = l2s /\ free' = free /\ writes' = writes
        /\ chain' = chain /\ use' = use /\ req' = req /\ ret' = ret
    BY DEF qcow_write_l1_table, tables, Goto
  <1>2. Image(disk) /\ Covered(disk) /\ MemoryInv /\ CallInv /\ OldInv /\ BoundsInv
    BY DEF IInv
  <1>3. use = "old" /\ Len(chain) = 1 /\ chain \in Seq(Nat) /\ l2s # <<>> /\ req # NoReq /\ req \in Requests
    BY <1>1, <1>2 DEF CallInv
  <1> DEFINE t == chain[1]
             k == L1Index
  <1>4. t \in Fixed /\ k \in DOMAIN disk.l1 /\ disk.l1[k].at = t /\ t > 0 /\ t \in Places(disk)
    BY <1>1, <1>2, <1>3, MemoryTypes DEF OldInv
  <1>5. ~Pending /\ ~Pending' /\ L1Index' = k
    BY <1>1, <1>3 DEF Pending, L1Index
  <1>6. l1 = [disk.l1 EXCEPT ![k] = Entry(Nowhere, TRUE)] /\ rft = disk.rft
    BY <1>1, <1>2, <1>5 DEF MemoryInv
  <1> HIDE DEF t, k
  <1>7. /\ Image(disk') /\ Places(disk') = Places(disk) /\ disk'.rft = disk.rft /\ disk'.cl = disk.cl
        /\ \A p : Count(disk', p) = Count(disk, p)
        /\ \A p : Referred(disk', p) <= Referred(disk, p)
        /\ Referred(disk', t) + 1 <= Referred(disk, t)
    <2>1. WithTables(disk, disk', disk.rft, [disk.l1 EXCEPT ![k] = Entry(Nowhere, TRUE)])
      <3>1. disk = [rft |-> disk.rft, l1 |-> disk.l1, cl |-> disk.cl]
        BY <1>2 DEF Image
      <3>2. disk' = [rft |-> disk.rft, l1 |-> l1, cl |-> disk.cl]
        BY <1>1, <3>1
      <3> QED
        BY <1>6, <3>2 DEF WithTables
    <2>2. disk.l1[k].at > 0
      BY <1>4
    <2>3. /\ Image(disk') /\ Places(disk') = Places(disk) /\ disk'.rft = disk.rft /\ disk'.cl = disk.cl
          /\ \A p : Count(disk', p) = Count(disk, p)
          /\ \A p : Referred(disk', p) <= Referred(disk, p)
          /\ Referred(disk', disk.l1[k].at) + 1 <= Referred(disk, disk.l1[k].at)
      BY <1>2, <1>4, <2>1, <2>2, L1Written
    <2> QED
      BY <1>4, <2>3
  <1>8. disk'.l1 = l1
    <2>1. disk = [rft |-> disk.rft, l1 |-> disk.l1, cl |-> disk.cl]
      BY <1>2 DEF Image
    <2>2. disk' = [rft |-> disk.rft, l1 |-> l1, cl |-> disk.cl]
      BY <1>1, <2>1
    <2> QED
      BY <2>2
  <1>9. ASSUME NEW p \in Places(disk)
        PROVE  /\ Referred(disk', p) <= Count(disk', p)
               /\ p = t => Referred(disk', p) + 1 <= Count(disk', p)
    <2>1. Referred(disk, p) <= Count(disk, p) /\ Count(disk', p) = Count(disk, p)
      BY <1>2, <1>7 DEF Covered
    <2>2. Referred(disk, p) \in Nat /\ Referred(disk', p) \in Nat /\ Count(disk, p) \in Nat
      <3>1. Count(disk, p) \in 0 .. CountMod - 1
        BY <1>2, CountType
      <3> QED
        BY <1>2, <1>7, <3>1, ReferredParts, Constants
    <2>3. Referred(disk', p) <= Referred(disk, p)
      BY <1>7
    <2>4. p = t => Referred(disk', p) + 1 <= Referred(disk, p)
      BY <1>7
    <2> QED
      BY <2>1, <2>2, <2>3, <2>4
  <1>10. TablesCached(disk', l2s)
    <2>1. TablesCached(disk, l2s)
      BY <1>2 DEF MemoryInv
    <2>2. l2s \in Seq([offset : Places(disk') \ {0}, table : L2Tables]) /\ Len(l2s) <= MaxCacheNodes
      BY <1>7, <2>1 DEF TablesCached
    <2>3. ASSUME NEW i \in DOMAIN l2s
          PROVE  /\ disk'.cl[l2s[i].offset].kind = "table"
                 /\ l2s[i].table = disk'.cl[l2s[i].offset].v
                 /\ l2s[i].offset \in Fixed \/ \E m \in DOMAIN disk'.l1 : disk'.l1[m].at = l2s[i].offset
      <3>1. /\ disk.cl[l2s[i].offset].kind = "table" /\ l2s[i].table = disk.cl[l2s[i].offset].v
            /\ l2s[i].offset \in Fixed \/ \E m \in DOMAIN disk.l1 : disk.l1[m].at = l2s[i].offset
        BY <2>1, CachedTable
      <3>2. ASSUME NEW m \in DOMAIN disk.l1, disk.l1[m].at = l2s[i].offset
            PROVE  l2s[i].offset \in Fixed \/ (m \in DOMAIN disk'.l1 /\ disk'.l1[m].at = l2s[i].offset)
        <4>1. CASE m = k
          BY <1>4, <3>2, <4>1
        <4>2. CASE m # k
          BY <1>6, <1>8, <3>2, <4>2
        <4> QED
          BY <4>1, <4>2
      <3>3. l2s[i].offset \in Fixed \/ \E m \in DOMAIN disk'.l1 : disk'.l1[m].at = l2s[i].offset
        BY <3>1, <3>2
      <3> QED
        BY <1>7, <3>1, <3>3
    <2> QED
      BY <2>2, <2>3, Zenon DEF TablesCached
  <1>11. BlocksCached(disk', rft, rbs)
    <2>1. BlocksCached(disk, rft, rbs)
      BY <1>2 DEF MemoryInv
    <2> QED
      BY <1>7, <2>1, BlocksStay
  <1>12. MemoryInv'
    <2>1. BlocksIn(rft, disk'.cl)
      BY <1>2, <1>7 DEF MemoryInv
    <2>2. rft' = disk'.rft /\ l1' = disk'.l1
      BY <1>1, <1>6, <1>7, <1>8
    <2>3. BlocksIn(rft', disk'.cl) /\ BlocksCached(disk', rft', rbs') /\ TablesCached(disk', l2s')
      BY <1>1, <1>10, <1>11, <2>1
    <2> QED
      BY <1>1, <1>5, <2>2, <2>3 DEF MemoryInv
  <1>13. CallInv'
    BY <1>1, <1>3 DEF CallInv
  <1>14. SearchInv'
    <2>1. AtPart(free)
      BY <1>3, SearchBegins
    <2> QED
      BY <1>1, <2>1, SearchKept
  <1>15. NewInv' /\ AddInv' /\ BoundsInv'
    BY <1>1, <1>2, <1>3, <1>5 DEF NewInv, AddInv, BoundsInv
  <1>16. OldInv'
    BY <1>1, <1>4, <1>9 DEF OldInv, t
  <1>17. Covered(disk')
    BY <1>7, <1>9 DEF Covered
  <1>18. Shared
    BY <1>7 DEF Shared
  <1> QED
    BY <1>7, <1>12, <1>13, <1>14, <1>15, <1>16, <1>17, <1>18 DEF IInv

\* The refcount table is written with the new block, whose own count is there already.
LEMMA ReferKeeps ==
    ASSUME IInv, qcow_write_refcount_table
    PROVE  IInv' /\ Shared
  <1> DEFINE a == chain[1]
             n == chain[2]
  <1>1. /\ pc = "refer" /\ pc' = "add" /\ disk' = [disk EXCEPT !.rft = rft] /\ chain' = Front(chain)
        /\ rft' = rft /\ l1' = l1 /\ rbs' = rbs /\ l2s' = l2s /\ free' = free /\ writes' = writes
        /\ use' = use /\ req' = req /\ ret' = ret
    BY DEF qcow_write_refcount_table, tables
  <1>2. Image(disk) /\ Covered(disk) /\ MemoryInv /\ CallInv /\ AddInv /\ BoundsInv
    BY DEF IInv
  <1>3. Len(chain) = 2 /\ use \in {"table", "data"} /\ use # "old" /\ Pending
    BY <1>1, <1>2 DEF CallInv, Pending
  <1>4. /\ a \in Places(disk) /\ n \in Places(disk) /\ n = a + 1 /\ n # 0
        /\ disk.rft[Block(n)] = 0 /\ Count(disk, a) = 0 /\ chain = <<a, n>> /\ a \in Nat
    BY <1>3, NewBlockFacts, MemoryTypes
  <1>5. /\ BlockOf(n) = n /\ BlockOf(a) = n /\ disk.cl[n].kind = "block"
        /\ rft = [disk.rft EXCEPT ![Block(n)] = n]
    BY <1>3, PendingFacts
  <1>6. disk.cl[n].v = [NewBlock EXCEPT ![InBlock(n)] = 1] /\ cached(rbs, n) # {}
    BY <1>1, <1>2, <1>3 DEF AddInv
  <1>7. l1 = disk.l1 /\ L1Index' = L1Index
    BY <1>1, MemoryTypes DEF L1Index
  <1>8. AtPart(free)
    BY <1>4, <1>5, SearchBegins
  <1> HIDE DEF a, n
  <1>9. chain' = <<a>> /\ chain' \in Seq(Nat) /\ Len(chain') = 1 /\ chain'[1] = a /\ chain' # <<>>
    <2>1. chain' = <<a>>
      <3> DEFINE f == SubSeq(chain, 1, 1)
      <3>1. Front(chain) = f
        BY <1>3 DEF Front
      <3>2. \A i \in 1 .. 1 : chain[i] \in Nat
        BY <1>4
      <3>3. f \in Seq(Nat) /\ Len(f) = 1 /\ f[1] = chain[1]
        BY <3>2, SubSeqProperties
      <3> HIDE DEF f
      <3>4. f = <<f[1]>>
        BY <3>3, OneElement
      <3> QED
        BY <1>1, <3>1, <3>3, <3>4 DEF a
    <2> QED
      BY <1>4, <2>1
  <1>10. ~Pending'
    BY <1>9 DEF Pending
  <1>11. disk' = [rft |-> rft, l1 |-> disk.l1, cl |-> disk.cl]
    <2>1. disk = [rft |-> disk.rft, l1 |-> disk.l1, cl |-> disk.cl]
      BY <1>2 DEF Image
    <2> QED
      BY <1>1, <2>1
  <1>12. disk'.rft = rft
    BY <1>11
  <1>13. /\ Image(disk') /\ Covered(disk') /\ Places(disk') = Places(disk)
         /\ disk'.l1 = disk.l1 /\ disk'.cl = disk.cl
         /\ \A p \in Places(disk) \ {n} : Count(disk', p) = Count(disk, p)
    <2>1. WithTables(disk, disk', [disk.rft EXCEPT ![Block(n)] = n], disk.l1)
      BY <1>5, <1>11 DEF WithTables
    <2> QED
      BY <1>2, <1>4, <1>5, <1>6, <2>1, RftWritten
  <1>14. MemoryInv'
    <2>1. BlocksIn(rft, disk.cl) /\ BlocksCached(disk, rft, rbs) /\ TablesCached(disk, l2s)
      BY <1>2 DEF MemoryInv
    <2>2. BlocksCached(disk', rft, rbs) /\ TablesCached(disk', l2s)
      BY <1>13, <2>1, BlocksStay, TablesStay
    <2>3. BlocksIn(rft', disk'.cl) /\ BlocksCached(disk', rft', rbs') /\ TablesCached(disk', l2s')
      BY <1>1, <1>13, <2>1, <2>2
    <2>4. rft' = disk'.rft /\ l1' = disk'.l1
      BY <1>1, <1>7, <1>12, <1>13
    <2> QED
      BY <1>1, <1>10, <2>3, <2>4 DEF MemoryInv
  <1>15. CallInv'
    <2>1. req # NoReq /\ req \in Requests /\ (use = "table" => L1Index \in DOMAIN l1 /\ ~l1[L1Index].copied)
      BY <1>1, <1>2 DEF CallInv
    <2> QED
      BY <1>1, <1>3, <1>7, <1>9, <2>1 DEF CallInv
  <1>16. SearchInv'
    BY <1>1, <1>8, SearchKept
  <1>17. (BlockOf(chain[1]))' = n
    BY <1>1, <1>5, <1>9 DEF BlockOf
  <1>18. NewInv'
    <2>1. Count(disk', a) = 0
      BY <1>4, <1>13
    <2> QED
      BY <1>1, <1>4, <1>9, <1>17, <2>1 DEF NewInv
  <1>19. AddInv'
    <2>1. (Last(chain))' = chain'[1]
      BY <1>9 DEF Last
    <2>2. (BlockOf(Last(chain)))' = n
      BY <1>17, <2>1 DEF BlockOf
    <2>3. (cached(rbs, BlockOf(Last(chain))))' # {}
      BY <1>1, <1>6, <2>2 DEF cached
    <2> QED
      BY <1>4, <1>10, <2>2, <2>3 DEF AddInv
  <1>20. OldInv' /\ BoundsInv'
    BY <1>1, <1>2, <1>3 DEF OldInv, BoundsInv
  <1>21. Shared
    BY <1>13 DEF Shared
  <1> QED
    BY <1>13, <1>14, <1>15, <1>16, <1>18, <1>19, <1>20, <1>21 DEF IInv

\* A number that is small enough is its own remainder.
LEMMA SmallRemainder ==
    ASSUME NEW m \in Nat \ {0}, NEW a \in 0 .. m - 1
    PROVE  a % m = a
  <1>1. a \in Nat /\ m * 0 = 0 /\ a < m
    OBVIOUS
  <1>2. a \div m = 0
    BY <1>1, QuotientUnique
  <1>3. (a % m) \in 0 .. m - 1 /\ a = m * (a \div m) + (a % m)
    BY <1>1, Division
  <1> QED
    BY <1>1, <1>2, <1>3

\* A block in use gets counts, in its cache and in the image.
LEMMA BlockChanged ==
    ASSUME IInv, NEW b \in Places(disk) \ {0}, disk.cl[b].kind = "block",
           NEW i \in DOMAIN rbs, rbs[i].offset = b, NEW v \in BlockTables,
           rbs' = [rbs EXCEPT ![i].table = v], Edited(disk, disk', b, Content("block", v))
    PROVE  /\ BlocksIn(rft, disk'.cl) /\ BlocksCached(disk', rft, rbs') /\ TablesCached(disk', l2s)
           /\ \A p : cached(rbs', p) = cached(rbs, p)
  <1>1. /\ Places(disk') = Places(disk) /\ disk'.l1 = disk.l1
        /\ disk'.cl[b] = Content("block", v)
        /\ \A p \in Places(disk) \ {b} : disk'.cl[p] = disk.cl[p]
    BY DEF Edited
  <1>2. disk'.cl[b].kind = "block" /\ disk'.cl[b].v = v
    BY <1>1 DEF Content
  <1>3. BlocksIn(rft, disk.cl) /\ BlocksCached(disk, rft, rbs) /\ TablesCached(disk, l2s)
    BY DEF IInv, MemoryInv
  <1>4. BlocksIn(rft, disk'.cl)
    <2>1. ASSUME NEW k \in DOMAIN rft, rft[k] # 0 PROVE disk'.cl[rft[k]].kind = "block"
      <3>1. rft[k] \in Places(disk) /\ disk.cl[rft[k]].kind = "block"
        BY <1>3, <2>1, RftPlaces DEF BlocksIn
      <3> QED
        BY <1>1, <1>2, <3>1
    <2> QED
      BY <1>3, <2>1 DEF BlocksIn
  <1>5. TablesCached(disk', l2s)
    <2>1. ASSUME NEW j \in DOMAIN l2s PROVE disk'.cl[l2s[j].offset] = disk.cl[l2s[j].offset]
      <3>1. l2s[j].offset \in Places(disk) /\ disk.cl[l2s[j].offset].kind = "table"
        BY <1>3, CachedTable
      <3> QED
        BY <1>1, <3>1
    <2> QED
      BY <1>1, <1>3, <2>1, TablesStay
  <1> DEFINE S == [offset : Places(disk) \ {0}, table : BlockTables]
             x == [offset |-> b, table |-> v]
  <1>6. rbs \in Seq(S) /\ Len(rbs) <= MaxCacheNodes /\ Once(rbs)
    BY <1>3 DEF BlocksCached
  <1>7. rbs' = [rbs EXCEPT ![i] = x]
    <2>1. rbs[i] \in S
      <3> HIDE DEF S
      <3> QED
        BY <1>6
    <2>2. [rbs[i] EXCEPT !.table = v] = x
      BY <2>1
    <2> QED
      BY <2>2
  <1>8. x \in S /\ x.offset = b /\ x.table = v
    OBVIOUS
  <1> HIDE DEF S, x
  <1>9. /\ rbs' \in Seq(S) /\ Len(rbs') = Len(rbs) /\ DOMAIN rbs' = DOMAIN rbs /\ rbs'[i] = x
        /\ \A j \in DOMAIN rbs \ {i} : rbs'[j] = rbs[j]
    <2> DEFINE q == [rbs EXCEPT ![i] = x]
    <2>1. /\ q \in Seq(S) /\ Len(q) = Len(rbs) /\ DOMAIN q = DOMAIN rbs /\ q[i] = x
          /\ \A j \in DOMAIN rbs \ {i} : q[j] = rbs[j]
      BY <1>6, <1>8, ElementReplaced, SMTT(30)
    <2> QED
      BY <1>7, <2>1
  <1>10. \A j \in DOMAIN rbs : rbs'[j].offset = rbs[j].offset
    BY <1>8, <1>9
  <1>11. Once(rbs')
    BY <1>6, <1>9, <1>10 DEF Once
  <1>12. ASSUME NEW j \in DOMAIN rbs'
         PROVE  rbs'[j].table = disk'.cl[rbs'[j].offset].v /\ \E k \in DOMAIN rft : rft[k] = rbs'[j].offset
    <2>1. j \in DOMAIN rbs /\ rbs'[j].offset = rbs[j].offset
      BY <1>9, <1>10
    <2>2. /\ rbs[j].table = disk.cl[rbs[j].offset].v /\ rbs[j].offset \in Places(disk)
          /\ \E k \in DOMAIN rft : rft[k] = rbs[j].offset
      BY <1>3, <2>1, CachedBlock DEF BlocksCached
    <2>3. CASE j = i
      BY <1>2, <1>8, <1>9, <2>1, <2>2, <2>3
    <2>4. CASE j # i
      <3>1. rbs[j].offset # b
        BY <1>6, <2>1, <2>4 DEF Once
      <3>2. rbs'[j] = rbs[j] /\ disk'.cl[rbs[j].offset] = disk.cl[rbs[j].offset]
        BY <1>1, <1>9, <2>1, <2>2, <2>4, <3>1
      <3> QED
        BY <2>2, <3>2
    <2> QED
      BY <2>3, <2>4
  <1>13. BlocksCached(disk', rft, rbs')
    <2>1. rbs' \in Seq([offset : Places(disk') \ {0}, table : BlockTables]) /\ Len(rbs') <= MaxCacheNodes
      BY <1>1, <1>6, <1>9 DEF S
    <2> QED
      BY <1>11, <1>12, <2>1, Zenon DEF BlocksCached
  <1>14. \A p : cached(rbs', p) = cached(rbs, p)
    BY <1>9, <1>10 DEF cached
  <1> QED
    BY <1>4, <1>5, <1>13, <1>14

\* A count is changed: the new block's or the new cluster's becomes 1, the old
\* table's loses one.
LEMMA AddKeeps ==
    ASSUME IInv, write_refcount_block
    PROVE  IInv' /\ Shared
  <1> DEFINE c == Last(chain)
             b == BlockOf(c)
             i == At(rbs, b)
             n == (rbs[i].table[InBlock(c)] + append) % CountMod
             v == [rbs[i].table EXCEPT ![InBlock(c)] = n]
             old == disk.cl[b].v[InBlock(c)]
  <1>1. /\ pc = "add" /\ rbs' = [rbs EXCEPT ![i].table = v]
        /\ disk' = [disk EXCEPT !.cl[b] = Content("block", v)]
        /\ free' = IF n = 0 /\ c < free THEN c ELSE free
        /\ \/ Len(chain) > 1 /\ Goto("refer")
           \/ Len(chain) = 1 /\ use = "old" /\ OldFreed
           \/ Len(chain) = 1 /\ use # "old" /\ Allocated
    BY Zenon DEF write_refcount_block, pwrite
  <1>2. rft' = rft /\ l1' = l1 /\ l2s' = l2s /\ writes' = writes
    BY DEF write_refcount_block
  <1>3. Image(disk) /\ Covered(disk) /\ MemoryInv /\ CallInv /\ NewInv /\ AddInv /\ OldInv /\ BoundsInv
    BY DEF IInv
  <1>4. /\ Len(chain) \in {1, 2} /\ chain \in Seq(Nat) /\ use \in {"table", "data", "old"} /\ chain # <<>>
        /\ (Pending <=> Len(chain) = 2)
    <2>1. /\ Len(chain) \in {1, 2} /\ chain \in Seq(Nat) /\ use \in {"table", "data", "old"}
      BY <1>1, <1>3 DEF CallInv
    <2>2. Pending <=> Len(chain) = 2
      BY <1>1 DEF Pending
    <2>3. chain # <<>>
      BY <2>1, EmptySeq
    <2> QED
      BY <2>1, <2>2, <2>3
  <1>5. ASSUME ~Pending PROVE Len(chain) = 1 /\ c = chain[1] /\ c \in Nat /\ rft = disk.rft
    <2>1. Len(chain) = 1
      BY <1>4, <1>5
    <2> QED
      BY <1>4, <1>5, <2>1, OneElement, MemoryTypes
  <1>6. ASSUME Pending
        PROVE  /\ use # "old" /\ Len(chain) = 2 /\ c = chain[2] /\ b = c /\ c \in Nat /\ c \in Places(disk)
               /\ BlockOf(chain[1]) = c /\ Count(disk, c) = 0 /\ disk.cl[c].v = NewBlock /\ c # 0
    <2>1. use # "old" /\ Len(chain) = 2 /\ c = chain[2] /\ b = c /\ BlockOf(chain[1]) = c
      BY <1>6, PendingFacts
    <2>2. c \in Places(disk) /\ Count(disk, c) = 0 /\ c # 0
      BY <2>1, NewBlockFacts
    <2>3. disk.cl[c].v = NewBlock
      BY <1>1, <1>3, <1>6, <2>1 DEF AddInv
    <2> HIDE DEF c, b
    <2> QED
      BY <2>1, <2>2, <2>3, MemoryTypes
  <1>7. c \in Nat /\ InBlock(c) \in 1 .. RbEntries
    <2> HIDE DEF c
    <2>1. c \in Nat
      BY <1>5, <1>6
    <2> QED
      BY <2>1, BlockTypes
  <1>8. b # 0 /\ cached(rbs, b) # {}
    BY <1>1, <1>3 DEF AddInv
  <1> HIDE DEF c
  <1>9. /\ b \in Places(disk) \ {0} /\ disk.cl[b].kind = "block" /\ disk.cl[b].v \in BlockTables
        /\ c \in Places(disk) /\ old \in 0 .. CountMod - 1
    <2>1. /\ b \in Places(disk) \ {0} /\ disk.cl[b].kind = "block" /\ disk.cl[b].v \in BlockTables
          /\ c \in Places(disk)
      BY <1>7, <1>8, BlockFacts
    <2> HIDE DEF b
    <2> QED
      BY <1>7, <2>1 DEF BlockTables
  <1>10. ~Pending => old = Count(disk, c) /\ b = disk.rft[Block(c)]
    BY <1>7, <1>8, <1>9, BlockFacts
  <1>11. i \in DOMAIN rbs /\ rbs[i].offset = b /\ rbs[i].table = disk.cl[b].v
    <2> HIDE DEF b
    <2>1. i \in cached(rbs, b)
      BY <1>8 DEF At
    <2> HIDE DEF i
    <2>2. i \in DOMAIN rbs /\ rbs[i].offset = b
      BY <2>1 DEF cached
    <2> QED
      BY <1>3, <2>2 DEF MemoryInv, BlocksCached
  <1>12. n = (old + append) % CountMod /\ v = [disk.cl[b].v EXCEPT ![InBlock(c)] = n]
    BY <1>11
  <1> HIDE DEF b, i, n, v, old
  <1>13. use # "old" => old = 0 /\ n = 1
    <2> SUFFICES ASSUME use # "old" PROVE old = 0 /\ n = 1
      OBVIOUS
    <2>1. old = 0
      <3>1. CASE Pending
        BY <1>6, <1>7, <3>1 DEF old, NewBlock
      <3>2. CASE ~Pending
        BY <1>3, <1>4, <1>5, <1>9, <1>10, <3>2 DEF NewInv
      <3> QED
        BY <3>1, <3>2
    <2>2. append = 1
      BY DEF append
    <2>3. n = (0 + 1) % CountMod
      BY <1>12, <2>1, <2>2
    <2>4. 1 % CountMod = 1
      BY Constants, SmallRemainder
    <2> QED
      BY <2>1, <2>3, <2>4
  <1>14. ASSUME use = "old"
         PROVE  /\ ~Pending /\ Len(chain) = 1 /\ c = chain[1] /\ old \in 1 .. CountMod - 1 /\ n = old - 1
                /\ Referred(disk, c) + 1 <= old
    <2>1. /\ Len(chain) = 1 /\ Last(chain) = chain[1] /\ ~Pending
          /\ Count(disk, chain[1]) \in 1 .. CountMod - 1
          /\ Referred(disk, chain[1]) + 1 <= Count(disk, chain[1])
      BY <1>1, <1>14, OldFacts
    <2>2. c = chain[1] /\ old = Count(disk, c)
      BY <1>10, <2>1 DEF c
    <2>3. append = -1
      BY <1>14, <2>1 DEF append
    <2>4. n = (old + (-1)) % CountMod /\ old \in 1 .. CountMod - 1
      BY <1>12, <2>1, <2>2, <2>3
    <2>5. old + (-1) = old - 1 /\ old - 1 \in 0 .. CountMod - 1
      BY <2>4, Constants
    <2>6. (old - 1) % CountMod = old - 1
      BY <2>5, Constants, SmallRemainder
    <2> QED
      BY <2>1, <2>2, <2>4, <2>5, <2>6
  <1>15. n \in 0 .. CountMod - 1
    BY <1>13, <1>14, Constants
  <1>16. v \in BlockTables
    BY <1>9, <1>12, <1>15 DEF BlockTables
  <1>17. Edited(disk, disk', b, Content("block", v))
    <2>1. Edited(disk, [disk EXCEPT !.cl[b] = Content("block", v)], b, Content("block", v))
      BY <1>3, <1>9, ClusterEdited
    <2> QED
      BY <1>1, <2>1
  <1>18. /\ BlocksIn(rft, disk'.cl) /\ BlocksCached(disk', rft, rbs') /\ TablesCached(disk', l2s)
         /\ \A p : cached(rbs', p) = cached(rbs, p)
    BY <1>1, <1>9, <1>11, <1>16, <1>17, BlockChanged
  <1>19. disk'.rft = disk.rft /\ disk'.l1 = disk.l1 /\ Places(disk') = Places(disk)
         /\ disk'.cl[b] = Content("block", v) /\ \A p \in Places(disk) \ {b} : disk'.cl[p] = disk.cl[p]
    BY <1>17 DEF Edited
  <1>20. Shared
    BY <1>9, <1>19, MemoryTypes DEF Shared
  <1>21. l1 = disk.l1 /\ L1Index \in Int
    BY <1>1, MemoryTypes, IndexTypes
  <1>22. BlockOf(c) # 0 /\ BlockOf(c) = b
    BY <1>8 DEF b
  <1>23. CASE Pending
    <2>1. /\ use # "old" /\ Len(chain) = 2 /\ c = chain[2] /\ b = c
          /\ BlockOf(chain[1]) = c /\ Count(disk, c) = 0 /\ disk.cl[c].v = NewBlock /\ c # 0
      BY <1>6, <1>23
    <2>2. /\ pc' = "refer" /\ chain' = chain /\ use' = use /\ req' = req /\ ret' = ret /\ n = 1 /\ free' = free
      BY <1>1, <1>13, <2>1 DEF Goto
    <2>3. /\ Image(disk') /\ \A p : Referred(disk', p) = Referred(disk, p)
          /\ \A p \in Places(disk) : Count(disk', p) = Count(disk, p)
      BY <1>3, <1>9, <1>16, <1>17, <2>1, BlockWritten
    <2>4. Covered(disk')
      BY <1>3, <1>19, <2>3 DEF Covered
    <2>5. Pending' /\ L1Index' = L1Index
      BY <2>1, <2>2 DEF Pending, L1Index
    <2>6. MemoryInv'
      <3>1. rft' = [disk'.rft EXCEPT ![Block(chain'[1])] = chain'[2]]
        BY <1>2, <1>3, <1>19, <1>23, <2>2 DEF MemoryInv
      <3>2. l1' = disk'.l1
        BY <1>2, <1>19, <1>21
      <3>3. BlocksIn(rft', disk'.cl) /\ BlocksCached(disk', rft', rbs') /\ TablesCached(disk', l2s')
        BY <1>2, <1>18
      <3> QED
        BY <2>2, <2>5, <3>1, <3>2, <3>3 DEF MemoryInv
    <2>7. CallInv'
      <3>1. req # NoReq /\ req \in Requests /\ (use = "table" => L1Index \in DOMAIN l1 /\ ~l1[L1Index].copied)
        BY <1>1, <1>3 DEF CallInv
      <3> QED
        BY <1>2, <1>4, <2>1, <2>2, <2>5, <3>1 DEF CallInv
    <2>8. SearchInv'
      <3>1. AtPart(free)
        BY <2>1, SearchBegins
      <3> QED
        BY <1>2, <2>2, <3>1, SearchKept
    <2>9. NewInv'
      <3>1. BlockOf(chain[1])' = BlockOf(chain[1])
        BY <1>2, <2>2 DEF BlockOf
      <3>2. /\ chain[1] \in Places(disk) /\ Count(disk, chain[1]) = 0 /\ Count(disk', chain[1]) = 0
        BY <2>1, <2>3, NewBlockFacts
      <3>3. /\ Block(chain[1]) \in DOMAIN rft /\ disk.rft[Block(chain[1])] = 0 /\ chain[1] % 2 = 0
            /\ chain[2] = chain[1] + 1
        BY <1>3, <1>4, <2>1 DEF NewInv
      <3> QED
        BY <1>2, <1>19, <2>1, <2>2, <3>1, <3>2, <3>3 DEF NewInv
    <2>10. AddInv'
      <3>1. disk'.cl[chain[2]].v = [NewBlock EXCEPT ![InBlock(chain[2])] = 1]
        <4>1. v = [NewBlock EXCEPT ![InBlock(c)] = 1]
          BY <1>12, <2>1, <2>2
        <4>2. disk'.cl[b].v = v
          BY <1>19 DEF Content
        <4> HIDE DEF NewBlock
        <4> QED
          BY <2>1, <4>1, <4>2
      <3>2. cached(rbs', chain[2]) # {}
        BY <1>8, <1>18, <2>1
      <3>3. (cached(rbs, chain[2]))' # {}
        BY <2>2, <3>2 DEF cached
      <3> QED
        BY <2>2, <3>1, <3>3 DEF AddInv
    <2>11. OldInv' /\ BoundsInv'
      BY <1>2, <1>3, <2>1, <2>2 DEF OldInv, BoundsInv
    <2> QED
      BY <1>20, <2>3, <2>4, <2>6, <2>7, <2>8, <2>9, <2>10, <2>11 DEF IInv
  <1>24. CASE ~Pending
    <2>1. Len(chain) = 1 /\ c = chain[1] /\ rft = disk.rft /\ b = disk.rft[Block(c)]
      BY <1>5, <1>10, <1>24
    <2>2. /\ Image(disk') /\ Places(disk') = Places(disk) /\ \A p : Referred(disk', p) = Referred(disk, p)
          /\ Count(disk', c) = n
          /\ \A p \in Places(disk) \ {c} : Count(disk', p) = Count(disk, p)
      <3>1. Image(disk) /\ c \in Places(disk) /\ b # 0 /\ v = [disk.cl[b].v EXCEPT ![InBlock(c)] = n]
        BY <1>3, <1>9, <1>12
      <3> QED
        BY <1>15, <1>17, <2>1, <3>1, CountWritten, SMTT(60)
    <2>3. Referred(disk, c) <= n
      <3>1. Referred(disk, c) \in Nat
        BY <1>3, ReferredParts
      <3>2. CASE use = "old"
        BY <1>14, <3>1, <3>2
      <3>3. CASE use # "old"
        <4>1. Referred(disk, c) <= Count(disk, c) /\ Count(disk, c) = 0 /\ n = 1
          BY <1>3, <1>9, <1>10, <1>13, <1>24, <3>3 DEF Covered
        <4> QED
          BY <3>1, <4>1
      <3> QED
        BY <3>2, <3>3
    <2>4. Covered(disk')
      <3> SUFFICES ASSUME NEW p \in Places(disk) PROVE Referred(disk', p) <= Count(disk', p)
        BY <2>2 DEF Covered
      <3>1. CASE p = c
        BY <2>2, <2>3, <3>1
      <3>2. CASE p # c
        BY <1>3, <2>2, <3>2 DEF Covered
      <3> QED
        BY <3>1, <3>2
    <2>5. AtPart(free')
      <3>1. AtPart(free)
        BY <1>22, <2>1, SearchBegins
      <3>2. AtPart(c)
        BY <1>7, <1>22 DEF AtPart
      <3> QED
        BY <1>1, <3>1, <3>2
    <2>6. /\ chain' = <<>> /\ use' # "old" /\ pc' # "add" /\ pc' # "l1" /\ CallInv' /\ BoundsInv'
      <3>1. CASE use # "old" /\ Allocated
        BY <1>2, <3>1, RefusedCall DEF Allocated
      <3>2. CASE use = "old" /\ OldFreed
        <4>1. pc' = "data" /\ chain' = <<>> /\ use' = "none" /\ req' = req /\ ret' = ret
          BY <3>2 DEF OldFreed
        <4>2. req # NoReq /\ req \in Requests /\ l2s # <<>>
          BY <1>1, <1>3, <3>2 DEF CallInv
        <4>3. CallInv'
          BY <1>2, <4>1, <4>2 DEF CallInv
        <4>4. BoundsInv'
          BY <1>2, <1>3, <4>1 DEF BoundsInv
        <4> QED
          BY <4>1, <4>3, <4>4
      <3> QED
        BY <1>1, <2>1, <3>1, <3>2
    <2>7. NewInv' /\ AddInv' /\ OldInv' /\ ~Pending'
      BY <2>6, Quiet
    <2>8. MemoryInv'
      <3>1. rft' = disk'.rft /\ l1' = disk'.l1
        BY <1>2, <1>19, <1>21, <2>1
      <3>2. BlocksIn(rft', disk'.cl) /\ BlocksCached(disk', rft', rbs') /\ TablesCached(disk', l2s')
        BY <1>2, <1>18
      <3> QED
        BY <2>6, <2>7, <3>1, <3>2 DEF MemoryInv
    <2>9. SearchInv'
      BY <1>2, <2>5, SearchKept
    <2> QED
      BY <1>20, <2>2, <2>4, <2>6, <2>7, <2>8, <2>9 DEF IInv
  <1> QED
    BY <1>23, <1>24

\* A new block is written where nothing was, and used for its part of the image in
\* memory.
LEMMA GrownKeeps ==
    ASSUME IInv, pc = "grow", Grown(Last(chain), chain[Len(chain) - 1]),
           UNCHANGED <<l1, l2s, free, writes>>
    PROVE  IInv' /\ Shared
  <1> DEFINE c == chain[1]
             n == chain[2]
             k == Block(c)
             x == [offset |-> n, table |-> NewBlock]
  <1>1. pc = "grow" /\ l1' = l1 /\ l2s' = l2s /\ free' = free /\ writes' = writes
    OBVIOUS
  <1>2. Image(disk) /\ Covered(disk) /\ MemoryInv /\ CallInv /\ NewInv /\ BoundsInv
    BY DEF IInv
  <1>3. Len(chain) = 2 /\ use \in {"table", "data"} /\ use # "old" /\ ~Pending /\ chain \in Seq(Nat)
    BY <1>1, <1>2 DEF CallInv, Pending
  <1>4. /\ c \in Places(disk) /\ n \in Places(disk) /\ n = c + 1 /\ k = Block(n)
        /\ k \in DOMAIN disk.rft /\ disk.rft[k] = 0 /\ Count(disk, c) = 0 /\ Count(disk, n) = 0
        /\ n # 0 /\ n \notin Fixed /\ Last(chain) = n /\ c \in Nat /\ n \in Nat
    BY <1>3, NewBlockFacts, MemoryTypes
  <1>5. /\ rft = disk.rft /\ l1 = disk.l1 /\ DOMAIN rft = DOMAIN disk.rft
    BY <1>1, <1>3, MemoryTypes
  <1>6. chain # <<>> /\ BlockOf(c) = 0 /\ c % 2 = 0 /\ free = n + 1
    <2>1. chain # <<>>
      BY <1>3, EmptySeq
    <2>2. BlockOf(c) = 0
      BY <1>4, <1>5 DEF BlockOf
    <2>3. c % 2 = 0 /\ free = c + 2
      BY <1>2, <1>3, <2>1, <2>2 DEF NewInv
    <2> HIDE DEF c, n
    <2> QED
      BY <1>4, <2>1, <2>2, <2>3
  <1>7. /\ disk' = [disk EXCEPT !.cl[n] = Content("block", NewBlock)]
        /\ rbs' = cache_table(rbs, x)
        /\ rft' = [rft EXCEPT ![k] = n]
        /\ pc' = "count" /\ chain' = chain /\ use' = use /\ req' = req /\ ret' = ret
    <2>1. Last(chain) = n /\ chain[Len(chain) - 1] = c
      BY <1>3, <1>4
    <2>2. Grown(n, c)
      BY <2>1
    <2> HIDE DEF c, n
    <2> QED
      BY <2>2 DEF Grown, pwrite, Goto
  <1>8. NewBlock \in BlockTables
    BY Constants DEF NewBlock, BlockTables
  <1> HIDE DEF c, n, k
  <1>9. Edited(disk, disk', n, Content("block", NewBlock))
    <2>1. Edited(disk, [disk EXCEPT !.cl[n] = Content("block", NewBlock)], n, Content("block", NewBlock))
      BY <1>2, <1>4, ClusterEdited
    <2> QED
      BY <1>7, <2>1
  <1>10. /\ Image(disk') /\ \A p : Referred(disk', p) = Referred(disk, p)
         /\ \A p \in Places(disk) : Count(disk', p) = Count(disk, p)
    BY <1>2, <1>4, <1>8, <1>9, BlockWritten
  <1>11. /\ Places(disk') = Places(disk) /\ disk'.rft = disk.rft /\ disk'.l1 = disk.l1
         /\ disk'.cl[n] = Content("block", NewBlock)
         /\ \A p \in Places(disk) \ {n} : disk'.cl[p] = disk.cl[p]
    BY <1>9 DEF Edited
  <1>12. disk'.cl[n].kind = "block" /\ disk'.cl[n].v = NewBlock
    BY <1>11 DEF Content
  <1>13. Covered(disk')
    BY <1>2, <1>10, <1>11 DEF Covered
  <1>14. (\A i \in DOMAIN disk.rft : disk.rft[i] # n) /\ \A i \in DOMAIN disk.l1 : disk.l1[i].at # n
    BY <1>2, <1>4, NotCounted
  <1>15. /\ BlocksIn(rft, disk'.cl) /\ BlocksCached(disk', rft, rbs) /\ TablesCached(disk', l2s)
    <2>1. \A i \in DOMAIN rft : rft[i] # 0 => rft[i] # n
      BY <1>5, <1>14
    <2>2. ASSUME NEW i \in DOMAIN l2s PROVE l2s[i].offset # n
      <3>1. l2s[i].offset \in Fixed \/ \E m \in DOMAIN disk.l1 : disk.l1[m].at = l2s[i].offset
        BY <1>2, CachedTable DEF MemoryInv
      <3> QED
        BY <1>4, <1>14, <3>1
    <2> QED
      BY <1>4, <1>9, <2>1, <2>2, WrittenElsewhere
  <1>16. /\ DOMAIN rft' = DOMAIN rft /\ rft'[k] = n
         /\ \A i \in DOMAIN rft \ {k} : rft'[i] = rft[i]
    BY <1>4, <1>5, <1>7
  <1>17. BlocksIn(rft', disk'.cl)
    <2>1. ASSUME NEW i \in DOMAIN rft', rft'[i] # 0 PROVE disk'.cl[rft'[i]].kind = "block"
      BY <1>12, <1>15, <1>16, <2>1 DEF BlocksIn
    <2>2. ASSUME NEW i \in DOMAIN rft', NEW j \in DOMAIN rft', rft'[i] = rft'[j], rft'[i] # 0 PROVE i = j
      <3>1. \A m \in DOMAIN rft \ {k} : rft'[m] # n
        BY <1>5, <1>14, <1>16
      <3>2. CASE i = k \/ j = k
        BY <1>16, <2>2, <3>1, <3>2
      <3>3. CASE i # k /\ j # k
        BY <1>15, <1>16, <2>2, <3>3 DEF BlocksIn
      <3> QED
        BY <3>2, <3>3
    <2> QED
      BY <2>1, <2>2 DEF BlocksIn
  <1>18. BlocksCached(disk', rft', rbs') /\ cached(rbs', n) # {}
    <2> DEFINE S == [offset : Places(disk') \ {0}, table : BlockTables]
               e == cache_table(rbs, x)
    <2>1. rbs \in Seq(S) /\ Len(rbs) <= MaxCacheNodes /\ Once(rbs) /\ DOMAIN rbs = 1 .. Len(rbs)
      BY <1>15 DEF BlocksCached
    <2>2. x \in S /\ x.offset = n /\ x.table = NewBlock
      BY <1>4, <1>8, <1>11
    <2>3. cached(rbs, n) = {}
      <3>1. ASSUME NEW i \in DOMAIN rbs PROVE rbs[i].offset # n
        <4>1. \E m \in DOMAIN rft : rft[m] = rbs[i].offset
          BY <1>15, CachedBlock
        <4> QED
          BY <1>5, <1>14, <4>1
      <3> QED
        BY <3>1 DEF cached
    <2> HIDE DEF S, x
    <2>4. /\ e \in Seq(S) /\ Len(e) \in 1 .. MaxCacheNodes /\ e[Len(e)] = x
          /\ \A j \in 1 .. Len(e) : e[j] = x \/ \E m \in 1 .. Len(rbs) : e[j] = rbs[m]
          /\ Once(rbs) /\ cached(rbs, x.offset) = {} => Once(e)
      BY <2>1, <2>2, CachingKeeps, Zenon
    <2> HIDE DEF e
    <2>5. DOMAIN e = 1 .. Len(e) /\ Len(e) <= MaxCacheNodes /\ Len(e) \in 1 .. Len(e) /\ Once(e)
      BY <2>1, <2>2, <2>3, <2>4, Constants
    <2>6. ASSUME NEW j \in DOMAIN e
          PROVE  e[j].table = disk'.cl[e[j].offset].v /\ \E m \in DOMAIN rft' : rft'[m] = e[j].offset
      <3>1. CASE e[j] = x
        BY <1>4, <1>5, <1>12, <1>16, <2>2, <3>1
      <3>2. ASSUME NEW m \in DOMAIN rbs, e[j] = rbs[m]
            PROVE  e[j].table = disk'.cl[e[j].offset].v /\ \E q \in DOMAIN rft' : rft'[q] = e[j].offset
        <4>1. /\ rbs[m].offset # 0 /\ rbs[m].table = disk'.cl[rbs[m].offset].v
              /\ \E q \in DOMAIN rft : rft[q] = rbs[m].offset
          <5>1. /\ rbs[m].offset \in Places(disk') \ {0}
                /\ \E q \in DOMAIN rft : rft[q] = rbs[m].offset
            BY <1>15, CachedBlock
          <5>2. rbs[m].table = disk'.cl[rbs[m].offset].v
            BY <1>15, Zenon DEF BlocksCached
          <5> QED
            BY <5>1, <5>2
        <4>2. PICK q \in DOMAIN rft : rft[q] = rbs[m].offset
          BY <4>1
        <4>3. q # k
          BY <1>4, <1>5, <4>1, <4>2
        <4>4. q \in DOMAIN rft' /\ rft'[q] = rbs[m].offset
          BY <1>16, <4>2, <4>3
        <4> QED
          BY <3>2, <4>1, <4>4
      <3> QED
        BY <2>1, <2>4, <2>5, <3>1, <3>2
    <2>7. BlocksCached(disk', rft', e)
      BY <2>4, <2>5, <2>6, Zenon DEF BlocksCached, S
    <2>8. cached(e, n) # {}
      BY <2>2, <2>4, <2>5 DEF cached
    <2> QED
      BY <1>7, <2>7, <2>8 DEF e
  <1>19. Pending' /\ L1Index' = L1Index /\ chain'[1] = c /\ chain'[2] = n
    BY <1>3, <1>7 DEF Pending, L1Index, c, n
  <1>20. MemoryInv'
    <2>1. rft' = [disk'.rft EXCEPT ![Block(chain'[1])] = chain'[2]]
      BY <1>5, <1>7, <1>11, <1>19 DEF k
    <2>2. l1' = disk'.l1 /\ pc' # "l1"
      BY <1>1, <1>5, <1>7, <1>11
    <2>3. TablesCached(disk', l2s')
      BY <1>1, <1>15
    <2> QED
      BY <1>17, <1>18, <1>19, <2>1, <2>2, <2>3 DEF MemoryInv
  <1>21. CallInv'
    <2>1. req # NoReq /\ req \in Requests /\ (use = "table" => L1Index \in DOMAIN l1 /\ ~l1[L1Index].copied)
      BY <1>1, <1>2 DEF CallInv
    <2> QED
      BY <1>1, <1>3, <1>7, <1>19, <2>1 DEF CallInv
  <1>22. (BlockOf(c))' = n
    <2>1. Block(c) \in DOMAIN rft'
      BY <1>4, <1>5, <1>16 DEF k
    <2>2. c' = c
      BY <1>19 DEF c
    <2> QED
      BY <1>16, <2>1, <2>2 DEF BlockOf, k
  <1>23. SearchInv'
    <2>1. free' = n + 1 /\ free' \in Nat
      BY <1>1, <1>4, <1>6
    <2>2. Block(n + 1) = Block(n) \/ (n + 1) % 2 = 0
      BY <1>4, NextCluster
    <2>3. Block(n + 1) = Block(n) => (BlockOf(free))' = n
      BY <1>4, <1>5, <1>16, <2>1 DEF BlockOf
    <2> QED
      BY <1>4, <2>1, <2>2, <2>3 DEF SearchInv
  <1>24. NewInv'
    <2>1. Count(disk', c) = 0
      BY <1>4, <1>10
    <2>2. Block(c) \in DOMAIN rft' /\ disk'.rft[Block(c)] = 0
      BY <1>4, <1>5, <1>11, <1>16 DEF k
    <2>3. (BlockOf(chain[1]))' = n
      BY <1>22 DEF c
    <2> QED
      BY <1>4, <1>6, <1>7, <1>19, <2>1, <2>2, <2>3 DEF NewInv
  <1>25. AddInv'
    <2>1. (cached(rbs, chain[2]))' # {}
      BY <1>18, <1>19 DEF cached
    <2> QED
      BY <1>7, <1>12, <1>19, <2>1 DEF AddInv
  <1>26. OldInv' /\ BoundsInv'
    BY <1>1, <1>2, <1>3, <1>7 DEF OldInv, BoundsInv
  <1>27. Shared
    BY <1>4, <1>11, MemoryTypes DEF Shared
  <1> QED
    BY <1>10, <1>13, <1>20, <1>21, <1>23, <1>24, <1>25, <1>26, <1>27 DEF IInv

\* A block is added, or there is no memory for one.
LEMMA GrowKeeps ==
    ASSUME IInv, qcow_grow_refcount_block
    PROVE  IInv' /\ Shared
  <1>1. pc = "grow" /\ l1' = l1 /\ l2s' = l2s /\ free' = free /\ writes' = writes
    BY DEF qcow_grow_refcount_block
  <1>2. CallInv /\ NewInv /\ MemoryInv
    BY DEF IInv
  <1>3. Len(chain) = 2 /\ use # "old" /\ ~Pending /\ chain # <<>> /\ chain \in Seq(Nat)
    <2>1. Len(chain) = 2 /\ use # "old" /\ ~Pending /\ chain \in Seq(Nat)
      BY <1>1, <1>2 DEF CallInv, Pending
    <2> QED
      BY <2>1, EmptySeq
  <1>4. Last(chain) \in Places(disk)
    BY <1>3, NewBlockFacts
  <1>5. CASE Grown(Last(chain), chain[Len(chain) - 1])
    BY <1>1, <1>5, GrownKeeps
  <1>6. CASE Failed /\ disk' = disk /\ rbs' = rbs
    <2>1. /\ rft' = rft /\ chain' = <<>> /\ use' # "old" /\ pc' # "add" /\ pc' # "l1"
          /\ CallInv' /\ BoundsInv'
      BY <1>1, <1>6, CallFailed
    <2>2. free = chain[1] + 2 /\ chain[1] % 2 = 0 /\ chain[1] \in Nat
      <3>1. BlockOf(chain[1]) = 0
        <4>1. /\ Block(chain[1]) \in DOMAIN rft /\ disk.rft[Block(chain[1])] = 0
              /\ rft = disk.rft
          BY <1>2, <1>3, MemoryTypes DEF NewInv
        <4> QED
          BY <4>1 DEF BlockOf
      <3>2. chain[1] \in Nat
        BY <1>3, TwoElements, Zenon
      <3> QED
        BY <1>2, <1>3, <3>1, <3>2 DEF NewInv
    <2>3. AtPart(free')
      <3>1. free % 2 = 0 /\ free \in Nat
        BY <2>2
      <3> QED
        BY <1>1, <2>1, <3>1 DEF AtPart
    <2>4. BlocksCached(disk, rft, rbs') /\ TablesCached(disk, l2s')
      BY <1>1, <1>2, <1>6 DEF MemoryInv
    <2>5. IInv'
      BY <1>1, <1>3, <1>6, <2>1, <2>3, <2>4, QuietStep
    <2> QED
      BY <1>6, <2>5 DEF Shared
  <1> QED
    BY <1>4, <1>5, <1>6 DEF qcow_grow_refcount_block

-----------------------------------------------------------------------------
(***************************************************************************)
(* The theorems                                                            *)
(***************************************************************************)

LEMMA NextKeeps ==
    ASSUME IInv, [Next]_vars
    PROVE  IInv' /\ Shared
  <1>1. CASE UNCHANGED vars
    <2>1. disk' = disk
      BY <1>1 DEF vars
    <2> QED
      BY <1>1, <2>1, Stutter DEF Shared
  <1>2. ASSUME NEW from \in 0 .. Sectors + 1, NEW upto \in 0 .. Sectors + 1, from < upto, Submit(from, upto)
        PROVE  IInv' /\ Shared
    <2>1. disk' = disk
      BY <1>2 DEF Submit
    <2> QED
      BY <1>2, <2>1, SubmitKeeps DEF Shared
  <1>3. CASE get_cluster_table
    <2>1. disk' = disk
      BY <1>3 DEF get_cluster_table
    <2> QED
      BY <1>3, <2>1, GetTableKeeps DEF Shared
  <1>4. CASE qcow_l2_cache_write
    BY <1>4, CopyKeeps DEF Shared
  <1>5. CASE qcow_write_l1_table
    BY <1>5, L1Keeps
  <1>6. CASE qcow_write_cluster
    BY <1>6, DataKeeps
  <1>7. CASE qcow_alloc_clusters
    <2>1. disk' = disk
      BY <1>7 DEF qcow_alloc_clusters
    <2> QED
      BY <1>7, <2>1, AllocKeeps DEF Shared
  <1>8. CASE update_cluster_refcount
    <2>1. disk' = disk
      BY <1>8 DEF update_cluster_refcount
    <2> QED
      BY <1>8, <2>1, CountKeeps DEF Shared
  <1>9. CASE qcow_grow_refcount_block
    BY <1>9, GrowKeeps
  <1>10. CASE write_refcount_block
    BY <1>10, AddKeeps
  <1>11. CASE qcow_write_refcount_table
    BY <1>11, ReferKeeps
  <1>12. ASSUME NEW dirty \in SUBSET DOMAIN rbs, qcow_disk_flush(dirty)
         PROVE  IInv' /\ Shared
    BY <1>12, FlushWritesTheSame, FlushKeeps DEF Shared
  <1>13. CASE qcow_disk_close \/ crash
    <2>1. disk' = disk
      BY <1>13 DEF qcow_disk_close, crash
    <2> QED
      BY <1>13, <2>1, CloseKeeps DEF Shared
  <1> QED
    BY <1>1, <1>2, <1>3, <1>4, <1>5, <1>6, <1>7, <1>8, <1>9, <1>10, <1>11, <1>12, <1>13, Zenon DEF Next

\* The inductive invariant holds: what is in memory is what the image has but for the
\* entry the call is about to write, and the call knows what counts nothing yet and
\* what has a count too many.
THEOREM Invariance == Spec => []IInv
  <1>1. Init => IInv
    BY InitHolds
  <1>2. IInv /\ [Next]_vars => IInv'
    BY NextKeeps
  <1> QED
    BY <1>1, <1>2, PTL DEF Spec

\* The tables in memory refer to places in the image, or to -1, and the caches keep
\* their limit (cache_table).
THEOREM TypeCorrect == Spec => []TypeOK
  <1>1. ASSUME IInv PROVE TypeOK
    <2>1. \A i \in DOMAIN rft : rft[i] \in Places(disk)
      BY <1>1, RftPlaces
    <2>2. \A i \in DOMAIN l1 : l1[i].at \in {Nowhere} \cup Places(disk)
      <3>1. \A i \in DOMAIN disk.l1 : disk.l1[i].at \in {Nowhere} \cup Places(disk)
        BY <1>1, ImageTypes DEF IInv
      <3>2. CASE pc = "l1"
        <4>1. l1 = [disk.l1 EXCEPT ![L1Index] = Entry(Nowhere, TRUE)]
          BY <1>1, <3>2 DEF IInv, MemoryInv
        <4> QED
          BY <3>1, <4>1 DEF Entry
      <3>3. CASE pc # "l1"
        BY <1>1, <3>1, <3>3, MemoryTypes
      <3> QED
        BY <3>2, <3>3
    <2>3. Len(rbs) <= MaxCacheNodes /\ Len(l2s) <= MaxCacheNodes
      BY <1>1 DEF IInv, MemoryInv, BlocksCached, TablesCached
    <2>4. free \in Nat /\ ret \in {0, Err} /\ writes \in 0 .. MaxWrites
      BY <1>1 DEF IInv, SearchInv, BoundsInv
    <2> QED
      BY <2>1, <2>2, <2>3, <2>4 DEF TypeOK
  <1> QED
    BY <1>1, Invariance, PTL

\* No cluster counts less than what refers to it, in the image between any two writes
\* of it: a crash there leaves no cluster that is in use and free (update_cluster_refcount,
\* qcow_grow_refcount_block, qcow_write_l1_table).
THEOREM CountsAlwaysCover == Spec => []CountsCover
  <1>1. IInv => CountsCover
    BY DEF IInv, CountsCover
  <1> QED
    BY <1>1, Invariance, PTL

\* The caches have what the image has, and a block once (l2_table_search,
\* refcount_block_search, qcow_write_refcount_block).
THEOREM CachesAlwaysAgree == Spec => []CachesAgree
  <1>1. ASSUME IInv PROVE CachesAgree
    <2>1. BlocksCached(disk, rft, rbs) /\ TablesCached(disk, l2s)
      BY <1>1 DEF IInv, MemoryInv
    <2>2. \A i \in DOMAIN rbs : rbs[i].table = disk.cl[rbs[i].offset].v
      BY <2>1 DEF BlocksCached
    <2>3. \A i \in DOMAIN l2s : l2s[i].table = disk.cl[l2s[i].offset].v
      BY <2>1 DEF TablesCached
    <2>4. \A i, j \in DOMAIN rbs : rbs[i].offset = rbs[j].offset => i = j
      BY <2>1 DEF BlocksCached, Once
    <2> QED
      BY <2>2, <2>3, <2>4 DEF CachesAgree
  <1> QED
    BY <1>1, Invariance, PTL

\* No step writes a cluster that a snapshot has too, but for counts (qcow_write_cluster).
THEOREM SnapshotsKept == Spec => SharedKept
  <1>1. IInv /\ [Next]_vars => [\A c \in Fixed : disk'.cl[c] = disk.cl[c] \/ disk.cl[c].kind = "block"]_vars
    BY NextKeeps DEF Shared
  <1> QED
    BY <1>1, Invariance, PTL DEF Spec, SharedKept

\* Counting a cluster needs at most one new block, which holds its own count: the
\* recursion of update_cluster_refcount through qcow_grow_refcount_block ends there,
\* the block is a place that the table has room for, and the count of it does not
\* fail: no block is freed while it is cached (recover_rft), whatever memory there
\* is and whatever cannot be read.
THEOREM GrowthEnds ==
    Spec => [](/\ Len(chain) <= 2
               /\ pc = "grow" => chain[2] \in Places(disk) /\ Block(chain[2]) = Block(chain[1])
               /\ pc # "freed")
  <1>1. ASSUME IInv
        PROVE  /\ Len(chain) <= 2
               /\ pc = "grow" => chain[2] \in Places(disk) /\ Block(chain[2]) = Block(chain[1])
               /\ pc # "freed"
    <2>1. CallInv
      BY <1>1 DEF IInv
    <2>2. Len(chain) <= 2
      <3>1. chain = <<>> => Len(chain) = 0
        BY EmptySeq
      <3>2. chain = <<>> \/ Len(chain) <= 1 \/ Len(chain) \in {1, 2}
        BY <2>1 DEF CallInv
      <3>3. chain \in Seq(Nat)
        BY <2>1 DEF CallInv
      <3>4. Len(chain) \in Nat
        BY <3>3
      <3> DEFINE n == Len(chain)
      <3>5. n \in Nat /\ (n = 0 \/ n <= 1 \/ n \in {1, 2})
        BY <3>1, <3>2, <3>4, Zenon
      <3> HIDE DEF n
      <3>6. n <= 2
        BY <3>5
      <3> QED
        BY <3>6 DEF n
    <2>3. pc = "grow" => Len(chain) = 2 /\ use # "old"
      BY <2>1 DEF CallInv
    <2>4. pc # "freed"
      BY <2>1 DEF CallInv
    <2> QED
      BY <1>1, <2>2, <2>3, <2>4, NewBlockFacts
  <1> QED
    BY <1>1, Invariance, PTL
=============================================================================
