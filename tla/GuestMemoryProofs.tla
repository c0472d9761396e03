------------------------- MODULE GuestMemoryProofs -------------------------
(***************************************************************************)
(* For every driver, chain and bank of memory, wherever the kernel puts a  *)
(* mapping and whichever fails: the pointers of the process reach the      *)
(* bytes the driver meant, what is mapped is what it has pointers to, and  *)
(* the drivers of a guest that all use one kind of address never meet an   *)
(* assertion.                                                              *)
(***************************************************************************)
EXTENDS GuestMemory, FiniteSetTheorems, SequenceTheorems, TLAPS

(***************************************************************************)
(* The invariant                                                           *)
(***************************************************************************)

Working == {"walk", "walked", "work", "complete"}
Dead == {"bug", "no_ring", "fault"}
Banks == demu_init_guest_ram
Pages(r) == HostPages(r.ptr, r.size)

\* The process has mapped range r: bytes of the guest from r.at on, at r.ptr.
Maps(h, r) ==
    /\ r.ptr \in Nat /\ r.at \in Nat /\ r.size \in Nat \ {0}
    /\ r.ptr % PageSize = r.at % PageSize
    /\ \A w \in Pages(r) :
           /\ w \in DOMAIN h
           /\ h[w] = [kind |-> IF r.grant THEN "grant" ELSE "foreign",
                      page |-> (r.at \div PageSize) + w - (r.ptr \div PageSize), prot |-> r.prot]

\* The ranges the process holds: the banks, the rings, the segments of the request
\* and the table of indirect descriptors, each as <<what, which, range>>.
RamRange(b) == [ptr |-> host_addr[b], at |-> Banks[b].base * PageSize,
                size |-> Banks[b].size * PageSize, prot |-> "rw", grant |-> FALSE]
RingRange(k) == [ptr |-> ring[k].ptr, at |-> Rings(drv)[k].at,
                 size |-> ring[k].size, prot |-> "rw", grant |-> drv.grant]
Chain == sent[req.head].chain
SegRange(k) == [ptr |-> req.iov[k].base, at |-> Chain[k].at,
                size |-> req.iov[k].len, prot |-> IF Chain[k].write THEN "w" ELSE "r",
                grant |-> drv.grant]
TabRange == [ptr |-> tab.ptr, at |-> TableAt, size |-> tab.len, prot |-> "r", grant |-> drv.grant]

RamHeld == {<<"ram", b, RamRange(b)>> : b \in {b \in 1 .. 2 : host_addr[b] # NULL}}
RingHeld == {<<"ring", k, RingRange(k)>> : k \in RingsMapped}
SegHeld == {<<"segment", k, SegRange(k)>> : k \in Segments}
TabHeld == {<<"table", k, TabRange>> : k \in {k \in {1} : tab.ptr # NULL}}

\* What it reaches, and what is mapped for itself.
Reached == RingHeld \cup SegHeld \cup TabHeld
Held == RamHeld \cup IF advance THEN {} ELSE Reached

\* Every page mapped is one of a range in S, and of one only, or lost.
Parted(h, L, S) ==
    /\ DOMAIN h = L \cup UNION {Pages(t[3]) : t \in S}
    /\ \A t \in S : Pages(t[3]) \cap L = {}
    /\ \A t, u \in S : t # u => Pages(t[3]) \cap Pages(u[3]) = {}
    /\ \A t \in S : Maps(h, t[3])
    /\ \A v \in DOMAIN h :
           /\ v \in Nat /\ v >= FirstPage
           /\ h[v].kind \in {"foreign", "grant"} /\ h[v].prot \in {"r", "w", "rw"}

\* Range r is reached through a bank that is mapped.
ThroughBank(r) ==
    \E b \in DOMAIN Banks :
        /\ host_addr[b] # NULL
        /\ r.at \in Nat /\ r.size \in Nat \ {0}
        /\ InBank(r.at, b) /\ InBank(r.at + r.size - 1, b)
        /\ r.ptr = host_addr[b] + (r.at - Banks[b].base * PageSize)
        /\ ~r.grant

MapInv ==
    /\ Parted(host, lost, Held)
    /\ advance => \A t \in Reached : ThroughBank(t[3])

Types ==
    /\ advance \in BOOLEAN /\ use_gnttab \in {-1, 0, 1} /\ (advance => use_gnttab = -1)
    /\ pc \in {"off", "run", "work"} \cup Dead \cup Loops
    /\ drv \in Drivers \cup {NoDrv}
    /\ host_addr \in [1 .. 2 -> Nat] /\ ring \in Seq([ptr : Nat, size : Nat])
    /\ guests \in 0 .. Guests /\ loads \in 0 .. Loads

\* The banks are mapped one after the other, and unmapped.
RamInv ==
    /\ \A b \in 1 .. 2 : b > Len(Banks) \/ ~advance => host_addr[b] = NULL
    /\ pc = "map_ram" => advance /\ i \in 1 .. Len(Banks) /\ \A b \in i .. 2 : host_addr[b] = NULL
    /\ pc = "unmap_ram" => advance /\ i \in 1 .. 2 /\ \A b \in 1 .. i - 1 : host_addr[b] = NULL
    /\ pc = "off" => \A b \in 1 .. 2 : host_addr[b] = NULL

\* So are the rings of a driver.
RingInv ==
    /\ pc \notin {"map_ram", "unmap_ram", "map_ring", "unmap_ring", "complete"} => i = 1
    /\ drv = NoDrv => ring = <<>> /\ sent = <<>> /\ pc \in {"off", "run", "map_ram", "unmap_ram"}
    /\ pc \in {"off", "map_ram", "unmap_ram"} => drv = NoDrv
    /\ pc = "unmap_ring" => sent = <<>>
    /\ drv # NoDrv =>
           /\ Len(ring) <= Len(Rings(drv))
           /\ \A k \in 1 .. Len(ring) : ring[k].size = Rings(drv)[k].size
           /\ pc = "map_ring" => i \in 1 .. Len(Rings(drv)) /\ Len(ring) = i - 1
           /\ pc \in {"run", "unmap_ring"} \cup Working => Len(ring) = Len(Rings(drv))
           /\ pc = "unmap_ring" => i \in 1 .. Len(ring)

LoopInv == Types /\ RamInv /\ RingInv

\* The chain of head h is in its descriptors, or in the table.
ChainAt(h) ==
    LET c == sent[h].chain
        s == sent[h].at
    IN /\ h \in Heads /\ c \in Chains /\ h \in Range(s)
       /\ IF desc[h].indirect
          THEN /\ s = <<h>> /\ desc[h].addr = Addr(drv, TableAt) /\ desc[h].len = Len(c)
               /\ table = [k \in 0 .. Len(c) - 1 |-> Descriptor(c, k + 1, k + 1)]
          ELSE /\ s \in [1 .. Len(c) -> Heads] /\ s[1] = h
               /\ \A k \in 1 .. Len(c) : desc[s[k]] = Descriptor(c, k, s[k + 1])

\* The requests of the driver share no descriptor.
ChainInv ==
    /\ DOMAIN desc = Heads
    /\ \A h \in DOMAIN sent : ChainAt(h)
    /\ \A g, h \in DOMAIN sent : g # h => Range(sent[g].at) \cap Range(sent[h].at) = {}
    /\ \A g, h \in DOMAIN sent : desc[g].indirect /\ desc[h].indirect => g = h
    /\ avail \in Seq(DOMAIN sent)
    /\ \A m, n \in 1 .. Len(avail) : avail[m] = avail[n] => m = n
    /\ req # NoReq => req.head \in DOMAIN sent \ Range(avail)

\* The walk is where the iovec says.
WalkInv ==
    /\ pc \in Working => req # NoReq
    /\ pc \notin Working \cup Dead => req = NoReq
    /\ tab \in [ptr : Nat, len : Nat]
    /\ pc \notin {"walk", "walked"} \cup Dead => tab = NoTab
    /\ tab.ptr # NULL => req # NoReq /\ tab.len = Len(Chain)
    /\ req # NoReq =>
           /\ req \in [head : Heads, iov : Seq([base : Nat, len : Nat]), out : Nat, in : Nat]
           /\ Len(req.iov) <= Len(Chain)
           /\ \A k \in 1 .. Len(req.iov) : req.iov[k].len = Chain[k].len
           /\ req.out + req.in = Len(req.iov)
           /\ req.in = Cardinality({k \in 1 .. Len(req.iov) : Chain[k].write})
           /\ pc \in {"walked", "work", "complete"} => Len(req.iov) = Len(Chain)
    /\ pc = "complete" => i \in 1 .. Len(req.iov)
    /\ pc = "walked" => tab.ptr # NULL
    /\ pc = "walk" =>
           /\ Len(req.iov) < Len(Chain)
           /\ IF desc[req.head].indirect THEN tab.ptr # NULL /\ idx = Len(req.iov)
              ELSE tab = NoTab /\ idx = sent[req.head].at[Len(req.iov) + 1]

\* The drivers of a guest use the kind of address it was found to use.
KindInv ==
    /\ pc # "bug"
    /\ drv # NoDrv =>
           /\ advance => ~drv.grant
           /\ use_gnttab >= 0 => drv.grant = (use_gnttab > 0)

Inv == LoopInv /\ ChainInv /\ WalkInv /\ MapInv

(***************************************************************************)
(* Constants                                                               *)
(***************************************************************************)

LEMMA Sizes ==
    /\ PageSize \in Nat \ {0} /\ FirstPage \in Nat \ {0} /\ Num \in Nat \ {0}
    /\ RingSize \in Nat \ {0}
    /\ Builds \subseteq BOOLEAN /\ SameModel \in BOOLEAN
    /\ Ram0Base \in Nat \ {0} /\ Ram0Size \in Nat \ {0} /\ Ram1Base \in Nat /\ TotPages \in Nat \ {0}
    /\ Ram1Base >= Ram0Base + Ram0Size
    /\ Guests \in Nat /\ Loads \in Nat
  BY GuestMemoryAssumption

LEMMA TheBanks ==
    /\ Len(Banks) \in 1 .. 2 /\ DOMAIN Banks = 1 .. Len(Banks)
    /\ \A b \in 1 .. Len(Banks) : Banks[b].base \in Nat /\ Banks[b].size \in Nat \ {0}
  <1>1. CASE TotPages <= Ram0Size
    BY <1>1, Sizes DEF Banks, demu_init_guest_ram
  <1>2. CASE ~ (TotPages <= Ram0Size)
    <2> DEFINE one == [base |-> Ram0Base, size |-> Ram0Size]
               two == [base |-> Ram1Base, size |-> TotPages - Ram0Size]
    <2>1. Banks = <<one, two>>
      BY <1>2 DEF Banks, demu_init_guest_ram
    <2>2. /\ one.base \in Nat /\ one.size \in Nat \ {0}
          /\ two.base \in Nat /\ two.size \in Nat \ {0}
      BY <1>2, Sizes
    <2> HIDE DEF one, two
    <2>3. Len(Banks) = 2 /\ DOMAIN Banks = 1 .. 2 /\ Banks[1] = one /\ Banks[2] = two
      BY <2>1
    <2> QED
      BY <2>2, <2>3
  <1> QED
    BY <1>1, <1>2

LEMMA Constant ==
    /\ Banks' = Banks
    /\ \A d : Rings(d)' = Rings(d')
  BY DEF Banks, demu_init_guest_ram, Rings

LEMMA ADriver ==
    ASSUME NEW d \in Drivers
    PROVE  /\ d.grant \in BOOLEAN /\ d.legacy \in BOOLEAN
           /\ d \in [grant : BOOLEAN, legacy : BOOLEAN, rings : Seq(Nat)]
           /\ Len(d.rings) = IF d.legacy THEN 1 ELSE 3
  <1>1. /\ d \in [grant : BOOLEAN, legacy : BOOLEAN, rings : Seq(Nat)]
        /\ Len(d.rings) = IF d.legacy THEN 1 ELSE 3
    BY GuestMemoryAssumption
  <1> QED
    BY <1>1

LEMMA TheRings ==
    ASSUME NEW d \in Drivers
    PROVE  /\ DOMAIN Rings(d) = 1 .. Len(Rings(d)) /\ Len(Rings(d)) \in 1 .. 3
           /\ \A k \in 1 .. Len(Rings(d)) :
                  /\ Rings(d)[k].at \in Nat /\ Rings(d)[k].size \in Nat \ {0}
                  /\ Buffer(Rings(d)[k].at, Rings(d)[k].size)
  <1>1. DOMAIN Rings(d) = 1 .. Len(Rings(d)) /\ Len(Rings(d)) \in 1 .. 3
    <2>1. CASE d.legacy
      BY <2>1 DEF Rings
    <2>2. CASE ~ d.legacy
      <3>1. Rings(d) = [k \in 1 .. 3 |-> [at |-> d.rings[k], size |-> PageSize]]
        BY <2>2 DEF Rings
      <3>2. DOMAIN Rings(d) = 1 .. 3
        BY <3>1
      <3>3. Len(Rings(d)) = 3
        BY <3>1
      <3> QED
        BY <3>2, <3>3
    <2> QED
      BY <2>1, <2>2
  <1>2. ASSUME NEW k \in 1 .. Len(Rings(d))
        PROVE  Buffer(Rings(d)[k].at, Rings(d)[k].size)
    BY <1>1, <1>2, GuestMemoryAssumption
  <1> QED
    BY <1>1, <1>2 DEF Buffer

LEMMA TheChain ==
    ASSUME NEW c \in Chains
    PROVE  /\ c \in Seq([at : Nat, len : Nat, write : BOOLEAN]) /\ Len(c) \in 2 .. Num
           /\ DOMAIN c = 1 .. Len(c)
           /\ \A k \in 1 .. Len(c) : c[k] \in [at : Nat, len : Nat, write : BOOLEAN]
           /\ \A k \in 1 .. Len(c) : Buffer(c[k].at, c[k].len)
           /\ Buffer(TableAt, Len(c)) /\ TableAt \in Nat
  <1>1. /\ c \in Seq([at : Nat, len : Nat, write : BOOLEAN]) /\ Len(c) \in 2 .. Num
        /\ \A k \in 1 .. Len(c) : Buffer(c[k].at, c[k].len)
        /\ Buffer(TableAt, Len(c))
    BY GuestMemoryAssumption
  <1>2. TableAt \in Nat
    BY <1>1 DEF Buffer
  <1>3. /\ DOMAIN c = 1 .. Len(c)
        /\ \A k \in 1 .. Len(c) : c[k] \in [at : Nat, len : Nat, write : BOOLEAN]
    <2> DEFINE Segs == [at : Nat, len : Nat, write : BOOLEAN]
    <2>1. c \in Seq(Segs)
      BY <1>1
    <2> HIDE DEF Segs
    <2>2. DOMAIN c = 1 .. Len(c) /\ \A k \in 1 .. Len(c) : c[k] \in Segs
      BY <2>1
    <2> QED
      BY <2>2 DEF Segs
  <1> QED
    BY <1>1, <1>2, <1>3

(***************************************************************************)
(* Bytes and pages                                                         *)
(***************************************************************************)

LEMMA Division ==
    ASSUME NEW a \in Nat, NEW d \in Nat \ {0}
    PROVE  a \div d \in Nat /\ (a % d) \in 0 .. d - 1 /\ a = (a \div d) * d + (a % d)
  <1>1. a = d * (a \div d) + (a % d)
    OBVIOUS
  <1>2. d * (a \div d) = (a \div d) * d
    OBVIOUS
  <1>3. a \div d \in Nat /\ (a % d) \in 0 .. d - 1
    OBVIOUS
  <1> QED
    BY <1>1, <1>2, <1>3

LEMMA Multiples ==
    ASSUME NEW q \in Nat, NEW p \in Nat, NEW d \in Nat \ {0}, q < p
    PROVE  q * d + d <= p * d
  <1>1. PICK k \in Nat : p = q + 1 + k
    <2>1. p - q - 1 \in Nat /\ p = q + 1 + (p - q - 1)
      OBVIOUS
    <2> QED
      BY <2>1
  <1>2. p * d = q * d + d + k * d
    BY <1>1
  <1>3. k * d \in Nat /\ q * d \in Nat
    OBVIOUS
  <1> QED
    BY <1>2, <1>3

LEMMA DivisionUnique ==
    ASSUME NEW q \in Nat, NEW d \in Nat \ {0}, NEW r \in 0 .. d - 1
    PROVE  (q * d + r) \div d = q /\ (q * d + r) % d = r
  <1> DEFINE a == q * d + r
             p == a \div d
             t == a % d
  <1>1. a \in Nat /\ q * d \in Nat
    OBVIOUS
  <1>2. p \in Nat /\ t \in 0 .. d - 1 /\ a = p * d + t
    BY <1>1, Division
  <1> HIDE DEF p, t
  <1>3. q * d + r = p * d + t
    BY <1>2
  <1>4. q * d \in Nat /\ p * d \in Nat
    BY <1>2
  <1>5. ~ (q < p)
    <2> SUFFICES ASSUME q < p PROVE FALSE
      OBVIOUS
    <2>1. q * d + d <= p * d
      BY <1>2, Multiples
    <2> QED
      BY <1>2, <1>3, <1>4, <2>1
  <1>6. ~ (p < q)
    <2> SUFFICES ASSUME p < q PROVE FALSE
      OBVIOUS
    <2>1. p * d + d <= q * d
      BY <1>2, Multiples
    <2> QED
      BY <1>2, <1>3, <1>4, <2>1
  <1>7. p = q
    BY <1>2, <1>5, <1>6
  <1>8. t = r
    BY <1>2, <1>3, <1>4, <1>7
  <1> QED
    BY <1>7, <1>8 DEF p, t

\* k bytes after byte a of a page: pages are counted from that page's first byte.
LEMMA PageAfter ==
    ASSUME NEW a \in Nat, NEW k \in Nat
    PROVE  /\ (a + k) \div PageSize = a \div PageSize + ((a % PageSize) + k) \div PageSize
           /\ (a + k) % PageSize = ((a % PageSize) + k) % PageSize
  <1> DEFINE d == PageSize
             q == a \div d
             r == a % d
             u == (r + k) \div d
             s == (r + k) % d
  <1>0. d \in Nat \ {0}
    BY Sizes
  <1> HIDE DEF d
  <1>1. q \in Nat /\ r \in 0 .. d - 1 /\ a = q * d + r
    BY <1>0, Division
  <1> HIDE DEF q, r
  <1>2. r + k \in Nat
    BY <1>0, <1>1
  <1>3. u \in Nat /\ s \in 0 .. d - 1 /\ r + k = u * d + s
    BY <1>0, <1>2, Division
  <1> HIDE DEF u, s
  <1>4. (q + u) * d = q * d + u * d /\ q * d \in Nat /\ u * d \in Nat /\ q + u \in Nat
    BY <1>0, <1>1, <1>3
  <1>5. a + k = (q + u) * d + s
    BY <1>0, <1>1, <1>2, <1>3, <1>4
  <1>6. ((q + u) * d + s) \div d = q + u /\ ((q + u) * d + s) % d = s
    BY <1>0, <1>3, <1>4, DivisionUnique
  <1> QED
    BY <1>5, <1>6 DEF d, q, r, u, s

LEMMA DivisionGrows ==
    ASSUME NEW a \in Nat, NEW b \in Nat, NEW d \in Nat \ {0}, a <= b
    PROVE  a \div d <= b \div d
  <1> DEFINE p == a \div d
             q == b \div d
             r == a % d
             s == b % d
  <1>1. p \in Nat /\ r \in 0 .. d - 1 /\ a = p * d + r
    BY Division
  <1>2. q \in Nat /\ s \in 0 .. d - 1 /\ b = q * d + s
    BY Division
  <1> HIDE DEF p, q, r, s
  <1>3. p * d \in Nat /\ q * d \in Nat
    BY <1>1, <1>2
  <1>4. ~ (q < p)
    <2> SUFFICES ASSUME q < p PROVE FALSE
      OBVIOUS
    <2>1. q * d + d <= p * d
      BY <1>1, <1>2, Multiples
    <2> QED
      BY <1>1, <1>2, <1>3, <2>1
  <1>5. p <= q
    BY <1>1, <1>2, <1>4
  <1> QED
    BY <1>5 DEF p, q

\* The last of the pages of a range is the one of its last byte.
LEMMA PagesOfRange ==
    ASSUME NEW at \in Nat, NEW size \in Nat \ {0}
    PROVE  /\ PageCount(at, size) \in Nat \ {0}
           /\ PageCount(at, size) = ((at % PageSize) + (size - 1)) \div PageSize + 1
  <1> DEFINE d == PageSize
             r == at % d
             b == r + (size - 1)
             q == b \div d
             s == b % d
  <1>0. d \in Nat \ {0}
    BY Sizes
  <1> HIDE DEF d
  <1>1. r \in 0 .. d - 1
    BY <1>0, Division
  <1> HIDE DEF r
  <1>2. b \in Nat /\ r + size + d - 1 = b + d
    BY <1>0, <1>1
  <1> HIDE DEF b
  <1>3. q \in Nat /\ s \in 0 .. d - 1 /\ b = q * d + s
    BY <1>0, <1>2, Division
  <1> HIDE DEF q, s
  <1>4. (q + 1) * d = q * d + d /\ q * d \in Nat /\ q + 1 \in Nat
    BY <1>0, <1>3
  <1>5. b + d = (q + 1) * d + s
    BY <1>0, <1>2, <1>3, <1>4
  <1>6. ((q + 1) * d + s) \div d = q + 1
    BY <1>0, <1>3, <1>4, DivisionUnique
  <1>7. (r + size + d - 1) \div d = q + 1
    BY <1>2, <1>5, <1>6
  <1>8. PageCount(at, size) = q + 1
    BY <1>7 DEF PageCount, d, r
  <1> QED
    BY <1>3, <1>8 DEF b, d, q, r

\* The page of byte k of a range is one of its pages.
LEMMA PageOfByte ==
    ASSUME NEW ptr \in Nat, NEW size \in Nat \ {0}, NEW k \in 0 .. size - 1
    PROVE  (ptr + k) \div PageSize \in HostPages(ptr, size)
  <1> DEFINE d == PageSize
             v == ptr \div d
             r == ptr % d
             q == (r + k) \div d
             z == (r + (size - 1)) \div d
  <1>0. d \in Nat \ {0}
    BY Sizes
  <1>1. v \in Nat /\ r \in 0 .. d - 1
    BY <1>0, Division
  <1>2. r + k \in Nat /\ r + (size - 1) \in Nat /\ r + k <= r + (size - 1)
    BY <1>1, <1>0
  <1>3. q \in Nat /\ z \in Nat
    BY <1>0, <1>2, Division
  <1>4. q <= z
    BY <1>0, <1>2, DivisionGrows
  <1>5. (ptr + k) \div PageSize = v + q
    BY PageAfter
  <1>6. PageCount(ptr, size) = z + 1
    BY PagesOfRange
  <1>7. HostPages(ptr, size) = v .. v + z + 1 - 1
    BY <1>1, <1>3, <1>6 DEF HostPages
  <1> HIDE DEF d, v, q, z
  <1> QED
    BY <1>1, <1>3, <1>4, <1>5, <1>7

\* The pages of a buffer at NULL are ones that are never mapped.
LEMMA PagesOfNull ==
    ASSUME NEW size \in Nat \ {0}, size <= FirstPage * PageSize
    PROVE  \A w \in HostPages(NULL, size) : w < FirstPage
  <1> DEFINE d == PageSize
             z == (size - 1) \div d
  <1>0. d \in Nat \ {0} /\ FirstPage \in Nat \ {0}
    BY Sizes
  <1>1. (0 \div d) = 0 /\ (0 % d) = 0
    <2>1. (0 * d + 0) \div d = 0 /\ (0 * d + 0) % d = 0
      BY <1>0, DivisionUnique
    <2>2. 0 * d + 0 = 0
      BY <1>0
    <2> QED
      BY <2>1, <2>2
  <1>2. z \in Nat /\ z * d <= size - 1 /\ z * d \in Nat
    <2>1. size - 1 \in Nat
      OBVIOUS
    <2>2. z \in Nat /\ (size - 1) % d \in 0 .. d - 1 /\ size - 1 = z * d + ((size - 1) % d)
      BY <1>0, <2>1, Division
    <2> HIDE DEF z, d
    <2>3. z * d \in Nat
      BY <1>0, <2>2
    <2> QED
      BY <1>0, <2>1, <2>2, <2>3
  <1>3. z < FirstPage
    <2> HIDE DEF z
    <2> SUFFICES ASSUME ~ (z < FirstPage) PROVE FALSE
      OBVIOUS
    <2>1. CASE z = FirstPage
      <3>1. z * d = FirstPage * PageSize
        BY <2>1
      <3>2. FirstPage * PageSize \in Nat
        BY <1>0
      <3> HIDE DEF d
      <3> QED
        BY <1>2, <3>1, <3>2
    <2>2. CASE FirstPage < z
      <3>1. FirstPage * d + d <= z * d
        BY <1>0, <1>2, <2>2, Multiples
      <3>2. FirstPage * d \in Nat /\ size <= FirstPage * d
        BY <1>0
      <3> HIDE DEF d
      <3> QED
        BY <1>0, <1>2, <3>1, <3>2
    <2> QED
      BY <1>0, <1>2, <2>1, <2>2
  <1>4. PageCount(0, size) = ((0 % PageSize) + (size - 1)) \div PageSize + 1
    BY PagesOfRange
  <1>5. (0 % PageSize) + (size - 1) = size - 1
    BY <1>1
  <1>6. PageCount(0, size) = z + 1
    BY <1>4, <1>5
  <1> HIDE DEF z
  <1>7. HostPages(NULL, size) = 0 .. 0 + (z + 1) - 1
    BY <1>1, <1>6 DEF HostPages, NULL
  <1> QED
    BY <1>0, <1>2, <1>3, <1>7

(***************************************************************************)
(* What is mapped                                                          *)
(***************************************************************************)

\* The pages of a range depend on its pointer as they do on its address.
LEMMA SameOffset ==
    ASSUME NEW p \in Nat, NEW a \in Nat, NEW size \in Nat \ {0}, p % PageSize = a % PageSize
    PROVE  PageCount(p, size) = PageCount(a, size)
  BY DEF PageCount

\* A range that is mapped has pages, and shows the bytes of the guest.
LEMMA BytesShown ==
    ASSUME NEW h, NEW r, Maps(h, r), NEW k \in 0 .. r.size - 1
    PROVE  LET v == (r.ptr + k) \div PageSize
           IN /\ v \in Pages(r) /\ v \in DOMAIN h
              /\ h[v].page = (r.at + k) \div PageSize
              /\ (r.ptr + k) % PageSize = (r.at + k) % PageSize
              /\ h[v].prot = r.prot
              /\ h[v].kind = IF r.grant THEN "grant" ELSE "foreign"
  <1> DEFINE v == (r.ptr + k) \div PageSize
             x == r.ptr \div PageSize
             y == r.at \div PageSize
             q == ((r.ptr % PageSize) + k) \div PageSize
  <1>1. /\ r.ptr \in Nat /\ r.at \in Nat /\ r.size \in Nat \ {0} /\ k \in Nat
        /\ r.ptr % PageSize = r.at % PageSize
    BY DEF Maps
  <1>2. v \in Pages(r)
    BY <1>1, PageOfByte DEF Pages
  <1>3. /\ v \in DOMAIN h
        /\ h[v] = [kind |-> IF r.grant THEN "grant" ELSE "foreign",
                   page |-> y + v - x, prot |-> r.prot]
    BY <1>2, Zenon DEF Maps
  <1>4. v = x + q /\ (r.ptr + k) % PageSize = ((r.ptr % PageSize) + k) % PageSize
    BY <1>1, PageAfter
  <1>5. (r.at + k) \div PageSize = y + q /\ (r.at + k) % PageSize = ((r.ptr % PageSize) + k) % PageSize
    <2>1. /\ (r.at + k) \div PageSize = y + ((r.at % PageSize) + k) \div PageSize
          /\ (r.at + k) % PageSize = ((r.at % PageSize) + k) % PageSize
      BY <1>1, PageAfter
    <2> QED
      BY <1>1, <2>1, Zenon
  <1>6. x \in Nat /\ y \in Nat /\ q \in Nat
    <2>1. PageSize \in Nat \ {0}
      BY Sizes
    <2>2. (r.ptr % PageSize) + k \in Nat
      BY <1>1, <2>1
    <2> QED
      BY <1>1, <2>1, <2>2, Division
  <1>7. (r.ptr + k) % PageSize = (r.at + k) % PageSize
    BY <1>4, <1>5
  <1> HIDE DEF v, x, y, q
  <1>8. y + v - x = y + q
    BY <1>4, <1>6
  <1>9. y + v - x = (r.at + k) \div PageSize
    BY <1>5, <1>8
  <1> QED
    BY <1>2, <1>3, <1>7, <1>9 DEF v

\* A range with a pointer other than NULL joins what is mapped.
LEMMA Joins ==
    ASSUME NEW h, NEW g, NEW L, NEW S, Parted(h, L, S), NEW a, NEW b, NEW r, Maps(g, r),
           Pages(r) \cap DOMAIN h = {},
           DOMAIN g = DOMAIN h \cup Pages(r), \A w \in DOMAIN h : g[w] = h[w],
           r.ptr \div PageSize \in Nat, r.ptr \div PageSize >= FirstPage,
           r.prot \in {"r", "w", "rw"}
    PROVE  Parted(g, L, S \cup {<<a, b, r>>})
  <1> DEFINE t == <<a, b, r>>
             T == S \cup {t}
  <1>0. t[3] = r
    OBVIOUS
  <1> HIDE DEF t
  <1>1. DOMAIN h = L \cup UNION {Pages(u[3]) : u \in S}
    BY DEF Parted
  <1>2. DOMAIN g = L \cup UNION {Pages(u[3]) : u \in T}
    BY <1>0, <1>1
  <1>3. ASSUME NEW u \in S PROVE Pages(u[3]) \subseteq DOMAIN h
    BY <1>1
  <1>4. \A u \in T : Pages(u[3]) \cap L = {}
    <2>1. Pages(r) \cap L = {}
      BY <1>1
    <2>2. \A u \in S : Pages(u[3]) \cap L = {}
      BY DEF Parted
    <2> QED
      BY <1>0, <2>1, <2>2
  <1>5. \A u, w \in T : u # w => Pages(u[3]) \cap Pages(w[3]) = {}
    <2>1. \A u, w \in S : u # w => Pages(u[3]) \cap Pages(w[3]) = {}
      BY DEF Parted
    <2>2. \A u \in S : Pages(u[3]) \cap Pages(t[3]) = {}
      BY <1>0, <1>3
    <2> QED
      BY <2>1, <2>2
  <1>6. \A u \in T : Maps(g, u[3])
    <2>1. ASSUME NEW u \in S PROVE Maps(g, u[3])
      <3>1. Maps(h, u[3])
        BY DEF Parted
      <3>2. \A w \in Pages(u[3]) : w \in DOMAIN g /\ g[w] = h[w]
        BY <1>3
      <3> QED
        BY <3>1, <3>2 DEF Maps
    <2> QED
      BY <1>0, <2>1
  <1>7. ASSUME NEW v \in DOMAIN g
        PROVE  /\ v \in Nat /\ v >= FirstPage
               /\ g[v].kind \in {"foreign", "grant"} /\ g[v].prot \in {"r", "w", "rw"}
    <2>1. CASE v \in DOMAIN h
      BY <2>1 DEF Parted
    <2>2. CASE v \in Pages(r)
      <3>1. g[v].kind \in {"foreign", "grant"} /\ g[v].prot \in {"r", "w", "rw"}
        BY <2>2 DEF Maps
      <3>2. v \in r.ptr \div PageSize .. (r.ptr \div PageSize) + PageCount(r.ptr, r.size) - 1
        BY <2>2 DEF Pages, HostPages
      <3>3. PageCount(r.ptr, r.size) \in Nat
        BY PagesOfRange DEF Maps
      <3>4. FirstPage \in Nat
        BY Sizes
      <3> QED
        BY <3>1, <3>2, <3>3, <3>4
    <2> QED
      BY <2>1, <2>2
  <1> QED
    BY <1>2, <1>4, <1>5, <1>6, <1>7 DEF Parted, t

\* A range leaves it.
LEMMA Leaves ==
    ASSUME NEW h, NEW L, NEW S, Parted(h, L, S), NEW t \in S
    PROVE  Parted([w \in DOMAIN h \ Pages(t[3]) |-> h[w]], L, S \ {t})
  <1> DEFINE g == [w \in DOMAIN h \ Pages(t[3]) |-> h[w]]
             T == S \ {t}
  <1>1. DOMAIN h = L \cup UNION {Pages(u[3]) : u \in S}
    BY DEF Parted
  <1>2. \A u \in T : Pages(u[3]) \cap Pages(t[3]) = {}
    BY DEF Parted
  <1>3. Pages(t[3]) \cap L = {} /\ \A u \in T : Pages(u[3]) \cap L = {}
    BY DEF Parted
  <1>4. DOMAIN g = DOMAIN h \ Pages(t[3]) /\ \A w \in DOMAIN g : g[w] = h[w]
    OBVIOUS
  <1> HIDE DEF g
  <1>5. DOMAIN g = L \cup UNION {Pages(u[3]) : u \in T}
    BY <1>1, <1>2, <1>3, <1>4
  <1>6. \A u, w \in T : u # w => Pages(u[3]) \cap Pages(w[3]) = {}
    BY DEF Parted
  <1>7. ASSUME NEW u \in T PROVE Maps(g, u[3])
    <2>1. Maps(h, u[3])
      BY DEF Parted
    <2>2. Pages(u[3]) \subseteq DOMAIN g
      BY <1>5
    <2> QED
      BY <1>4, <2>1, <2>2 DEF Maps
  <1>8. \A v \in DOMAIN g :
           /\ v \in Nat /\ v >= FirstPage
           /\ g[v].kind \in {"foreign", "grant"} /\ g[v].prot \in {"r", "w", "rw"}
    BY <1>4 DEF Parted
  <1> QED
    BY <1>3, <1>5, <1>6, <1>7, <1>8 DEF Parted, g

\* Ranges are lost.
LEMMA IsLost ==
    ASSUME NEW h, NEW L, NEW S, Parted(h, L, S), NEW T, T \subseteq S
    PROVE  Parted(h, L \cup UNION {Pages(t[3]) : t \in T}, S \ T)
  <1> DEFINE M == L \cup UNION {Pages(t[3]) : t \in T}
             U == S \ T
  <1>1. DOMAIN h = M \cup UNION {Pages(t[3]) : t \in U}
    <2>1. DOMAIN h = L \cup UNION {Pages(u[3]) : u \in S}
      BY DEF Parted
    <2> QED
      BY <2>1
  <1>2. ASSUME NEW u \in U PROVE Pages(u[3]) \cap M = {}
    <2>1. Pages(u[3]) \cap L = {}
      BY DEF Parted
    <2>2. \A t \in T : Pages(u[3]) \cap Pages(t[3]) = {}
      <3>1. \A t \in T : t \in S /\ u \in S /\ t # u
        OBVIOUS
      <3> QED
        BY <3>1 DEF Parted
    <2> QED
      BY <2>1, <2>2
  <1>3. \A t, u \in U : t # u => Pages(t[3]) \cap Pages(u[3]) = {}
    BY DEF Parted
  <1>4. \A t \in U : Maps(h, t[3])
    BY DEF Parted
  <1>5. \A v \in DOMAIN h :
           /\ v \in Nat /\ v >= FirstPage
           /\ h[v].kind \in {"foreign", "grant"} /\ h[v].prot \in {"r", "w", "rw"}
    BY DEF Parted
  <1> QED
    BY <1>1, <1>2, <1>3, <1>4, <1>5 DEF Parted

\* A buffer that could not be mapped has no page that is: to unmap it changes nothing.
LEMMA UnmapNull ==
    ASSUME NEW h, NEW L, NEW S, Parted(h, L, S),
           NEW size \in Nat \ {0}, size <= FirstPage * PageSize
    PROVE  DOMAIN h \ HostPages(NULL, size) = DOMAIN h
  <1>1. \A w \in HostPages(NULL, size) : w < FirstPage
    BY PagesOfNull
  <1>2. \A w \in DOMAIN h : w \in Nat /\ w >= FirstPage
    BY DEF Parted
  <1>3. FirstPage \in Nat
    BY Sizes
  <1> QED
    BY <1>1, <1>2, <1>3

LEMMA PartedSame ==
    ASSUME NEW h, NEW g, NEW L, NEW S, Parted(h, L, S),
           DOMAIN g = DOMAIN h, \A w \in DOMAIN h : g[w] = h[w]
    PROVE  Parted(g, L, S)
  <1>1. ASSUME NEW t \in S PROVE Maps(g, t[3])
    <2>1. Maps(h, t[3])
      BY DEF Parted
    <2> QED
      BY <2>1 DEF Maps
  <1>2. \A v \in DOMAIN g :
           /\ v \in Nat /\ v >= FirstPage
           /\ g[v].kind \in {"foreign", "grant"} /\ g[v].prot \in {"r", "w", "rw"}
    BY DEF Parted
  <1> QED
    BY <1>1, <1>2 DEF Parted

(***************************************************************************)
(* Mapping and unmapping                                                   *)
(***************************************************************************)

Addresses == [grant : BOOLEAN, at : Nat]

\* What demu_map_guest_range returns has the offset of the address, in pages where
\* nothing was mapped.
LEMMA MapRange ==
    ASSUME NEW addr \in Addresses, NEW size \in Nat \ {0}, NEW what,
           NEW ptr \in demu_map_guest_range(addr, size, what)
    PROVE  /\ ptr \in Nat
           /\ ptr # NULL =>
                  /\ ptr % PageSize = addr.at % PageSize
                  /\ ptr \div PageSize \in Nat /\ ptr \div PageSize >= FirstPage
                  /\ HostPages(ptr, size) \cap DOMAIN host = {}
                  /\ PageCount(ptr, size) = PageCount(addr.at, size)
  <1>1. addr.at \in Nat /\ PageSize \in Nat \ {0} /\ FirstPage \in Nat
    BY Sizes DEF Addresses
  <1> DEFINE n == PageCount(addr.at, size)
             o == addr.at % PageSize
  <1>2. n \in Nat \ {0} /\ o \in 0 .. PageSize - 1
    BY <1>1, PagesOfRange, Division
  <1>3. ptr = NULL \/ \E v \in Free(n) : ptr = v * PageSize + o
    BY DEF demu_map_guest_range
  <1> HIDE DEF n, o
  <1>4. CASE ptr = NULL
    BY <1>4 DEF NULL
  <1>5. ASSUME NEW v \in Free(n), ptr = v * PageSize + o
        PROVE  /\ ptr \in Nat /\ ptr % PageSize = o /\ ptr \div PageSize = v
               /\ v \in Nat /\ v >= FirstPage /\ (v .. v + n - 1) \cap DOMAIN host = {}
    <2>1. v \in Nat /\ v >= FirstPage /\ (v .. v + n - 1) \cap DOMAIN host = {}
      BY DEF Free
    <2>2. v * PageSize \in Nat
      BY <1>1, <2>1
    <2>3. (v * PageSize + o) \div PageSize = v /\ (v * PageSize + o) % PageSize = o
      BY <1>1, <1>2, <2>1, DivisionUnique
    <2>4. ptr \in Nat
      BY <1>2, <1>5, <2>2
    <2> QED
      BY <1>5, <2>1, <2>3, <2>4
  <1>6. ASSUME NEW v \in Free(n), ptr = v * PageSize + o
        PROVE  PageCount(ptr, size) = n /\ HostPages(ptr, size) = v .. v + n - 1
    <2>1. PageCount(ptr, size) = n
      BY <1>1, <1>5, <1>6, SameOffset DEF n, o
    <2> QED
      BY <1>5, <1>6, <2>1 DEF HostPages
  <1> QED
    BY <1>3, <1>4, <1>5, <1>6 DEF n, o

LEMMA MapStep ==
    ASSUME NEW addr \in Addresses, NEW size \in Nat \ {0}, NEW prot \in {"r", "w", "rw"}, NEW what,
           NEW ptr \in demu_map_guest_range(addr, size, what), Mapped(ptr, addr, size, prot),
           NEW L, NEW S, Parted(host, L, S), NEW a, NEW b,
           ptr # NULL, (use_gnttab' > 0) = addr.grant
    PROVE  Parted(host', L,
                  S \cup {<<a, b, [ptr |-> ptr, at |-> addr.at, size |-> size, prot |-> prot,
                                   grant |-> addr.grant]>>})
  <1> DEFINE r == [ptr |-> ptr, at |-> addr.at, size |-> size, prot |-> prot, grant |-> addr.grant]
             v == ptr \div PageSize
             page(w) == [kind |-> IF use_gnttab' > 0 THEN "grant" ELSE "foreign",
                         page |-> (addr.at \div PageSize) + w - v, prot |-> prot]
             new == v .. v + PageCount(addr.at, size) - 1
  <1>1. /\ ptr \in Nat /\ ptr % PageSize = addr.at % PageSize
        /\ v \in Nat /\ v >= FirstPage
        /\ HostPages(ptr, size) \cap DOMAIN host = {}
        /\ PageCount(ptr, size) = PageCount(addr.at, size)
    BY MapRange
  <1>2. r.ptr = ptr /\ r.at = addr.at /\ r.size = size /\ r.prot = prot /\ r.grant = addr.grant
    OBVIOUS
  <1>3. Pages(r) = new
    BY <1>1, <1>2 DEF Pages, HostPages
  <1>4. host' = [w \in DOMAIN host \cup new |-> IF w \in DOMAIN host THEN host[w] ELSE page(w)]
    BY DEF Mapped
  <1> HIDE DEF r
  <1>5. Pages(r) \cap DOMAIN host = {}
    BY <1>1, <1>2 DEF Pages
  <1>6. /\ DOMAIN host' = DOMAIN host \cup Pages(r)
        /\ \A w \in DOMAIN host : host'[w] = host[w]
        /\ \A w \in Pages(r) : w \in DOMAIN host' /\ host'[w] = page(w)
    <2> HIDE DEF page, new
    <2> QED
      BY <1>3, <1>4, <1>5
  <1>7. Maps(host', r)
    <2>1. r.ptr \in Nat /\ r.at \in Nat /\ r.size \in Nat \ {0} /\ r.ptr % PageSize = r.at % PageSize
      BY <1>1, <1>2 DEF Addresses
    <2>2. \A w \in Pages(r) :
              page(w) = [kind |-> IF r.grant THEN "grant" ELSE "foreign",
                         page |-> (r.at \div PageSize) + w - (r.ptr \div PageSize), prot |-> r.prot]
      BY <1>2
    <2> HIDE DEF page
    <2> QED
      BY <1>6, <2>1, <2>2 DEF Maps
  <1>8. r.ptr \div PageSize \in Nat /\ r.ptr \div PageSize >= FirstPage /\ r.prot \in {"r", "w", "rw"}
    BY <1>1, <1>2
  <1>9. Parted(host', L, S \cup {<<a, b, r>>})
    BY <1>5, <1>6, <1>7, <1>8, Joins
  <1> QED
    BY <1>9 DEF r

LEMMA UnmapStep ==
    ASSUME NEW L, NEW S, Parted(host, L, S), NEW r, r.size \in Nat \ {0},
           demu_unmap_guest_range(r.ptr, r.size), NEW a, NEW b
    PROVE  /\ r.ptr = NULL /\ r.size <= FirstPage * PageSize => Parted(host', L, S)
           /\ <<a, b, r>> \in S => Parted(host', L, S \ {<<a, b, r>>})
  <1>1. host' = [w \in DOMAIN host \ Pages(r) |-> host[w]]
    BY DEF demu_unmap_guest_range, Pages
  <1>2. ASSUME r.ptr = NULL, r.size <= FirstPage * PageSize PROVE Parted(host', L, S)
    <2>1. DOMAIN host \ Pages(r) = DOMAIN host
      BY <1>2, UnmapNull DEF Pages
    <2>2. DOMAIN host' = DOMAIN host /\ \A w \in DOMAIN host : host'[w] = host[w]
      BY <1>1, <2>1
    <2> QED
      BY <2>2, PartedSame
  <1>3. ASSUME <<a, b, r>> \in S PROVE Parted(host', L, S \ {<<a, b, r>>})
    <2> DEFINE t == <<a, b, r>>
    <2>1. t \in S /\ t[3] = r
      BY <1>3
    <2> HIDE DEF t
    <2>2. Parted([w \in DOMAIN host \ Pages(t[3]) |-> host[w]], L, S \ {t})
      BY <2>1, Leaves
    <2>3. Parted(host', L, S \ {t})
      BY <1>1, <2>1, <2>2, Zenon
    <2> QED
      BY <2>3 DEF t
  <1> QED
    BY <1>2, <1>3

\* demu_get_host_addr: a buffer that begins in a bank ends in it.
LEMMA GetHostAddr ==
    ASSUME host_addr \in [1 .. 2 -> Nat], NEW addr \in Addresses, ~ addr.grant,
           NEW size \in Nat \ {0}, Buffer(addr.at, size), NEW prot
    PROVE  /\ demu_get_host_addr(addr) \in Nat
           /\ demu_get_host_addr(addr) # NULL =>
                  ThroughBank([ptr |-> demu_get_host_addr(addr), at |-> addr.at, size |-> size,
                               prot |-> prot, grant |-> addr.grant])
  <1> DEFINE ptr == demu_get_host_addr(addr)
             r == [ptr |-> ptr, at |-> addr.at, size |-> size, prot |-> prot, grant |-> addr.grant]
             banks == {b \in DOMAIN Banks : host_addr[b] # NULL /\ InBank(addr.at, b)}
             b == CHOOSE x \in banks : TRUE
  <1>1. ptr = IF banks = {} THEN NULL ELSE host_addr[b] + (addr.at - Banks[b].base * PageSize)
    BY DEF demu_get_host_addr, Banks
  <1>2. CASE banks = {}
    <2>1. ptr = NULL
      BY <1>1, <1>2
    <2> QED
      BY <2>1 DEF NULL
  <1>3. CASE banks # {}
    <2>1. b \in banks
      BY <1>3
    <2> HIDE DEF banks, b
    <2>2. ptr = host_addr[b] + (addr.at - Banks[b].base * PageSize)
      BY <1>1, <1>3
    <2>3. b \in DOMAIN Banks /\ host_addr[b] # NULL /\ InBank(addr.at, b)
      BY <2>1 DEF banks
    <2>4. b \in 1 .. 2 /\ Banks[b].base \in Nat /\ host_addr[b] \in Nat /\ addr.at \in Nat
      BY <2>3, TheBanks DEF Addresses
    <2>5. Banks[b].base * PageSize <= addr.at
      BY <2>3 DEF InBank, Banks
    <2>6. ptr \in Nat
      <3>1. Banks[b].base * PageSize \in Nat
        BY <2>4, Sizes
      <3> HIDE DEF ptr
      <3> QED
        BY <2>2, <2>4, <2>5, <3>1
    <2>7. InBank(addr.at + size - 1, b)
      BY <2>3 DEF Buffer, Banks
    <2> HIDE DEF ptr
    <2>8. /\ r.ptr = ptr /\ r.at = addr.at /\ r.size = size /\ ~ r.grant
      OBVIOUS
    <2> HIDE DEF r
    <2>9. ThroughBank(r)
      BY <2>2, <2>3, <2>4, <2>7, <2>8 DEF ThroughBank
    <2> QED
      BY <2>6, <2>9 DEF ptr, r
  <1> QED
    BY <1>2, <1>3

\* Through a bank a range shows its bytes as well.
LEMMA BankShows ==
    ASSUME NEW r, ThroughBank(r), NEW k \in 0 .. r.size - 1,
           host_addr \in [1 .. 2 -> Nat],
           \A b \in 1 .. 2 : host_addr[b] # NULL => Maps(host, RamRange(b))
    PROVE  LET v == (r.ptr + k) \div PageSize
           IN /\ v \in DOMAIN host
              /\ host[v].page = (r.at + k) \div PageSize
              /\ (r.ptr + k) % PageSize = (r.at + k) % PageSize
              /\ host[v].prot = "rw" /\ host[v].kind = "foreign"
  <1>1. PICK b \in DOMAIN Banks :
            /\ host_addr[b] # NULL
            /\ r.at \in Nat /\ r.size \in Nat \ {0}
            /\ InBank(r.at, b) /\ InBank(r.at + r.size - 1, b)
            /\ r.ptr = host_addr[b] + (r.at - Banks[b].base * PageSize)
            /\ ~ r.grant
    BY DEF ThroughBank
  <1>2. /\ b \in 1 .. 2 /\ Banks[b].base \in Nat /\ Banks[b].size \in Nat \ {0}
        /\ host_addr[b] \in Nat /\ PageSize \in Nat \ {0}
    <2>1. b \in 1 .. 2 /\ Banks[b].base \in Nat /\ Banks[b].size \in Nat \ {0}
      BY TheBanks
    <2> QED
      BY <2>1, Sizes
  <1> DEFINE B == RamRange(b)
             z == Banks[b].base * PageSize
             s == Banks[b].size * PageSize
             j == r.at - z + k
  <1>3. B.ptr = host_addr[b] /\ B.at = z /\ B.size = s /\ B.prot = "rw" /\ B.grant = FALSE
    BY DEF RamRange
  <1>4. Maps(host, B)
    BY <1>1, <1>2
  <1> HIDE DEF B
  <1>5. z \in Nat /\ s \in Nat /\ (Banks[b].base + Banks[b].size) * PageSize = z + s
    BY <1>2
  <1>6. z <= r.at /\ r.at + r.size - 1 < z + s
    BY <1>1, <1>5 DEF InBank, Banks
  <1>7. r.ptr = host_addr[b] + (r.at - z)
    BY <1>1
  <1> HIDE DEF z, s
  <1>8. j \in 0 .. s - 1 /\ r.ptr + k = host_addr[b] + j /\ r.at + k = z + j
    BY <1>1, <1>2, <1>5, <1>6, <1>7
  <1> HIDE DEF j
  <1>9. j \in 0 .. B.size - 1 /\ r.ptr + k = B.ptr + j /\ r.at + k = B.at + j
    BY <1>3, <1>8
  <1>10. LET v == (B.ptr + j) \div PageSize
         IN /\ v \in Pages(B) /\ v \in DOMAIN host
            /\ host[v].page = (B.at + j) \div PageSize
            /\ (B.ptr + j) % PageSize = (B.at + j) % PageSize
            /\ host[v].prot = B.prot
            /\ host[v].kind = IF B.grant THEN "grant" ELSE "foreign"
    BY <1>4, <1>9, BytesShown
  <1> QED
    BY <1>3, <1>9, <1>10, Zenon

\* A step that reaches a buffer: through a bank, or by mapping it.
LEMMA ReachStep ==
    ASSUME advance \in BOOLEAN, use_gnttab \in {-1, 0, 1}, advance => use_gnttab = -1,
           host_addr \in [1 .. 2 -> Nat],
           NEW addr \in Addresses, NEW size \in Nat \ {0}, Buffer(addr.at, size),
           NEW prot \in {"r", "w", "rw"}, NEW what,
           NEW ptr \in Reachable(addr, size, what), Reach(ptr, addr, size, prot)
    PROVE  LET r == [ptr |-> ptr, at |-> addr.at, size |-> size, prot |-> prot,
                     grant |-> addr.grant]
           IN /\ ptr \in Nat /\ (Asserts(addr) => ptr = NULL)
              /\ use_gnttab' \in {-1, 0, 1} /\ (advance => use_gnttab' = -1)
              /\ advance \/ ptr = NULL => host' = host
              /\ advance /\ ptr # NULL => ThroughBank(r)
              /\ ~ advance /\ ptr # NULL =>
                     \A L, S, a, b : Parted(host, L, S) => Parted(host', L, S \cup {<<a, b, r>>})
  <1> DEFINE r == [ptr |-> ptr, at |-> addr.at, size |-> size, prot |-> prot, grant |-> addr.grant]
  <1>0. addr.grant \in BOOLEAN
    BY DEF Addresses
  <1>1. use_gnttab' = demu_detect_mappings_model(addr)
    BY DEF Reach
  <1>2. use_gnttab' \in {-1, 0, 1} /\ (advance => use_gnttab' = -1)
    BY <1>0, <1>1 DEF demu_detect_mappings_model
  <1>3. CASE Asserts(addr)
    <2>1. ptr = NULL
      BY <1>3 DEF Reachable
    <2>2. host' = host
      BY <2>1 DEF Reach, Mapped
    <2> QED
      BY <1>2, <2>1, <2>2 DEF NULL
  <1>4. CASE ~ Asserts(addr) /\ advance
    <2>1. ~ addr.grant
      BY <1>4 DEF Asserts
    <2>2. ptr = demu_get_host_addr(addr)
      BY <1>4 DEF Reachable
    <2>3. ptr \in Nat /\ (ptr # NULL => ThroughBank(r))
      BY <2>1, <2>2, GetHostAddr
    <2>4. host' = host
      BY <1>4 DEF Reach
    <2> QED
      BY <1>2, <1>4, <2>3, <2>4
  <1>5. CASE ~ Asserts(addr) /\ ~ advance
    <2>1. (demu_detect_mappings_model(addr) > 0) = addr.grant
      BY <1>5, <1>0 DEF Asserts
    <2>2. ptr \in demu_map_guest_range(addr, size, what)
      BY <1>5 DEF Reachable
    <2>3. Mapped(ptr, addr, size, prot)
      BY <1>5 DEF Reach
    <2>4. ptr \in Nat
      BY <2>2, MapRange
    <2>5. ptr = NULL => host' = host
      BY <2>3 DEF Mapped
    <2>6. (use_gnttab' > 0) = addr.grant
      BY <1>1, <2>1, Zenon
    <2>7. ASSUME ptr # NULL, NEW L, NEW S, NEW a, NEW b, Parted(host, L, S)
          PROVE  Parted(host', L, S \cup {<<a, b, r>>})
      BY <2>2, <2>3, <2>6, <2>7, MapStep
    <2> HIDE DEF r
    <2> QED
      BY <1>2, <1>5, <2>4, <2>5, <2>7 DEF r
  <1> QED
    BY <1>3, <1>4, <1>5

(***************************************************************************)
(* Loops, rings and banks                                                  *)
(***************************************************************************)

\* What a ring needs of its driver.
LEMMA ARing ==
    ASSUME drv \in Drivers, NEW k \in 1 .. Len(Rings(drv))
    PROVE  LET r == Rings(drv)[k]
           IN /\ Addr(drv, r.at) \in Addresses /\ Addr(drv, r.at).at = r.at
              /\ Addr(drv, r.at).grant = drv.grant
              /\ r.size \in Nat \ {0} /\ Buffer(r.at, r.size)
  BY ADriver, TheRings DEF Addr, Addresses

LEMMA LoopInit == Init => LoopInv
  <1> SUFFICES ASSUME Init PROVE LoopInv
    OBVIOUS
  <1>1. Types
    BY Sizes DEF Init, Types, NULL
  <1>2. RamInv
    BY DEF Init, RamInv, NULL
  <1>3. RingInv
    BY DEF Init, RingInv
  <1> QED
    BY <1>1, <1>2, <1>3 DEF LoopInv

LEMMA LoopGuests ==
    LoopInv /\ (demu_initialize \/ demu_deinitialize) => LoopInv'
  <1>1. ASSUME LoopInv, demu_initialize PROVE LoopInv'
    <2>1. /\ pc = "off" /\ pc' = (IF advance THEN "map_ram" ELSE "run")
          /\ loads' = 0 /\ guests' = guests + 1 /\ guests < Guests /\ use_gnttab' = -1
          /\ advance' = advance /\ host_addr' = host_addr /\ ring' = ring /\ drv' = drv /\ i' = i
          /\ sent' = sent
      BY <1>1 DEF demu_initialize, guestVars
    <2>2. Types /\ RamInv /\ RingInv
      BY <1>1 DEF LoopInv
    <2>3. Types'
      <3>1. guests' \in 0 .. Guests /\ loads' \in 0 .. Loads
        BY <2>1, <2>2, Sizes DEF Types
      <3>2. pc' \in {"map_ram", "run"} /\ use_gnttab' = -1
        BY <2>1
      <3> QED
        BY <2>1, <2>2, <3>1, <3>2 DEF Types, Loops
    <2>0. i = 1
      BY <2>1, <2>2 DEF RingInv
    <2>4. RamInv'
      <3>1. /\ \A b \in 1 .. 2 : b > Len(Banks) \/ ~advance => host_addr[b] = NULL
            /\ \A b \in 1 .. 2 : host_addr[b] = NULL
        BY <2>1, <2>2 DEF RamInv
      <3>2. 1 \in 1 .. Len(Banks)
        BY TheBanks
      <3>3. pc' # "unmap_ram" /\ pc' # "off"
        BY <2>1
      <3>4. pc' = "map_ram" => advance
        BY <2>1
      <3> QED
        BY <2>0, <2>1, <3>1, <3>2, <3>3, <3>4, Constant DEF RamInv
    <2>5. drv' = NoDrv
      BY <2>1, <2>2 DEF RingInv
    <2>6. RingInv'
      BY <2>1, <2>2, <2>5 DEF RingInv
    <2> QED
      BY <2>3, <2>4, <2>6 DEF LoopInv
  <1>2. ASSUME LoopInv, demu_deinitialize PROVE LoopInv'
    <2>1. /\ pc = "run" /\ drv = NoDrv /\ pc' = (IF advance THEN "unmap_ram" ELSE "off")
          /\ loads' = loads /\ guests' = guests /\ use_gnttab' = use_gnttab
          /\ advance' = advance /\ host_addr' = host_addr /\ ring' = ring /\ drv' = drv /\ i' = i
          /\ sent' = sent
      BY <1>2 DEF demu_deinitialize, guestVars, hostVars, countVars
    <2>2. Types /\ RamInv /\ RingInv
      BY <1>2 DEF LoopInv
    <2>3. Types'
      BY <2>1, <2>2 DEF Types, Loops
    <2>0. i = 1
      BY <2>1, <2>2 DEF RingInv
    <2>4. RamInv'
      <3>1. \A b \in 1 .. 2 : b > Len(Banks) \/ ~advance => host_addr[b] = NULL
        BY <2>2 DEF RamInv
      <3>2. /\ pc' = "unmap_ram" => advance
            /\ pc' = "off" => ~advance
            /\ pc' # "map_ram"
        BY <2>1
      <3>3. 1 \in 1 .. 2 /\ 1 .. 1 - 1 = {}
        OBVIOUS
      <3> QED
        BY <2>0, <2>1, <3>1, <3>2, <3>3, Constant DEF RamInv
    <2>6. RingInv'
      BY <2>1, <2>2 DEF RingInv
    <2> QED
      BY <2>3, <2>4, <2>6 DEF LoopInv
  <1> QED
    BY <1>1, <1>2

\* Bank i of the guest's memory as demu_map_guest_ram gets it.
LEMMA ABank ==
    ASSUME NEW b \in 1 .. Len(Banks)
    PROVE  /\ Addr(NoDrv, Banks[b].base * PageSize) \in Addresses
           /\ Addr(NoDrv, Banks[b].base * PageSize).at = Banks[b].base * PageSize
           /\ Addr(NoDrv, Banks[b].base * PageSize).grant = FALSE
           /\ Banks[b].size * PageSize \in Nat \ {0}
  <1>1. Banks[b].base \in Nat /\ Banks[b].size \in Nat \ {0} /\ PageSize \in Nat \ {0}
    BY TheBanks, Sizes
  <1>2. Banks[b].base * PageSize \in Nat /\ Banks[b].size * PageSize \in Nat \ {0}
    <2> DEFINE x == Banks[b].base
               y == Banks[b].size
    <2>1. x \in Nat /\ y \in Nat \ {0}
      BY <1>1
    <2> HIDE DEF x, y
    <2>2. x * PageSize \in Nat /\ y * PageSize \in Nat
      BY <1>1, <2>1
    <2>3. 0 * PageSize + PageSize <= y * PageSize
      BY <1>1, <2>1, Multiples
    <2>4. y * PageSize # 0
      BY <1>1, <2>2, <2>3
    <2> QED
      BY <2>2, <2>4 DEF x, y
  <1> QED
    BY <1>2 DEF Addr, NoDrv, Addresses

LEMMA MapRamFacts ==
    ASSUME LoopInv, demu_map_guest_ram
    PROVE  /\ pc = "map_ram" /\ advance /\ use_gnttab = -1
           /\ i \in 1 .. Len(Banks) /\ i \in 1 .. 2 /\ Len(Banks) \in 1 .. 2
           /\ host_addr \in [1 .. 2 -> Nat] /\ drv = NoDrv
           /\ \A b \in i .. 2 : host_addr[b] = NULL
           /\ UNCHANGED <<use_gnttab, advance, ring, guestVars, reqVars, lost, countVars>>
           /\ \E ptr \in demu_map_guest_range(Addr(NoDrv, Banks[i].base * PageSize),
                                              Banks[i].size * PageSize, "ram") :
                  /\ Mapped(ptr, Addr(NoDrv, Banks[i].base * PageSize),
                            Banks[i].size * PageSize, "rw")
                  /\ ptr \in Nat
                  /\ host_addr' = [host_addr EXCEPT ![i] = ptr]
                  /\ IF ptr = NULL THEN i' = 1 /\ pc' = "unmap_ram"
                     ELSE IF i < Len(Banks) THEN i' = i + 1 /\ pc' = pc ELSE i' = 1 /\ pc' = "run"
  <1>1. pc = "map_ram" /\ Types /\ RamInv /\ RingInv
    BY DEF LoopInv, demu_map_guest_ram
  <1>2. /\ advance /\ i \in 1 .. Len(Banks) /\ Len(Banks) \in 1 .. 2
        /\ \A b \in i .. 2 : host_addr[b] = NULL
    BY <1>1, TheBanks DEF RamInv
  <1>3. drv = NoDrv
    BY <1>1 DEF RingInv
  <1>4. host_addr \in [1 .. 2 -> Nat] /\ use_gnttab = -1
    BY <1>1, <1>2 DEF Types
  <1>5. UNCHANGED <<use_gnttab, advance, ring, guestVars, reqVars, lost, countVars>>
    BY DEF demu_map_guest_ram
  <1>6. PICK ptr \in demu_map_guest_range(Addr(NoDrv, Banks[i].base * PageSize),
                                          Banks[i].size * PageSize, "ram") :
            /\ Mapped(ptr, Addr(NoDrv, Banks[i].base * PageSize), Banks[i].size * PageSize, "rw")
            /\ host_addr' = [host_addr EXCEPT ![i] = ptr]
            /\ IF ptr = NULL THEN i' = 1 /\ pc' = "unmap_ram" ELSE Iterate(Len(Banks), "run")
    BY DEF demu_map_guest_ram, Banks
  <1>7. ptr \in Nat
    BY <1>2, <1>6, ABank, MapRange
  <1>8. IF ptr = NULL THEN i' = 1 /\ pc' = "unmap_ram"
        ELSE IF i < Len(Banks) THEN i' = i + 1 /\ pc' = pc ELSE i' = 1 /\ pc' = "run"
    BY <1>6 DEF Iterate
  <1>9. i \in 1 .. 2
    BY <1>2
  <1> QED
    BY <1>1, <1>2, <1>3, <1>4, <1>5, <1>6, <1>7, <1>8, <1>9

LEMMA LoopMapRam ==
    LoopInv /\ demu_map_guest_ram => LoopInv'
  <1> SUFFICES ASSUME LoopInv, demu_map_guest_ram PROVE LoopInv'
    OBVIOUS
  <1>1. /\ pc = "map_ram" /\ advance /\ i \in 1 .. Len(Banks) /\ i \in 1 .. 2 /\ Len(Banks) \in 1 .. 2
        /\ host_addr \in [1 .. 2 -> Nat] /\ drv = NoDrv
        /\ \A b \in i .. 2 : host_addr[b] = NULL
    BY MapRamFacts
  <1>2. PICK ptr \in Nat :
            /\ host_addr' = [host_addr EXCEPT ![i] = ptr]
            /\ IF ptr = NULL THEN i' = 1 /\ pc' = "unmap_ram"
               ELSE IF i < Len(Banks) THEN i' = i + 1 /\ pc' = pc ELSE i' = 1 /\ pc' = "run"
    BY MapRamFacts
  <1>3. /\ use_gnttab' = use_gnttab /\ advance' = advance /\ ring' = ring /\ drv' = drv
        /\ sent' = sent /\ guests' = guests /\ loads' = loads
    BY MapRamFacts DEF guestVars, countVars
  <1>4. host_addr' \in [1 .. 2 -> Nat]
    BY <1>1, <1>2
  <1>5. \A b \in 1 .. 2 : host_addr'[b] = IF b = i THEN ptr ELSE host_addr[b]
    BY <1>1, <1>2
  <1>6. Types /\ RamInv /\ RingInv
    BY DEF LoopInv
  <1>7. pc' \in {"map_ram", "unmap_ram", "run"}
    BY <1>1, <1>2
  <1>8. Types'
    BY <1>3, <1>4, <1>6, <1>7 DEF Types, Loops
  <1>9. RamInv'
    BY <1>1, <1>2, <1>3, <1>5, <1>6, Constant DEF RamInv
  <1>10. pc' = "run" => i' = 1
    BY <1>1, <1>2
  <1>11. RingInv'
    BY <1>1, <1>3, <1>6, <1>7, <1>10 DEF RingInv
  <1> QED
    BY <1>8, <1>9, <1>11 DEF LoopInv

LEMMA UnmapRamFacts ==
    ASSUME LoopInv, demu_unmap_guest_ram
    PROVE  /\ pc = "unmap_ram" /\ advance /\ i \in 1 .. 2
           /\ host_addr \in [1 .. 2 -> Nat] /\ drv = NoDrv
           /\ \A b \in 1 .. i - 1 : host_addr[b] = NULL
           /\ UNCHANGED <<use_gnttab, advance, ring, guestVars, reqVars, lost, countVars>>
           /\ host_addr' = [host_addr EXCEPT ![i] = NULL]
           /\ IF i < 2 THEN i' = i + 1 /\ pc' = pc ELSE i' = 1 /\ pc' = "off"
           /\ IF host_addr[i] = NULL THEN UNCHANGED host
              ELSE demu_unmap_guest_range(host_addr[i], Banks[i].size * PageSize)
  <1>1. pc = "unmap_ram" /\ Types /\ RamInv /\ RingInv
    BY DEF LoopInv, demu_unmap_guest_ram
  <1>2. /\ advance /\ i \in 1 .. 2
        /\ \A b \in 1 .. i - 1 : host_addr[b] = NULL
    BY <1>1 DEF RamInv
  <1>3. drv = NoDrv
    BY <1>1 DEF RingInv
  <1>4. host_addr \in [1 .. 2 -> Nat]
    BY <1>1 DEF Types
  <1>5. Len(host_addr) = 2
    <2>1. host_addr \in Seq(Nat)
      BY <1>4, SeqDef
    <2>2. DOMAIN host_addr = 1 .. Len(host_addr) /\ Len(host_addr) \in Nat
      BY <2>1, LenProperties
    <2>3. DOMAIN host_addr = 1 .. 2
      BY <1>4, Zenon
    <2>4. \A n \in Nat : 1 .. n = 1 .. 2 => n = 2
      <3> SUFFICES ASSUME NEW n \in Nat, 1 .. n = 1 .. 2 PROVE n = 2
        OBVIOUS
      <3>1. 2 \in 1 .. n /\ ~ (3 \in 1 .. n)
        OBVIOUS
      <3> QED
        BY <3>1
    <2> QED
      BY <2>2, <2>3, <2>4, Zenon
  <1>6. /\ UNCHANGED <<use_gnttab, advance, ring, guestVars, reqVars, lost, countVars>>
        /\ host_addr' = [host_addr EXCEPT ![i] = NULL]
        /\ Iterate(Len(host_addr), "off")
        /\ IF host_addr[i] = NULL THEN UNCHANGED host
           ELSE demu_unmap_guest_range(host_addr[i], Banks[i].size * PageSize)
    BY DEF demu_unmap_guest_ram, Banks
  <1>7. IF i < 2 THEN i' = i + 1 /\ pc' = pc ELSE i' = 1 /\ pc' = "off"
    BY <1>5, <1>6 DEF Iterate
  <1> QED
    BY <1>1, <1>2, <1>3, <1>4, <1>6, <1>7

LEMMA LoopUnmapRam ==
    LoopInv /\ demu_unmap_guest_ram => LoopInv'
  <1> SUFFICES ASSUME LoopInv, demu_unmap_guest_ram PROVE LoopInv'
    OBVIOUS
  <1>1. /\ pc = "unmap_ram" /\ advance /\ i \in 1 .. 2
        /\ host_addr \in [1 .. 2 -> Nat] /\ drv = NoDrv
        /\ \A b \in 1 .. i - 1 : host_addr[b] = NULL
        /\ host_addr' = [host_addr EXCEPT ![i] = NULL]
        /\ IF i < 2 THEN i' = i + 1 /\ pc' = pc ELSE i' = 1 /\ pc' = "off"
    BY UnmapRamFacts
  <1>2. /\ use_gnttab' = use_gnttab /\ advance' = advance /\ ring' = ring /\ drv' = drv
        /\ sent' = sent /\ guests' = guests /\ loads' = loads
    BY UnmapRamFacts DEF guestVars, countVars
  <1>3. host_addr' \in [1 .. 2 -> Nat]
    BY <1>1 DEF NULL
  <1>4. \A b \in 1 .. 2 : host_addr'[b] = IF b = i THEN NULL ELSE host_addr[b]
    BY <1>1
  <1>5. Types /\ RamInv /\ RingInv
    BY DEF LoopInv
  <1>6. pc' \in {"unmap_ram", "off"} /\ (pc' = "off" => i' = 1)
    BY <1>1
  <1>7. Types'
    BY <1>2, <1>3, <1>5, <1>6 DEF Types, Loops
  <1>8. RamInv'
    BY <1>1, <1>2, <1>4, <1>5, Constant DEF RamInv
  <1>9. RingInv'
    BY <1>1, <1>2, <1>5, <1>6 DEF RingInv
  <1> QED
    BY <1>7, <1>8, <1>9 DEF LoopInv

LEMMA NoDriver ==
    NoDrv \notin Drivers
  <1>1. ASSUME NoDrv \in Drivers PROVE FALSE
    <2>1. Len(NoDrv.rings) = IF NoDrv.legacy THEN 1 ELSE 3
      BY <1>1, ADriver
    <2>2. Len(NoDrv.rings) = 0
      BY DEF NoDrv
    <2> QED
      BY <2>1, <2>2
  <1> QED
    BY <1>1

LEMMA LoopLoad ==
    ASSUME NEW d \in Drivers, LoopInv, virtio_init_device_vq(d)
    PROVE  LoopInv'
  <1>1. Types /\ RamInv /\ RingInv
    BY DEF LoopInv
  <1>2. /\ pc = "run" /\ drv = NoDrv /\ loads < Loads /\ drv' = d /\ loads' = loads + 1
        /\ pc' = "map_ring" /\ d # NoDrv
        /\ use_gnttab' = use_gnttab /\ advance' = advance /\ ring' = ring /\ i' = i
        /\ sent' = sent /\ guests' = guests /\ host_addr' = host_addr
    BY NoDriver DEF virtio_init_device_vq, hostVars
  <1>3. i = 1 /\ ring = <<>> /\ sent = <<>>
    BY <1>1, <1>2 DEF RingInv
  <1>4. Types'
    <2>1. loads' \in 0 .. Loads
      BY <1>1, <1>2, Sizes DEF Types
    <2> QED
      BY <1>1, <1>2, <2>1 DEF Types, Loops
  <1>5. RamInv'
    BY <1>1, <1>2, Constant DEF RamInv
  <1>6. RingInv'
    <2>1. Len(Rings(drv'))  \in 1 .. 3 /\ Len(ring') = 0
      BY <1>2, <1>3, TheRings
    <2> QED
      BY <1>2, <1>3, <2>1, Constant DEF RingInv, Working
  <1> QED
    BY <1>4, <1>5, <1>6 DEF LoopInv

\* Ring i of the driver is reached.
LEMMA MapRingFacts ==
    ASSUME LoopInv, map_ring
    PROVE  /\ pc = "map_ring" /\ drv \in Drivers /\ drv # NoDrv
           /\ i \in 1 .. Len(Rings(drv)) /\ Len(ring) = i - 1
           /\ ring \in Seq([ptr : Nat, size : Nat])
           /\ UNCHANGED <<advance, host_addr, guestVars, reqVars, lost, countVars>>
           /\ Rings(drv)[i].size \in Nat \ {0}
           /\ LET addr == Addr(drv, Rings(drv)[i].at)
                  size == Rings(drv)[i].size
              IN \E ptr \in Nat :
                     /\ ptr \in Reachable(addr, size, "ring")
                     /\ Reach(ptr, addr, size, "rw")
                     /\ ring' = Append(ring, [ptr |-> ptr, size |-> size])
                     /\ IF Asserts(addr) THEN i' = 1 /\ pc' = "bug"
                        ELSE IF i < Len(Rings(drv)) THEN i' = i + 1 /\ pc' = pc
                        ELSE i' = 1 /\ pc' \in {"run", "no_ring"}
  <1>1. pc = "map_ring" /\ Types /\ RamInv /\ RingInv
    BY DEF LoopInv, map_ring
  <1>2. drv # NoDrv /\ drv \in Drivers
    BY <1>1 DEF RingInv, Types
  <1>3. i \in 1 .. Len(Rings(drv)) /\ Len(ring) = i - 1
    BY <1>1, <1>2 DEF RingInv
  <1> DEFINE addr == Addr(drv, Rings(drv)[i].at)
             size == Rings(drv)[i].size
  <1>4. PICK ptr \in Reachable(addr, size, "ring") :
            /\ Reach(ptr, addr, size, "rw")
            /\ ring' = Append(ring, [ptr |-> ptr, size |-> size])
            /\ IF Asserts(addr) THEN i' = 1 /\ pc' = "bug"
               ELSE Iterate(Len(Rings(drv)),
                            IF \E k \in DOMAIN ring' : ring'[k].ptr = NULL THEN "no_ring" ELSE "run")
    BY DEF map_ring
  <1>5. addr \in Addresses /\ size \in Nat \ {0} /\ Buffer(addr.at, size)
    BY <1>2, <1>3, ARing
  <1>6. advance \in BOOLEAN /\ use_gnttab \in {-1, 0, 1} /\ (advance => use_gnttab = -1)
        /\ host_addr \in [1 .. 2 -> Nat] /\ ring \in Seq([ptr : Nat, size : Nat])
    BY <1>1 DEF Types
  <1> HIDE DEF addr, size
  <1>7. ptr \in Nat
    BY <1>4, <1>5, <1>6, ReachStep
  <1>8. UNCHANGED <<advance, host_addr, guestVars, reqVars, lost, countVars>>
    BY DEF map_ring
  <1>9. IF Asserts(addr) THEN i' = 1 /\ pc' = "bug"
        ELSE IF i < Len(Rings(drv)) THEN i' = i + 1 /\ pc' = pc
        ELSE i' = 1 /\ pc' \in {"run", "no_ring"}
    BY <1>4 DEF Iterate
  <1> QED
    BY <1>1, <1>2, <1>3, <1>4, <1>5, <1>6, <1>7, <1>8, <1>9 DEF addr, size

LEMMA LoopMapRing ==
    LoopInv /\ map_ring => LoopInv'
  <1> SUFFICES ASSUME LoopInv, map_ring PROVE LoopInv'
    OBVIOUS
  <1>1. /\ pc = "map_ring" /\ drv \in Drivers /\ drv # NoDrv
        /\ i \in 1 .. Len(Rings(drv)) /\ Len(ring) = i - 1
        /\ ring \in Seq([ptr : Nat, size : Nat])
        /\ Rings(drv)[i].size \in Nat \ {0}
    BY MapRingFacts
  <1>2. /\ advance' = advance /\ host_addr' = host_addr /\ drv' = drv /\ sent' = sent
        /\ guests' = guests /\ loads' = loads
    BY MapRingFacts DEF guestVars, countVars
  <1> DEFINE addr == Addr(drv, Rings(drv)[i].at)
             size == Rings(drv)[i].size
  <1>3. PICK ptr \in Nat :
            /\ ptr \in Reachable(addr, size, "ring")
            /\ Reach(ptr, addr, size, "rw")
            /\ ring' = Append(ring, [ptr |-> ptr, size |-> size])
            /\ IF Asserts(addr) THEN i' = 1 /\ pc' = "bug"
               ELSE IF i < Len(Rings(drv)) THEN i' = i + 1 /\ pc' = pc
               ELSE i' = 1 /\ pc' \in {"run", "no_ring"}
    BY MapRingFacts
  <1>4. Types /\ RamInv /\ RingInv
    BY DEF LoopInv
  <1>5. addr \in Addresses /\ size \in Nat \ {0} /\ Buffer(addr.at, size)
    BY <1>1, ARing
  <1>6. use_gnttab' \in {-1, 0, 1} /\ (advance => use_gnttab' = -1)
    <2>1. advance \in BOOLEAN /\ use_gnttab \in {-1, 0, 1} /\ (advance => use_gnttab = -1)
          /\ host_addr \in [1 .. 2 -> Nat]
      BY <1>4 DEF Types
    <2> HIDE DEF addr, size
    <2> QED
      BY <1>3, <1>5, <2>1, ReachStep
  <1>7. size = Rings(drv)[i].size
    OBVIOUS
  <1> HIDE DEF addr, size
  <1>8. /\ ring' \in Seq([ptr : Nat, size : Nat]) /\ Len(ring') = i
        /\ \A k \in 1 .. i : ring'[k] = IF k = i THEN [ptr |-> ptr, size |-> size] ELSE ring[k]
    <2> DEFINE RR == [ptr : Nat, size : Nat]
               x == [ptr |-> ptr, size |-> size]
    <2>1. x \in RR /\ ring \in Seq(RR) /\ ring' = Append(ring, x)
      BY <1>1, <1>3, <1>5
    <2> HIDE DEF RR, x
    <2>2. ring' \in Seq(RR) /\ Len(ring') = Len(ring) + 1 /\ ring'[Len(ring) + 1] = x
          /\ \A k \in 1 .. Len(ring) : ring'[k] = ring[k]
      BY <2>1, AppendProperties
    <2>3. Len(ring) + 1 = i /\ \A k \in 1 .. i : k # i => k \in 1 .. Len(ring)
      BY <1>1
    <2> QED
      BY <2>2, <2>3 DEF RR, x
  <1>9. pc' \in {"bug", "map_ring", "run", "no_ring"}
    BY <1>1, <1>3
  <1>10. Types'
    BY <1>2, <1>4, <1>6, <1>8, <1>9 DEF Types, Loops, Dead
  <1>11. RamInv'
    BY <1>2, <1>4, <1>9, Constant DEF RamInv
  <1>12. \A k \in 1 .. i : ring'[k].size = Rings(drv)[k].size
    <2>1. \A k \in 1 .. i - 1 : ring[k].size = Rings(drv)[k].size
      BY <1>1, <1>4 DEF RingInv
    <2>2. \A k \in 1 .. i : k # i => k \in 1 .. i - 1
      BY <1>1
    <2>3. ASSUME NEW k \in 1 .. i PROVE ring'[k].size = Rings(drv)[k].size
      <3>1. CASE k = i
        BY <1>7, <1>8, <3>1
      <3>2. CASE k # i
        <4>1. ring'[k] = ring[k]
          BY <1>8, <3>2
        <4> QED
          BY <2>1, <2>2, <3>2, <4>1
      <3> QED
        BY <3>1, <3>2
    <2> QED
      BY <2>3
  <1>13. /\ pc' # "map_ring" => i' = 1
         /\ pc' = "map_ring" => i' = i + 1 /\ i < Len(Rings(drv))
         /\ pc' = "run" => ~ (i < Len(Rings(drv)))
    BY <1>1, <1>3
  <1>14. Len(Rings(drv)) \in Nat
    BY <1>1, TheRings
  <1>15. RingInv'
    BY <1>1, <1>2, <1>8, <1>9, <1>12, <1>13, <1>14, Constant DEF RingInv, Working
  <1> QED
    BY <1>10, <1>11, <1>15 DEF LoopInv

LEMMA LoopExit ==
    LoopInv /\ virtio_exit_vq => LoopInv'
  <1> SUFFICES ASSUME LoopInv, virtio_exit_vq PROVE LoopInv'
    OBVIOUS
  <1>1. Types /\ RamInv /\ RingInv
    BY DEF LoopInv
  <1>2. /\ pc = "run" /\ drv # NoDrv /\ pc' = "unmap_ring" /\ sent' = <<>>
        /\ use_gnttab' = use_gnttab /\ advance' = advance /\ ring' = ring /\ i' = i
        /\ loads' = loads /\ guests' = guests /\ host_addr' = host_addr /\ drv' = drv
    BY DEF virtio_exit_vq, hostVars, countVars
  <1>3. drv \in Drivers /\ Len(Rings(drv)) \in 1 .. 3
    BY <1>1, <1>2, TheRings DEF Types
  <1>4. i = 1 /\ Len(ring) = Len(Rings(drv))
    BY <1>1, <1>2 DEF RingInv
  <1>5. Types'
    BY <1>1, <1>2 DEF Types, Loops
  <1>6. RamInv'
    BY <1>1, <1>2, Constant DEF RamInv
  <1>7. RingInv'
    BY <1>1, <1>2, <1>3, <1>4, Constant DEF RingInv
  <1> QED
    BY <1>5, <1>6, <1>7 DEF LoopInv

LEMMA UnmapRingFacts ==
    ASSUME LoopInv, unmap_ring
    PROVE  /\ pc = "unmap_ring" /\ drv \in Drivers /\ drv # NoDrv /\ sent = <<>>
           /\ i \in 1 .. Len(ring) /\ Len(ring) = Len(Rings(drv)) /\ Len(ring) \in Nat
           /\ ring \in Seq([ptr : Nat, size : Nat])
           /\ Release(ring[i].ptr, ring[i].size)
           /\ UNCHANGED <<advance, use_gnttab, host_addr, desc, table, avail, sent, reqVars, lost,
                          countVars>>
           /\ IF i < Len(ring) THEN i' = i + 1 /\ pc' = pc /\ ring' = ring /\ drv' = drv
              ELSE i' = 1 /\ pc' = "run" /\ ring' = <<>> /\ drv' = NoDrv
  <1>1. pc = "unmap_ring" /\ Types /\ RamInv /\ RingInv
    BY DEF LoopInv, unmap_ring
  <1>2. drv # NoDrv /\ drv \in Drivers /\ ring \in Seq([ptr : Nat, size : Nat])
    BY <1>1 DEF RingInv, Types
  <1>3. i \in 1 .. Len(ring) /\ Len(ring) = Len(Rings(drv)) /\ sent = <<>>
    BY <1>1, <1>2 DEF RingInv
  <1>4. Len(ring) \in Nat
    BY <1>2
  <1> QED
    BY <1>1, <1>2, <1>3, <1>4 DEF unmap_ring, Iterate

LEMMA LoopUnmapRing ==
    LoopInv /\ unmap_ring => LoopInv'
  <1> SUFFICES ASSUME LoopInv, unmap_ring PROVE LoopInv'
    OBVIOUS
  <1>1. Types /\ RamInv /\ RingInv
    BY DEF LoopInv
  <1>2. /\ pc = "unmap_ring" /\ drv \in Drivers /\ drv # NoDrv /\ sent = <<>>
        /\ i \in 1 .. Len(ring) /\ Len(ring) \in Nat
        /\ IF i < Len(ring) THEN i' = i + 1 /\ pc' = pc /\ ring' = ring /\ drv' = drv
           ELSE i' = 1 /\ pc' = "run" /\ ring' = <<>> /\ drv' = NoDrv
    BY UnmapRingFacts
  <1>3. /\ use_gnttab' = use_gnttab /\ advance' = advance /\ sent' = sent
        /\ loads' = loads /\ guests' = guests /\ host_addr' = host_addr
    BY UnmapRingFacts DEF countVars
  <1>4. CASE i < Len(ring)
    <2>1. i' = i + 1 /\ pc' = pc /\ ring' = ring /\ drv' = drv
      BY <1>2, <1>4
    <2>2. Types'
      BY <1>1, <1>3, <2>1 DEF Types
    <2>3. RamInv'
      BY <1>1, <1>2, <1>3, <2>1, Constant DEF RamInv
    <2>4. i' \in 1 .. Len(ring)
      BY <1>2, <1>4, <2>1
    <2>5. RingInv'
      BY <1>1, <1>2, <1>3, <2>1, <2>4, Constant DEF RingInv
    <2> QED
      BY <2>2, <2>3, <2>5 DEF LoopInv
  <1>5. CASE ~ (i < Len(ring))
    <2>1. i' = 1 /\ pc' = "run" /\ ring' = <<>> /\ drv' = NoDrv
      BY <1>2, <1>5
    <2>2. Types'
      <3>1. <<>> \in Seq([ptr : Nat, size : Nat])
        OBVIOUS
      <3> QED
        BY <1>1, <1>3, <2>1, <3>1 DEF Types
    <2>3. RamInv'
      BY <1>1, <1>2, <1>3, <2>1, Constant DEF RamInv
    <2>5. RingInv'
      BY <1>2, <1>3, <2>1, Constant DEF RingInv
    <2> QED
      BY <2>2, <2>3, <2>5 DEF LoopInv
  <1> QED
    BY <1>4, <1>5

\* A request is served, which leaves banks and rings alone.
LEMMA LoopFrame ==
    ASSUME LoopInv, drv # NoDrv, pc \in {"run"} \cup Working, pc' \in {"run"} \cup Working \cup Dead,
           UNCHANGED <<advance, host_addr, ring, drv, guests, loads>>,
           use_gnttab' \in {-1, 0, 1}, advance => use_gnttab' = -1,
           pc' # "complete" => i' = 1
    PROVE  LoopInv'
  <1>1. Types /\ RamInv /\ RingInv
    BY DEF LoopInv
  <1>2. /\ pc' \notin {"off", "map_ram", "unmap_ram", "map_ring", "unmap_ring"}
        /\ pc' \in {"off", "run", "work"} \cup Dead \cup Loops
    BY DEF Working, Dead, Loops
  <1>3. Types'
    BY <1>1, <1>2 DEF Types
  <1>4. RamInv'
    BY <1>1, <1>2, Constant DEF RamInv
  <1>5. /\ Len(ring) <= Len(Rings(drv)) /\ Len(ring) = Len(Rings(drv))
        /\ \A k \in 1 .. Len(ring) : ring[k].size = Rings(drv)[k].size
    BY <1>1 DEF RingInv
  <1>6. RingInv'
    BY <1>2, <1>5, Constant DEF RingInv
  <1> QED
    BY <1>3, <1>4, <1>6 DEF LoopInv

(***************************************************************************)
(* Chains and their walk                                                   *)
(***************************************************************************)

LEMMA ChainInit == Init => ChainInv /\ WalkInv
  <1> SUFFICES ASSUME Init PROVE ChainInv /\ WalkInv
    OBVIOUS
  <1>1. /\ req = NoReq /\ tab = NoTab /\ sent = <<>> /\ avail = <<>> /\ pc = "off"
        /\ DOMAIN sent = {} /\ DOMAIN desc = Heads
    BY DEF Init
  <1>2. ChainInv
    BY <1>1 DEF ChainInv
  <1>3. WalkInv
    BY <1>1 DEF WalkInv, NoTab, NULL, Working, Dead
  <1> QED
    BY <1>2, <1>3

\* The chains stay as they are.
LEMMA ChainFrame ==
    ASSUME ChainInv, UNCHANGED <<desc, table, avail, sent>>, drv' = drv \/ sent = <<>>,
           req' = NoReq \/ (req # NoReq /\ req'.head = req.head)
    PROVE  ChainInv'
  <1>1. CASE drv' = drv
    <2>1. \A h \in DOMAIN sent : ChainAt(h)'
      BY <1>1 DEF ChainInv, ChainAt, Descriptor
    <2> QED
      BY <2>1 DEF ChainInv
  <1>2. CASE sent = <<>>
    <2>1. DOMAIN sent = {}
      BY <1>2
    <2> QED
      BY <2>1 DEF ChainInv
  <1> QED
    BY <1>1, <1>2

\* The process works on no request.
LEMMA NoWalk ==
    ASSUME req' = NoReq, tab' = NoTab, pc' \notin Working
    PROVE  WalkInv'
  BY DEF WalkInv, Working, NoTab, NULL

LEMMA WalkFrame ==
    ASSUME WalkInv, UNCHANGED <<req, tab, idx, i, pc>>,
           req # NoReq => /\ sent'[req.head] = sent[req.head]
                          /\ desc'[req.head].indirect = desc[req.head].indirect
    PROVE  WalkInv'
  <1>1. CASE req = NoReq
    BY <1>1 DEF WalkInv, Working
  <1>2. CASE req # NoReq
    <2>1. Chain' = Chain
      BY <1>2 DEF Chain
    <2> QED
      BY <1>2, <2>1 DEF WalkInv
  <1> QED
    BY <1>1, <1>2

\* What the request is, and what it is not, by where the process is.
LEMMA ARequest ==
    ASSUME LoopInv, ChainInv, WalkInv, pc \in Working
    PROVE  /\ drv # NoDrv /\ drv \in Drivers
           /\ req # NoReq /\ req.head \in DOMAIN sent /\ req.head \in Heads
           /\ Chain \in Chains /\ ChainAt(req.head) /\ Len(Chain) \in Nat
           /\ req \in [head : Heads, iov : Seq([base : Nat, len : Nat]), out : Nat, in : Nat]
           /\ Len(req.iov) \in Nat /\ DOMAIN req.iov = 1 .. Len(req.iov)
  <1>1. drv # NoDrv /\ drv \in Drivers
    BY DEF LoopInv, RingInv, Types, Working
  <1>2. /\ req # NoReq /\ req.head \in DOMAIN sent
        /\ req \in [head : Heads, iov : Seq([base : Nat, len : Nat]), out : Nat, in : Nat]
    BY DEF WalkInv, ChainInv
  <1>3. ChainAt(req.head)
    BY <1>2 DEF ChainInv
  <1>4. Chain \in Chains /\ req.head \in Heads
    BY <1>3 DEF ChainAt, Chain
  <1>5. Len(Chain) \in Nat
    BY <1>4, TheChain
  <1>6. Len(req.iov) \in Nat /\ DOMAIN req.iov = 1 .. Len(req.iov)
    <2> DEFINE Segs == [base : Nat, len : Nat]
    <2>1. req.iov \in Seq(Segs)
      BY <1>2
    <2> HIDE DEF Segs
    <2> QED
      BY <2>1
  <1> QED
    BY <1>1, <1>2, <1>3, <1>4, <1>5, <1>6

\* The descriptor that the walk comes to is the one of the next segment.
LEMMA NextDescriptor ==
    ASSUME LoopInv, ChainInv, WalkInv, pc = "walk"
    PROVE  LET k == Len(req.iov) + 1
               c == Chain
               d == IF tab = NoTab THEN desc[idx] ELSE table[idx]
               max == IF tab = NoTab THEN Num ELSE tab.len
               then == IF desc[req.head].indirect THEN k ELSE sent[req.head].at[k + 1]
           IN /\ k \in 1 .. Len(c)
              /\ d.addr = Addr(drv, c[k].at) /\ d.len = c[k].len /\ d.write = c[k].write
              /\ next_desc(d, max) = IF k < Len(c) THEN then ELSE max
              /\ k < Len(c) => then # max
  <1> DEFINE k == Len(req.iov) + 1
             c == Chain
             s == sent[req.head].at
             d == IF tab = NoTab THEN desc[idx] ELSE table[idx]
             max == IF tab = NoTab THEN Num ELSE tab.len
  <1>0. "walk" \in Working
    BY DEF Working
  <1>1. /\ c \in Chains /\ Len(c) \in Nat /\ ChainAt(req.head) /\ Len(req.iov) \in Nat
        /\ req # NoReq /\ req.head \in Heads
    BY <1>0, ARequest
  <1>2. /\ Len(req.iov) < Len(c)
        /\ IF desc[req.head].indirect THEN tab.ptr # NULL /\ idx = Len(req.iov)
           ELSE tab = NoTab /\ idx = sent[req.head].at[Len(req.iov) + 1]
    BY DEF WalkInv
  <1>3. k \in 1 .. Len(c) /\ k - 1 = Len(req.iov) /\ k \in Nat
    BY <1>1, <1>2
  <1>4. c = sent[req.head].chain
    BY DEF Chain
  <1>5. CASE desc[req.head].indirect
    <2>1. tab # NoTab /\ idx = k - 1 /\ tab.len = Len(c)
      <3>1. tab.ptr # NULL /\ NoTab.ptr = NULL
        BY <1>2, <1>5 DEF NoTab
      <3>2. tab.len = Len(c)
        BY <3>1 DEF WalkInv
      <3> QED
        BY <1>2, <1>3, <1>5, <3>1, <3>2
    <2>2. table = [l \in 0 .. Len(c) - 1 |-> Descriptor(c, l + 1, l + 1)]
      BY <1>1, <1>4, <1>5 DEF ChainAt
    <2> HIDE DEF c, k
    <2>3. k - 1 \in 0 .. Len(c) - 1 /\ k - 1 + 1 = k
      BY <1>1, <1>3
    <2>4. d = Descriptor(c, k, k)
      BY <2>1, <2>2, <2>3
    <2>5. /\ d.addr = Addr(drv, c[k].at) /\ d.len = c[k].len /\ d.write = c[k].write
          /\ d.chained = (k < Len(c)) /\ d.next = IF k < Len(c) THEN k ELSE 0
      BY <2>4 DEF Descriptor
    <2>6. max = Len(c)
      BY <2>1
    <2> HIDE DEF d, max
    <2>7. next_desc(d, max) = IF k < Len(c) THEN k ELSE max
      BY <1>1, <1>3, <2>5, <2>6 DEF next_desc
    <2>8. k < Len(c) => k # max
      BY <1>1, <1>3, <2>6
    <2> QED
      BY <1>3, <1>5, <2>5, <2>7, <2>8 DEF c, k, d, max
  <1>6. CASE ~ desc[req.head].indirect
    <2>1. tab = NoTab /\ idx = s[k]
      BY <1>2, <1>6
    <2>2. /\ s \in [1 .. Len(c) -> Heads]
          /\ \A l \in 1 .. Len(c) : desc[s[l]] = Descriptor(c, l, s[l + 1])
      BY <1>1, <1>4, <1>6 DEF ChainAt
    <2> HIDE DEF c, k, s
    <2>3. d = Descriptor(c, k, s[k + 1])
      BY <1>3, <2>1, <2>2
    <2>4. /\ d.addr = Addr(drv, c[k].at) /\ d.len = c[k].len /\ d.write = c[k].write
          /\ d.chained = (k < Len(c)) /\ d.next = IF k < Len(c) THEN s[k + 1] ELSE 0
      BY <2>3 DEF Descriptor
    <2>5. max = Num
      BY <2>1
    <2>6. k < Len(c) => s[k + 1] \in Nat /\ s[k + 1] < Num
      <3>1. k < Len(c) => k + 1 \in 1 .. Len(c)
        BY <1>1, <1>3
      <3>2. \A x \in Heads : x \in Nat /\ x < Num
        BY Sizes DEF Heads
      <3> QED
        BY <2>2, <3>1, <3>2
    <2> HIDE DEF d, max
    <2>7. next_desc(d, max) = IF k < Len(c) THEN s[k + 1] ELSE max
      BY <2>4, <2>5, <2>6 DEF next_desc
    <2>8. k < Len(c) => s[k + 1] # max
      BY <2>5, <2>6, Sizes
    <2> QED
      BY <1>3, <1>6, <2>4, <2>7, <2>8 DEF c, k, d, max, s
  <1> QED
    BY <1>5, <1>6

\* A segment is mapped.
LEMMA WalkFacts ==
    ASSUME LoopInv, ChainInv, WalkInv, virt_queue__get_head_iov
    PROVE  LET k == Len(req.iov) + 1
               c == Chain
               addr == Addr(drv, c[k].at)
           IN /\ pc = "walk" /\ k \in 1 .. Len(c)
              /\ addr \in Addresses /\ addr.at = c[k].at /\ addr.grant = drv.grant
              /\ c[k].len \in Nat \ {0} /\ c[k].write \in BOOLEAN /\ Buffer(c[k].at, c[k].len)
              /\ UNCHANGED <<advance, host_addr, ring, guestVars, tab, i, lost, countVars>>
              /\ \E ptr \in Nat :
                     /\ ptr \in Reachable(addr, c[k].len, "chain")
                     /\ Reach(ptr, addr, c[k].len, IF c[k].write THEN "w" ELSE "r")
                     /\ req' = [req EXCEPT !.iov = Append(@, [base |-> ptr, len |-> c[k].len]),
                                           !.in = IF c[k].write THEN @ + 1 ELSE @,
                                           !.out = IF c[k].write THEN @ ELSE @ + 1]
                     /\ pc' = IF Asserts(addr) THEN "bug"
                              ELSE IF k < Len(c) THEN "walk"
                              ELSE IF tab = NoTab THEN "work" ELSE "walked"
                     /\ k < Len(c) => idx' = IF desc[req.head].indirect THEN k
                                             ELSE sent[req.head].at[k + 1]
  <1> DEFINE k == Len(req.iov) + 1
             c == Chain
             addr == Addr(drv, c[k].at)
             d == IF tab = NoTab THEN desc[idx] ELSE table[idx]
             max == IF tab = NoTab THEN Num ELSE tab.len
             then == IF desc[req.head].indirect THEN k ELSE sent[req.head].at[k + 1]
  <1>1. pc = "walk" /\ "walk" \in Working
    BY DEF virt_queue__get_head_iov, Working
  <1>2. /\ k \in 1 .. Len(c)
        /\ d.addr = addr /\ d.len = c[k].len /\ d.write = c[k].write
        /\ next_desc(d, max) = IF k < Len(c) THEN then ELSE max
        /\ k < Len(c) => then # max
    BY <1>1, NextDescriptor
  <1>3. c \in Chains /\ drv \in Drivers
    BY <1>1, ARequest
  <1>4. c[k].at \in Nat /\ c[k].len \in Nat \ {0} /\ c[k].write \in BOOLEAN /\ Buffer(c[k].at, c[k].len)
    <2>1. c[k] \in [at : Nat, len : Nat, write : BOOLEAN] /\ Buffer(c[k].at, c[k].len)
      BY <1>2, <1>3, TheChain
    <2> HIDE DEF c, k
    <2>2. c[k].len \in Nat \ {0}
      BY <2>1 DEF Buffer
    <2> QED
      BY <2>1, <2>2
  <1>5. addr \in Addresses /\ addr.at = c[k].at /\ addr.grant = drv.grant
    BY <1>3, <1>4, ADriver DEF Addr, Addresses
  <1>6. PICK ptr \in Reachable(d.addr, d.len, "chain") :
            /\ Reach(ptr, d.addr, d.len, IF d.write THEN "w" ELSE "r")
            /\ req' = [req EXCEPT !.iov = Append(@, [base |-> ptr, len |-> d.len]),
                                  !.in = IF d.write THEN @ + 1 ELSE @,
                                  !.out = IF d.write THEN @ ELSE @ + 1]
            /\ idx' = next_desc(d, max)
            /\ pc' = IF Asserts(d.addr) THEN "bug"
                     ELSE IF idx' = max THEN IF tab = NoTab THEN "work" ELSE "walked" ELSE "walk"
    BY DEF virt_queue__get_head_iov
  <1>7. UNCHANGED <<advance, host_addr, ring, guestVars, tab, i, lost, countVars>>
    BY DEF virt_queue__get_head_iov
  <1> HIDE DEF c, k, addr, d, max, then
  <1>8. /\ ptr \in Reachable(addr, c[k].len, "chain")
        /\ Reach(ptr, addr, c[k].len, IF c[k].write THEN "w" ELSE "r")
        /\ req' = [req EXCEPT !.iov = Append(@, [base |-> ptr, len |-> c[k].len]),
                              !.in = IF c[k].write THEN @ + 1 ELSE @,
                              !.out = IF c[k].write THEN @ ELSE @ + 1]
    BY <1>2, <1>6
  <1>9. ptr \in Nat
    <2>1. /\ advance \in BOOLEAN /\ use_gnttab \in {-1, 0, 1} /\ (advance => use_gnttab = -1)
          /\ host_addr \in [1 .. 2 -> Nat]
      BY DEF LoopInv, Types
    <2>2. (IF c[k].write THEN "w" ELSE "r") \in {"r", "w", "rw"}
      OBVIOUS
    <2> QED
      BY <1>4, <1>5, <1>8, <2>1, <2>2, ReachStep
  <1>10. (idx' = max) = ~ (k < Len(c))
    BY <1>2, <1>6
  <1>11. pc' = IF Asserts(addr) THEN "bug"
               ELSE IF k < Len(c) THEN "walk"
               ELSE IF tab = NoTab THEN "work" ELSE "walked"
    BY <1>2, <1>6, <1>10
  <1>12. k < Len(c) => idx' = then
    BY <1>2, <1>6
  <1> QED
    BY <1>1, <1>2, <1>4, <1>5, <1>7, <1>8, <1>9, <1>11, <1>12 DEF c, k, addr, then

LEMMA SegmentInv ==
    LoopInv /\ ChainInv /\ WalkInv /\ virt_queue__get_head_iov => LoopInv' /\ ChainInv' /\ WalkInv'
  <1> SUFFICES ASSUME LoopInv, ChainInv, WalkInv, virt_queue__get_head_iov
               PROVE  LoopInv' /\ ChainInv' /\ WalkInv'
    OBVIOUS
  <1> DEFINE n == Len(req.iov)
             k == Len(req.iov) + 1
             c == Chain
             addr == Addr(drv, c[k].at)
             len == c[k].len
             prot == IF c[k].write THEN "w" ELSE "r"
  <1>1. /\ pc = "walk" /\ k \in 1 .. Len(c)
        /\ addr \in Addresses /\ addr.at = c[k].at /\ addr.grant = drv.grant
        /\ len \in Nat \ {0} /\ c[k].write \in BOOLEAN /\ Buffer(c[k].at, len)
        /\ UNCHANGED <<advance, host_addr, ring, guestVars, tab, i, lost, countVars>>
    BY WalkFacts
  <1>2. PICK ptr \in Nat :
            /\ ptr \in Reachable(addr, len, "chain")
            /\ Reach(ptr, addr, len, prot)
            /\ req' = [req EXCEPT !.iov = Append(@, [base |-> ptr, len |-> len]),
                                  !.in = IF c[k].write THEN @ + 1 ELSE @,
                                  !.out = IF c[k].write THEN @ ELSE @ + 1]
            /\ pc' = IF Asserts(addr) THEN "bug"
                     ELSE IF k < Len(c) THEN "walk"
                     ELSE IF tab = NoTab THEN "work" ELSE "walked"
            /\ k < Len(c) => idx' = IF desc[req.head].indirect THEN k ELSE sent[req.head].at[k + 1]
    BY WalkFacts
  <1>3. /\ drv # NoDrv /\ drv \in Drivers
        /\ req # NoReq /\ req.head \in DOMAIN sent /\ req.head \in Heads
        /\ Chain \in Chains /\ Len(Chain) \in Nat
        /\ req \in [head : Heads, iov : Seq([base : Nat, len : Nat]), out : Nat, in : Nat]
        /\ Len(req.iov) \in Nat
    BY <1>1, ARequest DEF Working
  <1>4. c \in Chains /\ n \in Nat /\ k = n + 1 /\ Len(c) \in Nat
    BY <1>3
  <1>5. c = sent[req.head].chain
    BY DEF Chain
  <1> HIDE DEF n, k, c, addr, len, prot
  <1>6. pc' \in {"bug", "walk", "walked", "work"}
    BY <1>2
  <1>7. LoopInv'
    <2>1. /\ advance \in BOOLEAN /\ use_gnttab \in {-1, 0, 1} /\ (advance => use_gnttab = -1)
          /\ host_addr \in [1 .. 2 -> Nat]
      BY DEF LoopInv, Types
    <2>2. prot \in {"r", "w", "rw"}
      BY DEF prot
    <2>3. use_gnttab' \in {-1, 0, 1} /\ (advance => use_gnttab' = -1)
      BY <1>1, <1>2, <2>1, <2>2, ReachStep
    <2>4. i' = 1
      BY <1>1 DEF LoopInv, RingInv
    <2>5. pc \in {"run"} \cup Working /\ pc' \in {"run"} \cup Working \cup Dead
      BY <1>1, <1>6 DEF Working, Dead
    <2> QED
      BY <1>1, <1>3, <2>3, <2>4, <2>5, LoopFrame DEF guestVars, countVars
  <1>8. ChainInv'
    <2>1. req'.head = req.head
      BY <1>2, <1>3
    <2> QED
      BY <1>1, <1>3, <2>1, ChainFrame DEF guestVars
  <1> DEFINE R == [head : Heads, iov : Seq([base : Nat, len : Nat]), out : Nat, in : Nat]
             W(m) == {l \in 1 .. m : c[l].write}
  <1>9. /\ req'.head = req.head /\ req'.iov = Append(req.iov, [base |-> ptr, len |-> len])
        /\ req'.in = (IF c[k].write THEN req.in + 1 ELSE req.in)
        /\ req'.out = (IF c[k].write THEN req.out ELSE req.out + 1)
        /\ DOMAIN req' = DOMAIN req
        /\ req' = [head |-> req'.head, iov |-> req'.iov, out |-> req'.out, in |-> req'.in]
    BY <1>2, <1>3
  <1>10. /\ req'.iov \in Seq([base : Nat, len : Nat]) /\ Len(req'.iov) = k
         /\ req'.iov[k] = [base |-> ptr, len |-> len]
         /\ \A l \in 1 .. n : req'.iov[l] = req.iov[l]
    <2> DEFINE S == [base : Nat, len : Nat]
               x == [base |-> ptr, len |-> len]
    <2>1. x \in S /\ req.iov \in Seq(S) /\ req'.iov = Append(req.iov, x)
      BY <1>1, <1>3, <1>9
    <2> HIDE DEF S, x
    <2>2. req'.iov \in Seq(S) /\ Len(req'.iov) = Len(req.iov) + 1 /\ req'.iov[Len(req.iov) + 1] = x
          /\ \A l \in 1 .. Len(req.iov) : req'.iov[l] = req.iov[l]
      BY <2>1, AppendProperties
    <2> QED
      BY <2>2 DEF S, x, n, k
  <1>11. req.in \in Nat /\ req.out \in Nat /\ req.in + req.out = n
    <2>1. req.in \in Nat /\ req.out \in Nat /\ req.out + req.in = Len(req.iov)
      BY <1>3 DEF WalkInv
    <2> QED
      BY <2>1 DEF n
  <1>12. req' \in R /\ req'.out + req'.in = k
    <2>1. req'.in \in Nat /\ req'.out \in Nat /\ req'.out + req'.in = k
      BY <1>1, <1>4, <1>9, <1>11
    <2> QED
      BY <1>3, <1>9, <1>10, <2>1
  <1>13. req' # NoReq
    <2>1. req'.head # Num
      BY <1>3, <1>9, Sizes DEF Heads
    <2> QED
      BY <2>1 DEF NoReq
  <1>14. Chain' = c
    BY <1>1, <1>5, <1>9 DEF Chain, guestVars
  <1>15. req'.in = Cardinality(W(k))
    <2>1. req.in = Cardinality(W(n))
      BY <1>3 DEF WalkInv, n, c
    <2>2. IsFiniteSet(W(n))
      <3>1. IsFiniteSet(1 .. n) /\ W(n) \subseteq 1 .. n
        BY <1>4, FS_Interval
      <3> QED
        BY <3>1, FS_Subset
    <2>3. W(k) = IF c[k].write THEN W(n) \cup {k} ELSE W(n)
      BY <1>4
    <2>4. k \notin W(n)
      BY <1>4
    <2>5. Cardinality(W(n) \cup {k}) = Cardinality(W(n)) + 1
      BY <2>2, <2>4, FS_AddElement
    <2> HIDE DEF W
    <2> QED
      BY <1>9, <2>1, <2>3, <2>5
  <1>16. \A l \in 1 .. k : req'.iov[l].len = c[l].len
    <2>1. \A l \in 1 .. n : req.iov[l].len = c[l].len
      BY <1>3 DEF WalkInv, n, c
    <2>2. req'.iov[k].len = c[k].len
      BY <1>10 DEF len
    <2>3. \A l \in 1 .. k : l = k \/ l \in 1 .. n
      BY <1>4
    <2> QED
      BY <1>10, <2>1, <2>2, <2>3
  <1>17. /\ pc' = "walk" => k < Len(c)
         /\ pc' = "walked" => tab # NoTab
         /\ pc' = "work" => tab = NoTab
         /\ pc' \in {"walked", "work"} => ~ (k < Len(c))
    BY <1>2
  <1>18. /\ tab \in [ptr : Nat, len : Nat]
         /\ tab.ptr # NULL => tab.len = Len(c)
         /\ IF desc[req.head].indirect THEN tab.ptr # NULL ELSE tab = NoTab
    BY <1>1 DEF WalkInv, c
  <1>19. WalkInv'
    <2>1. /\ pc' \in Working => req' # NoReq
          /\ pc' \notin Working \cup Dead => req' = NoReq
      BY <1>6, <1>13 DEF Working, Dead
    <2>2. tab' \in [ptr : Nat, len : Nat]
      BY <1>1, <1>18
    <2>3. pc' \notin {"walk", "walked"} \cup Dead => tab' = NoTab
      BY <1>1, <1>6, <1>17 DEF Dead
    <2>4. tab'.ptr # NULL => req' # NoReq /\ tab'.len = Len(Chain')
      BY <1>1, <1>13, <1>14, <1>18
    <2>5. req' # NoReq =>
              /\ req' \in R
              /\ Len(req'.iov) <= Len(Chain')
              /\ \A l \in 1 .. Len(req'.iov) : req'.iov[l].len = Chain'[l].len
              /\ req'.out + req'.in = Len(req'.iov)
              /\ req'.in = Cardinality({l \in 1 .. Len(req'.iov) : Chain'[l].write})
              /\ pc' \in {"walked", "work", "complete"} => Len(req'.iov) = Len(Chain')
      <3>1. k <= Len(c) /\ (~ (k < Len(c)) => k = Len(c)) /\ pc' # "complete"
        BY <1>1, <1>4, <1>6
      <3> HIDE DEF R
      <3> QED
        BY <1>10, <1>12, <1>14, <1>15, <1>16, <1>17, <3>1
    <2>6. pc' # "complete"
      BY <1>6
    <2>7. pc' = "walked" => tab'.ptr # NULL
      BY <1>1, <1>17, <1>18
    <2>8. pc' = "walk" =>
              /\ Len(req'.iov) < Len(Chain')
              /\ IF desc'[req'.head].indirect THEN tab'.ptr # NULL /\ idx' = Len(req'.iov)
                 ELSE tab' = NoTab /\ idx' = sent'[req'.head].at[Len(req'.iov) + 1]
      BY <1>1, <1>2, <1>9, <1>10, <1>14, <1>17, <1>18 DEF guestVars
    <2> QED
      BY <2>1, <2>2, <2>3, <2>4, <2>5, <2>6, <2>7, <2>8 DEF WalkInv
  <1> QED
    BY <1>7, <1>8, <1>19

\* A head is taken; its indirect table, if it has one, is reached.
LEMMA TakeFacts ==
    ASSUME LoopInv, ChainInv, WalkInv, virt_queue__get_iov
    PROVE  LET h == Head(avail)
               c == sent[h].chain
               addr == Addr(drv, TableAt)
           IN /\ pc = "run" /\ drv # NoDrv /\ drv \in Drivers /\ req = NoReq /\ tab = NoTab
              /\ h \in DOMAIN sent /\ h \in Heads /\ c \in Chains /\ ChainAt(h)
              /\ Len(c) \in Nat \ {0} /\ Len(c) > 0
              /\ avail # <<>> /\ avail' = Tail(avail)
              /\ req' = [head |-> h, iov |-> <<>>, out |-> 0, in |-> 0]
              /\ UNCHANGED <<advance, host_addr, ring, desc, table, drv, sent, i, lost, countVars>>
              /\ addr \in Addresses /\ addr.at = TableAt /\ addr.grant = drv.grant
              /\ Buffer(TableAt, Len(c))
              /\ \/ /\ ~ desc[h].indirect
                    /\ idx' = h /\ h = sent[h].at[1] /\ pc' = "walk"
                    /\ UNCHANGED <<host, use_gnttab, tab>>
                 \/ /\ desc[h].indirect
                    /\ \E ptr \in Nat :
                           /\ ptr \in Reachable(addr, Len(c), "chain")
                           /\ Reach(ptr, addr, Len(c), "r")
                           /\ tab' = [ptr |-> ptr, len |-> Len(c)]
                           /\ pc' = IF Asserts(addr) THEN "bug"
                                    ELSE IF ptr = NULL THEN "fault" ELSE "walk"
                    /\ idx' = 0
  <1> DEFINE h == Head(avail)
             c == sent[h].chain
             addr == Addr(drv, TableAt)
  <1>1. /\ pc = "run" /\ drv # NoDrv /\ avail # <<>> /\ avail' = Tail(avail)
        /\ req' = [head |-> h, iov |-> <<>>, out |-> 0, in |-> 0]
        /\ UNCHANGED <<advance, host_addr, ring, desc, table, drv, sent, i, lost, countVars>>
    BY DEF virt_queue__get_iov, virt_queue__pop
  <1>2. drv \in Drivers /\ req = NoReq /\ tab = NoTab
    BY <1>1 DEF LoopInv, Types, WalkInv, Working, Dead
  <1>3. h \in DOMAIN sent
    <2>1. avail \in Seq(DOMAIN sent)
      BY DEF ChainInv
    <2> QED
      BY <1>1, <2>1
  <1>4. ChainAt(h)
    BY <1>3 DEF ChainInv
  <1>5. h \in Heads /\ c \in Chains
    BY <1>4 DEF ChainAt
  <1>6. Len(c) \in Nat \ {0} /\ Len(c) > 0 /\ Buffer(TableAt, Len(c)) /\ TableAt \in Nat
    <2>1. Len(c) \in 2 .. Num /\ Buffer(TableAt, Len(c)) /\ TableAt \in Nat
      BY <1>5, TheChain
    <2> QED
      BY <2>1, Sizes
  <1>7. addr \in Addresses /\ addr.at = TableAt /\ addr.grant = drv.grant
    BY <1>2, <1>6, ADriver DEF Addr, Addresses
  <1> HIDE DEF h, c, addr
  <1>8. CASE ~ desc[h].indirect
    <2>1. idx' = h /\ pc' = "walk" /\ UNCHANGED <<host, use_gnttab, tab>>
      BY <1>8 DEF virt_queue__get_iov, h, hostVars
    <2>2. h = sent[h].at[1]
      BY <1>4, <1>8 DEF ChainAt
    <2> QED
      BY <1>1, <1>2, <1>3, <1>4, <1>5, <1>6, <1>7, <1>8, <2>1, <2>2 DEF h, c, addr
  <1>9. CASE desc[h].indirect
    <2>1. desc[h].addr = addr /\ desc[h].len = Len(c)
      BY <1>4, <1>9 DEF ChainAt, c, addr
    <2>2. PICK ptr \in Reachable(addr, Len(c), "chain") :
              /\ Reach(ptr, addr, Len(c), "r")
              /\ tab' = [ptr |-> ptr, len |-> Len(c)]
              /\ pc' = IF Asserts(addr) THEN "bug" ELSE IF ptr = NULL THEN "fault" ELSE "walk"
      BY <1>9, <2>1 DEF virt_queue__get_iov, h
    <2>3. idx' = 0
      BY <1>9 DEF virt_queue__get_iov, h
    <2>4. ptr \in Nat
      <3>1. /\ advance \in BOOLEAN /\ use_gnttab \in {-1, 0, 1} /\ (advance => use_gnttab = -1)
            /\ host_addr \in [1 .. 2 -> Nat]
        BY DEF LoopInv, Types
      <3> QED
        BY <1>6, <1>7, <2>2, <3>1, ReachStep
    <2> QED
      BY <1>1, <1>2, <1>3, <1>4, <1>5, <1>6, <1>7, <1>9, <2>2, <2>3, <2>4 DEF h, c, addr
  <1> QED
    BY <1>8, <1>9

LEMMA TakeInv ==
    LoopInv /\ ChainInv /\ WalkInv /\ virt_queue__get_iov => LoopInv' /\ ChainInv' /\ WalkInv'
  <1> SUFFICES ASSUME LoopInv, ChainInv, WalkInv, virt_queue__get_iov
               PROVE  LoopInv' /\ ChainInv' /\ WalkInv'
    OBVIOUS
  <1> DEFINE h == Head(avail)
             c == sent[h].chain
             addr == Addr(drv, TableAt)
  <1>1. /\ pc = "run" /\ drv # NoDrv /\ drv \in Drivers /\ req = NoReq /\ tab = NoTab
        /\ h \in DOMAIN sent /\ h \in Heads /\ c \in Chains /\ ChainAt(h)
        /\ Len(c) \in Nat \ {0} /\ Len(c) > 0
        /\ avail # <<>> /\ avail' = Tail(avail)
        /\ req' = [head |-> h, iov |-> <<>>, out |-> 0, in |-> 0]
        /\ UNCHANGED <<advance, host_addr, ring, desc, table, drv, sent, i, lost, countVars>>
        /\ addr \in Addresses /\ addr.at = TableAt /\ addr.grant = drv.grant
        /\ Buffer(TableAt, Len(c))
    BY TakeFacts
  <1>2. \/ /\ ~ desc[h].indirect
           /\ idx' = h /\ h = sent[h].at[1] /\ pc' = "walk"
           /\ UNCHANGED <<host, use_gnttab, tab>>
        \/ /\ desc[h].indirect
           /\ \E ptr \in Nat :
                  /\ ptr \in Reachable(addr, Len(c), "chain")
                  /\ Reach(ptr, addr, Len(c), "r")
                  /\ tab' = [ptr |-> ptr, len |-> Len(c)]
                  /\ pc' = IF Asserts(addr) THEN "bug" ELSE IF ptr = NULL THEN "fault" ELSE "walk"
           /\ idx' = 0
    BY TakeFacts
  <1> HIDE DEF h, c, addr
  <1>3. /\ advance \in BOOLEAN /\ use_gnttab \in {-1, 0, 1} /\ (advance => use_gnttab = -1)
        /\ host_addr \in [1 .. 2 -> Nat] /\ i = 1
    BY <1>1 DEF LoopInv, Types, RingInv
  <1>4. use_gnttab' \in {-1, 0, 1} /\ (advance => use_gnttab' = -1)
    BY <1>1, <1>2, <1>3, ReachStep
  <1>5. pc' \in {"bug", "fault", "walk"}
    BY <1>2
  <1>6. LoopInv'
    <2>1. pc \in {"run"} \cup Working /\ pc' \in {"run"} \cup Working \cup Dead
      BY <1>1, <1>5 DEF Working, Dead
    <2> QED
      BY <1>1, <1>3, <1>4, <2>1, LoopFrame DEF countVars
  <1>7. /\ req' # NoReq /\ req'.head = h /\ req'.iov = <<>> /\ req'.out = 0 /\ req'.in = 0
        /\ req' \in [head : Heads, iov : Seq([base : Nat, len : Nat]), out : Nat, in : Nat]
    <2>1. req'.head = h /\ req'.iov = <<>> /\ req'.out = 0 /\ req'.in = 0
      BY <1>1
    <2>2. h # Num
      BY <1>1, Sizes DEF Heads
    <2>3. req' # NoReq
      BY <2>1, <2>2 DEF NoReq
    <2>4. <<>> \in Seq([base : Nat, len : Nat])
      OBVIOUS
    <2> QED
      BY <1>1, <2>1, <2>3, <2>4
  <1>8. ChainInv'
    <2>1. avail \in Seq(DOMAIN sent) /\ \A m, n \in 1 .. Len(avail) : avail[m] = avail[n] => m = n
      BY DEF ChainInv
    <2>2. Len(avail) \in Nat /\ Len(avail) > 0
      <3>1. Len(avail) \in Nat \ {0}
        BY <1>1, <2>1, EmptySeq
      <3> QED
        BY <3>1
    <2>3. /\ avail' \in Seq(DOMAIN sent) /\ Len(avail') = Len(avail) - 1
          /\ \A m \in 1 .. Len(avail) - 1 : avail'[m] = avail[m + 1]
      BY <1>1, <2>1, HeadTailProperties
    <2>4. h = avail[1]
      BY <1>1, <2>1, HeadTailProperties DEF h
    <2>5. DOMAIN avail' = 1 .. Len(avail) - 1
      BY <2>3, LenProperties
    <2>6. h \notin Range(avail')
      <3>1. ASSUME NEW m \in 1 .. Len(avail) - 1 PROVE avail'[m] # h
        <4>1. m + 1 \in 1 .. Len(avail) /\ 1 \in 1 .. Len(avail) /\ m + 1 # 1
          BY <2>2
        <4> QED
          BY <2>1, <2>3, <2>4, <4>1
      <3> QED
        BY <2>5, <3>1 DEF Range
    <2>7. \A m, n \in 1 .. Len(avail') : avail'[m] = avail'[n] => m = n
      <3>1. ASSUME NEW m \in 1 .. Len(avail) - 1, NEW n \in 1 .. Len(avail) - 1, avail'[m] = avail'[n]
            PROVE  m = n
        <4>1. m + 1 \in 1 .. Len(avail) /\ n + 1 \in 1 .. Len(avail) /\ avail[m + 1] = avail[n + 1]
          BY <2>2, <2>3, <3>1
        <4>2. m + 1 = n + 1
          BY <2>1, <4>1
        <4> QED
          BY <4>2
      <3> QED
        BY <2>3, <3>1
    <2>8. \A g \in DOMAIN sent : ChainAt(g)'
      BY <1>1 DEF ChainInv, ChainAt, Descriptor
    <2> QED
      BY <1>1, <1>7, <2>3, <2>6, <2>7, <2>8 DEF ChainInv
  <1>9. Chain' = c
    BY <1>1, <1>7 DEF Chain, c
  <1>10. Cardinality({l \in 1 .. 0 : c[l].write}) = 0
    <2>1. {l \in 1 .. 0 : c[l].write} = {}
      OBVIOUS
    <2> QED
      BY <2>1, FS_EmptySet
  <1>11. /\ Len(req'.iov) = 0 /\ Len(req'.iov) <= Len(Chain')
         /\ \A k \in 1 .. Len(req'.iov) : req'.iov[k].len = Chain'[k].len
         /\ req'.out + req'.in = Len(req'.iov)
         /\ req'.in = Cardinality({k \in 1 .. Len(req'.iov) : Chain'[k].write})
    <2>1. Len(req'.iov) = 0
      BY <1>7
    <2>2. 1 .. 0 = {}
      OBVIOUS
    <2> QED
      BY <1>1, <1>7, <1>9, <1>10, <2>1, <2>2
  <1>12. /\ tab' \in [ptr : Nat, len : Nat]
         /\ tab'.ptr # NULL => tab'.len = Len(c)
         /\ pc' = "walk" => IF desc[h].indirect THEN tab'.ptr # NULL /\ idx' = 0
                            ELSE tab' = NoTab /\ idx' = sent[h].at[0 + 1]
    <2>1. CASE ~ desc[h].indirect
      <3>1. tab' = NoTab /\ idx' = sent[h].at[1]
        BY <1>1, <1>2, <2>1
      <3> QED
        BY <2>1, <3>1 DEF NoTab, NULL
    <2>2. CASE desc[h].indirect
      <3>1. PICK ptr \in Nat :
                /\ tab' = [ptr |-> ptr, len |-> Len(c)]
                /\ pc' = IF Asserts(addr) THEN "bug" ELSE IF ptr = NULL THEN "fault" ELSE "walk"
        BY <1>2, <2>2
      <3>2. idx' = 0
        BY <1>2, <2>2
      <3>3. pc' = "walk" => ptr # NULL
        BY <3>1
      <3> QED
        BY <1>1, <2>2, <3>1, <3>2, <3>3
    <2> QED
      BY <2>1, <2>2
  <1>13. WalkInv'
    BY <1>1, <1>5, <1>7, <1>9, <1>11, <1>12 DEF WalkInv, Working, Dead
  <1> QED
    BY <1>6, <1>8, <1>13

\* The walk is over and the table unmapped; the request is done; it fails or ends.
LEMMA TableInv ==
    LoopInv /\ ChainInv /\ WalkInv /\ unmap_table => LoopInv' /\ ChainInv' /\ WalkInv'
  <1> SUFFICES ASSUME LoopInv, ChainInv, WalkInv, unmap_table
               PROVE  LoopInv' /\ ChainInv' /\ WalkInv'
    OBVIOUS
  <1>1. /\ pc = "walked" /\ pc' = "work" /\ tab' = NoTab
        /\ UNCHANGED <<advance, use_gnttab, host_addr, ring, guestVars, req, idx, i, lost, countVars>>
    BY DEF unmap_table
  <1>2. drv # NoDrv /\ req # NoReq
    BY <1>1, ARequest DEF Working
  <1>3. LoopInv'
    <2>1. use_gnttab \in {-1, 0, 1} /\ (advance => use_gnttab = -1) /\ i = 1
      BY <1>1 DEF LoopInv, Types, RingInv
    <2>2. pc \in {"run"} \cup Working /\ pc' \in {"run"} \cup Working \cup Dead
      BY <1>1 DEF Working
    <2> QED
      BY <1>1, <1>2, <2>1, <2>2, LoopFrame DEF guestVars, countVars
  <1>4. ChainInv'
    BY <1>1, <1>2, ChainFrame DEF guestVars
  <1>5. Chain' = Chain
    BY <1>1 DEF Chain, guestVars
  <1>6. WalkInv'
    BY <1>1, <1>2, <1>5 DEF WalkInv, NoTab, NULL, Working, Dead
  <1> QED
    BY <1>3, <1>4, <1>6

LEMMA FaultInv ==
    LoopInv /\ ChainInv /\ WalkInv /\ segment_fault => LoopInv' /\ ChainInv' /\ WalkInv'
  <1> SUFFICES ASSUME LoopInv, ChainInv, WalkInv, segment_fault
               PROVE  LoopInv' /\ ChainInv' /\ WalkInv'
    OBVIOUS
  <1>1. /\ pc = "work" /\ pc' = "fault"
        /\ UNCHANGED <<advance, hostVars, host_addr, ring, guestVars, reqVars, i, lost, countVars>>
    BY DEF segment_fault
  <1>2. drv # NoDrv /\ req # NoReq
    BY <1>1, ARequest DEF Working
  <1>3. LoopInv'
    <2>1. use_gnttab \in {-1, 0, 1} /\ (advance => use_gnttab = -1) /\ i = 1
      BY <1>1 DEF LoopInv, Types, RingInv
    <2>2. pc \in {"run"} \cup Working /\ pc' \in {"run"} \cup Working \cup Dead
      BY <1>1 DEF Working, Dead
    <2> QED
      BY <1>1, <1>2, <2>1, <2>2, LoopFrame DEF guestVars, countVars, hostVars
  <1>4. ChainInv'
    BY <1>1, <1>2, ChainFrame DEF guestVars, reqVars
  <1>5. Chain' = Chain
    BY <1>1 DEF Chain, guestVars, reqVars
  <1>6. WalkInv'
    BY <1>1, <1>2, <1>5 DEF WalkInv, Working, Dead, reqVars
  <1> QED
    BY <1>3, <1>4, <1>6

LEMMA CompleteInv ==
    LoopInv /\ ChainInv /\ WalkInv /\ virtio_blk_complete => LoopInv' /\ ChainInv' /\ WalkInv'
  <1> SUFFICES ASSUME LoopInv, ChainInv, WalkInv, virtio_blk_complete
               PROVE  LoopInv' /\ ChainInv' /\ WalkInv'
    OBVIOUS
  <1>1. /\ pc = "work" /\ pc' = "complete"
        /\ UNCHANGED <<advance, hostVars, host_addr, ring, guestVars, reqVars, i, lost, countVars>>
    BY DEF virtio_blk_complete
  <1>2. drv # NoDrv /\ req # NoReq /\ Chain \in Chains
    BY <1>1, ARequest DEF Working
  <1>3. i = 1
    BY <1>1 DEF LoopInv, RingInv
  <1>4. LoopInv'
    <2>1. use_gnttab \in {-1, 0, 1} /\ (advance => use_gnttab = -1)
      BY <1>1 DEF LoopInv, Types
    <2>2. pc \in {"run"} \cup Working /\ pc' \in {"run"} \cup Working \cup Dead
      BY <1>1 DEF Working, Dead
    <2> QED
      BY <1>1, <1>2, <2>1, <2>2, LoopFrame DEF guestVars, countVars, hostVars
  <1>5. ChainInv'
    BY <1>1, <1>2, ChainFrame DEF guestVars, reqVars
  <1>6. Chain' = Chain
    BY <1>1 DEF Chain, guestVars, reqVars
  <1>7. Len(req.iov) = Len(Chain) /\ Len(Chain) \in 2 .. Num
    BY <1>1, <1>2, TheChain DEF WalkInv
  <1>8. i \in 1 .. Len(req.iov)
    BY <1>3, <1>7, Sizes
  <1>9. WalkInv'
    BY <1>1, <1>2, <1>6, <1>7, <1>8 DEF WalkInv, Working, Dead, reqVars
  <1> QED
    BY <1>4, <1>5, <1>9

LEMMA DropInv ==
    LoopInv /\ ChainInv /\ WalkInv /\ drop => LoopInv' /\ ChainInv' /\ WalkInv'
  <1> SUFFICES ASSUME LoopInv, ChainInv, WalkInv, drop
               PROVE  LoopInv' /\ ChainInv' /\ WalkInv'
    OBVIOUS
  <1>1. /\ pc = "work" /\ pc' = "run" /\ req' = NoReq
        /\ UNCHANGED <<advance, hostVars, host_addr, ring, guestVars, tab, i, countVars>>
    BY DEF drop
  <1>2. drv # NoDrv /\ req # NoReq
    BY <1>1, ARequest DEF Working
  <1>3. LoopInv'
    <2>1. use_gnttab \in {-1, 0, 1} /\ (advance => use_gnttab = -1) /\ i = 1
      BY <1>1 DEF LoopInv, Types, RingInv
    <2>2. pc \in {"run"} \cup Working /\ pc' \in {"run"} \cup Working \cup Dead
      BY <1>1 DEF Working, Dead
    <2> QED
      BY <1>1, <1>2, <2>1, <2>2, LoopFrame DEF guestVars, countVars, hostVars
  <1>4. ChainInv'
    BY <1>1, <1>2, ChainFrame DEF guestVars
  <1>5. WalkInv'
    <2>1. tab' = NoTab /\ pc' \notin Working
      BY <1>1 DEF WalkInv, Working, Dead
    <2> QED
      BY <1>1, <2>1, NoWalk
  <1> QED
    BY <1>3, <1>4, <1>5

\* A segment is unmapped, and after the last the request is over.
LEMMA UnmapSegmentFacts ==
    ASSUME LoopInv, ChainInv, WalkInv, unmap_segment
    PROVE  /\ pc = "complete" /\ i \in 1 .. Len(req.iov) /\ Len(req.iov) \in Nat
           /\ Len(req.iov) = Len(Chain) /\ tab = NoTab
           /\ Release(req.iov[i].base, req.iov[i].len)
           /\ UNCHANGED <<advance, use_gnttab, host_addr, ring, avail, drv, tab, lost, countVars>>
           /\ IF i < Len(req.iov)
              THEN i' = i + 1 /\ pc' = pc /\ UNCHANGED <<req, idx, desc, table, sent>>
              ELSE /\ i' = 1 /\ pc' = "run" /\ req' = NoReq
                   /\ desc' = [h \in Heads |-> IF h \in Range(sent[req.head].at) THEN NoDesc ELSE desc[h]]
                   /\ table' = IF desc[req.head].indirect THEN <<>> ELSE table
                   /\ sent' = [h \in DOMAIN sent \ {req.head} |-> sent[h]]
  <1>1. pc = "complete"
    BY DEF unmap_segment
  <1>2. i \in 1 .. Len(req.iov) /\ Len(req.iov) = Len(Chain) /\ tab = NoTab /\ req # NoReq
    BY <1>1 DEF WalkInv, Working, Dead
  <1>3. Len(req.iov) \in Nat
    BY <1>1, ARequest DEF Working
  <1> QED
    BY <1>1, <1>2, <1>3 DEF unmap_segment, Iterate

\* A chain stays, whatever happens to other descriptors.
LEMMA ChainStays ==
    ASSUME NEW h, ChainAt(h), sent'[h] = sent[h], drv' = drv,
           \A x \in Range(sent[h].at) : x \in Heads => desc'[x] = desc[x],
           desc[h].indirect => table' = table
    PROVE  ChainAt(h)' /\ desc'[h] = desc[h]
  <1> DEFINE c == sent[h].chain
             s == sent[h].at
  <1>1. h \in Heads /\ c \in Chains /\ h \in Range(s)
    BY DEF ChainAt
  <1>2. desc'[h] = desc[h]
    BY <1>1
  <1>3. CASE desc[h].indirect
    BY <1>1, <1>2, <1>3 DEF ChainAt, Descriptor
  <1>4. CASE ~ desc[h].indirect
    <2>1. /\ s \in [1 .. Len(c) -> Heads] /\ s[1] = h
          /\ \A k \in 1 .. Len(c) : desc[s[k]] = Descriptor(c, k, s[k + 1])
      BY <1>4 DEF ChainAt
    <2>2. \A k \in 1 .. Len(c) : desc'[s[k]] = desc[s[k]]
      <3>1. \A k \in 1 .. Len(c) : s[k] \in Range(s) /\ s[k] \in Heads
        BY <2>1 DEF Range
      <3> QED
        BY <3>1
    <2> QED
      BY <1>1, <1>2, <1>4, <2>1, <2>2 DEF ChainAt, Descriptor
  <1> QED
    BY <1>2, <1>3, <1>4

LEMMA UnmapSegmentInv ==
    LoopInv /\ ChainInv /\ WalkInv /\ unmap_segment => LoopInv' /\ ChainInv' /\ WalkInv'
  <1> SUFFICES ASSUME LoopInv, ChainInv, WalkInv, unmap_segment
               PROVE  LoopInv' /\ ChainInv' /\ WalkInv'
    OBVIOUS
  <1>1. /\ pc = "complete" /\ i \in 1 .. Len(req.iov) /\ Len(req.iov) \in Nat
        /\ tab = NoTab
        /\ UNCHANGED <<advance, use_gnttab, host_addr, ring, avail, drv, tab, lost, countVars>>
        /\ IF i < Len(req.iov)
           THEN i' = i + 1 /\ pc' = pc /\ UNCHANGED <<req, idx, desc, table, sent>>
           ELSE /\ i' = 1 /\ pc' = "run" /\ req' = NoReq
                /\ desc' = [h \in Heads |-> IF h \in Range(sent[req.head].at) THEN NoDesc ELSE desc[h]]
                /\ table' = IF desc[req.head].indirect THEN <<>> ELSE table
                /\ sent' = [h \in DOMAIN sent \ {req.head} |-> sent[h]]
    BY UnmapSegmentFacts
  <1>2. drv # NoDrv /\ req # NoReq /\ req.head \in DOMAIN sent
    BY <1>1, ARequest DEF Working
  <1>3. LoopInv'
    <2>1. use_gnttab \in {-1, 0, 1} /\ (advance => use_gnttab = -1)
      BY <1>1 DEF LoopInv, Types
    <2>2. pc' \in {"run", "complete"} /\ (pc' # "complete" => i' = 1)
      BY <1>1
    <2>3. pc \in {"run"} \cup Working /\ pc' \in {"run"} \cup Working \cup Dead
      BY <1>1, <2>2 DEF Working
    <2> QED
      BY <1>1, <1>2, <2>1, <2>2, <2>3, LoopFrame DEF countVars
  <1>4. CASE i < Len(req.iov)
    <2>1. i' = i + 1 /\ pc' = pc /\ UNCHANGED <<req, idx, desc, table, sent>>
      BY <1>1, <1>4
    <2>2. ChainInv'
      BY <1>1, <1>2, <2>1, ChainFrame
    <2>3. Chain' = Chain
      BY <2>1 DEF Chain
    <2>4. i' \in 1 .. Len(req.iov)
      BY <1>1, <1>4, <2>1
    <2>5. WalkInv'
      BY <1>1, <1>2, <2>1, <2>3, <2>4 DEF WalkInv, Working, Dead
    <2> QED
      BY <1>3, <2>2, <2>5
  <1>5. CASE ~ (i < Len(req.iov))
    <2> DEFINE r == req.head
    <2>1. /\ i' = 1 /\ pc' = "run" /\ req' = NoReq
          /\ desc' = [h \in Heads |-> IF h \in Range(sent[r].at) THEN NoDesc ELSE desc[h]]
          /\ table' = IF desc[r].indirect THEN <<>> ELSE table
          /\ sent' = [h \in DOMAIN sent \ {r} |-> sent[h]]
      BY <1>1, <1>5
    <2>2. WalkInv'
      BY <1>1, <2>1, NoWalk DEF Working
    <2> HIDE DEF r
    <2>3. DOMAIN sent' = DOMAIN sent \ {r} /\ \A h \in DOMAIN sent' : sent'[h] = sent[h]
      BY <2>1
    <2>4. r \in DOMAIN sent /\ r \notin Range(avail)
      BY <1>2 DEF ChainInv, r
    <2>5. ASSUME NEW h \in DOMAIN sent' PROVE ChainAt(h)' /\ desc'[h] = desc[h]
      <3>1. h \in DOMAIN sent /\ h # r /\ sent'[h] = sent[h]
        BY <2>3
      <3>2. ChainAt(h) /\ Range(sent[h].at) \cap Range(sent[r].at) = {}
        BY <2>4, <3>1 DEF ChainInv
      <3>3. \A x \in Range(sent[h].at) : x \in Heads => desc'[x] = desc[x]
        BY <2>1, <3>2
      <3>4. desc[h].indirect => table' = table
        <4>1. desc[h].indirect => ~ desc[r].indirect
          BY <2>4, <3>1 DEF ChainInv
        <4> QED
          BY <2>1, <4>1
      <3> QED
        BY <1>1, <3>1, <3>2, <3>3, <3>4, ChainStays
    <2>6. avail' \in Seq(DOMAIN sent') /\ \A m, n \in 1 .. Len(avail') : avail'[m] = avail'[n] => m = n
      <3>1. /\ avail \in Seq(DOMAIN sent)
            /\ \A m, n \in 1 .. Len(avail) : avail[m] = avail[n] => m = n
        BY DEF ChainInv
      <3>2. /\ avail \in [1 .. Len(avail) -> DOMAIN sent] /\ Len(avail) \in Nat
            /\ DOMAIN avail = 1 .. Len(avail)
        BY <3>1, LenProperties
      <3>3. \A m \in 1 .. Len(avail) : avail[m] \in DOMAIN sent'
        BY <2>3, <2>4, <3>2 DEF Range
      <3>4. avail \in [1 .. Len(avail) -> DOMAIN sent']
        BY <3>2, <3>3
      <3>5. avail \in Seq(DOMAIN sent')
        BY <3>2, <3>4, SeqDef
      <3> QED
        BY <1>1, <3>1, <3>5
    <2>7. /\ \A g, h \in DOMAIN sent' : g # h => Range(sent'[g].at) \cap Range(sent'[h].at) = {}
          /\ \A g, h \in DOMAIN sent' : desc'[g].indirect /\ desc'[h].indirect => g = h
      BY <2>3, <2>5 DEF ChainInv
    <2>8. DOMAIN desc' = Heads
      BY <2>1
    <2>9. ChainInv'
      BY <2>1, <2>5, <2>6, <2>7, <2>8 DEF ChainInv
    <2> QED
      BY <1>3, <2>2, <2>9
  <1> QED
    BY <1>4, <1>5

(***************************************************************************)
(* The driver                                                              *)
(***************************************************************************)

\* A request joins those that are sent: its descriptors were free.
LEMMA SendInv ==
    ASSUME LoopInv, ChainInv, WalkInv, Started,
           NEW h0, NEW s, NEW c, h0 \notin DOMAIN sent,
           h0 \in Range(s), Range(s) \subseteq FreeDesc,
           s[1] = h0, send(c, s),
           DOMAIN desc' = Heads, \A x \in Heads : x \notin Range(s) => desc'[x] = desc[x],
           table' = table \/ \A h \in DOMAIN sent : ~ desc[h].indirect,
           ChainAt(h0)', desc'[h0].indirect => \A h \in DOMAIN sent : ~ desc[h].indirect,
           UNCHANGED <<advance, hostVars, host_addr, ring, drv, reqVars, i, pc, lost, countVars>>
    PROVE  LoopInv' /\ ChainInv' /\ WalkInv'
  <1>1. drv # NoDrv /\ pc \in {"run"} \cup Working
    BY DEF Started, Working
  <1>2. LoopInv'
    <2>1. use_gnttab \in {-1, 0, 1} /\ (advance => use_gnttab = -1) /\ (pc # "complete" => i = 1)
      BY <1>1 DEF LoopInv, Types, RingInv, Working
    <2> QED
      BY <1>1, <2>1, LoopFrame DEF countVars, hostVars
  <1>3. /\ DOMAIN sent' = DOMAIN sent \cup {h0}
        /\ \A h \in DOMAIN sent : sent'[h] = sent[h]
        /\ sent'[h0] = [chain |-> c, at |-> s] /\ avail' = Append(avail, h0)
    BY DEF send
  <1>4. \A h \in DOMAIN sent : Range(sent[h].at) \cap Range(s) = {}
    BY DEF FreeDesc
  <1>5. ASSUME NEW h \in DOMAIN sent PROVE ChainAt(h)' /\ desc'[h] = desc[h]
    <2>1. ChainAt(h) /\ sent'[h] = sent[h] /\ Range(sent[h].at) \cap Range(s) = {}
      BY <1>3, <1>4 DEF ChainInv
    <2>2. \A x \in Range(sent[h].at) : x \in Heads => desc'[x] = desc[x]
      BY <2>1
    <2>3. (desc[h].indirect => table' = table) /\ drv' = drv
      OBVIOUS
    <2> QED
      BY <2>1, <2>2, <2>3, ChainStays
  <1>6. /\ \A h \in DOMAIN sent' : ChainAt(h)'
        /\ \A g, h \in DOMAIN sent' : g # h => Range(sent'[g].at) \cap Range(sent'[h].at) = {}
        /\ \A g, h \in DOMAIN sent' : desc'[g].indirect /\ desc'[h].indirect => g = h
    <2>1. \A h \in DOMAIN sent' : ChainAt(h)'
      BY <1>3, <1>5
    <2>2. ASSUME NEW g \in DOMAIN sent', NEW h \in DOMAIN sent', g # h
          PROVE  Range(sent'[g].at) \cap Range(sent'[h].at) = {}
      <3>1. sent'[h0].at = s
        BY <1>3
      <3>2. \A x, y \in DOMAIN sent : x # y => Range(sent[x].at) \cap Range(sent[y].at) = {}
        BY DEF ChainInv
      <3> QED
        BY <1>3, <1>4, <2>2, <3>1, <3>2
    <2>3. ASSUME NEW g \in DOMAIN sent', NEW h \in DOMAIN sent', desc'[g].indirect, desc'[h].indirect
          PROVE  g = h
      <3>2. \A x, y \in DOMAIN sent : desc[x].indirect /\ desc[y].indirect => x = y
        BY DEF ChainInv
      <3> QED
        BY <1>3, <1>5, <2>3, <3>2
    <2> QED
      BY <2>1, <2>2, <2>3
  <1>7. /\ avail' \in Seq(DOMAIN sent') /\ \A m, n \in 1 .. Len(avail') : avail'[m] = avail'[n] => m = n
        /\ Range(avail') = Range(avail) \cup {h0}
    <2>1. /\ avail \in Seq(DOMAIN sent)
          /\ \A m, n \in 1 .. Len(avail) : avail[m] = avail[n] => m = n
      BY DEF ChainInv
    <2>2. avail \in Seq(DOMAIN sent') /\ h0 \in DOMAIN sent'
      BY <1>3, <2>1, SeqMonotonic
    <2>3. /\ avail' \in Seq(DOMAIN sent') /\ Len(avail') = Len(avail) + 1
          /\ \A m \in 1 .. Len(avail) : avail'[m] = avail[m]
          /\ avail'[Len(avail) + 1] = h0
      BY <1>3, <2>2, AppendProperties
    <2>4. /\ DOMAIN avail' = 1 .. Len(avail) + 1 /\ DOMAIN avail = 1 .. Len(avail) /\ Len(avail) \in Nat
          /\ \A m \in 1 .. Len(avail) : avail[m] \in DOMAIN sent
      BY <2>1, <2>3, LenProperties, ElementOfSeq
    <2>5. \A m \in 1 .. Len(avail) + 1 : m = Len(avail) + 1 \/ m \in 1 .. Len(avail)
      BY <2>4
    <2>6. \A m, n \in 1 .. Len(avail') : avail'[m] = avail'[n] => m = n
      BY <2>1, <2>3, <2>4, <2>5
    <2>7. Range(avail') = Range(avail) \cup {h0}
      <3>1. 1 .. Len(avail) + 1 = (1 .. Len(avail)) \cup {Len(avail) + 1}
        BY <2>4
      <3> QED
        BY <2>3, <2>4, <3>1 DEF Range
    <2> QED
      BY <2>3, <2>6, <2>7
  <1>8. req' # NoReq => req'.head \in DOMAIN sent' \ Range(avail')
    BY <1>3, <1>7 DEF ChainInv, reqVars
  <1>9. ChainInv'
    BY <1>6, <1>7, <1>8 DEF ChainInv
  <1>10. WalkInv'
    <2>1. req # NoReq => sent'[req.head] = sent[req.head] /\ desc'[req.head] = desc[req.head]
      BY <1>3, <1>5 DEF ChainInv
    <2> QED
      BY <2>1, WalkFrame DEF reqVars
  <1> QED
    BY <1>2, <1>9, <1>10

LEMMA SubmitInv ==
    ASSUME NEW c \in Chains, LoopInv, ChainInv, WalkInv, submit(c)
    PROVE  LoopInv' /\ ChainInv' /\ WalkInv'
  <1>1. PICK s \in [1 .. Len(c) -> FreeDesc] :
            /\ IsInjective(s)
            /\ desc' = [h \in Heads |->
                           IF \E k \in DOMAIN s : s[k] = h
                           THEN LET k == CHOOSE k \in DOMAIN s : s[k] = h
                                IN Descriptor(c, k, s[k + 1])
                           ELSE desc[h]]
            /\ send(c, s)
    BY DEF submit
  <1>2. /\ Started
        /\ UNCHANGED <<advance, hostVars, host_addr, ring, table, drv, reqVars, i, pc, lost, countVars>>
    BY DEF submit
  <1>3. 1 \in 1 .. Len(c) /\ DOMAIN s = 1 .. Len(c) /\ Len(c) \in Nat
    BY TheChain, Sizes
  <1>4. FreeDesc \subseteq Heads
    BY DEF FreeDesc
  <1>5. s[1] \in FreeDesc /\ s[1] \in Range(s) /\ Range(s) \subseteq FreeDesc
    BY <1>3 DEF Range
  <1>6. s[1] \notin DOMAIN sent
    <2>1. \A h \in DOMAIN sent : h \in Range(sent[h].at)
      BY DEF ChainInv, ChainAt
    <2> QED
      BY <1>5, <2>1 DEF FreeDesc
  <1>7. DOMAIN desc' = Heads /\ \A x \in Heads : x \notin Range(s) => desc'[x] = desc[x]
    BY <1>1 DEF Range
  <1>8. ASSUME NEW k \in 1 .. Len(c) PROVE desc'[s[k]] = Descriptor(c, k, s[k + 1])
    <2> DEFINE l == CHOOSE l \in DOMAIN s : s[l] = s[k]
    <2>1. s[k] \in Heads /\ \E m \in DOMAIN s : s[m] = s[k]
      BY <1>3, <1>4
    <2>2. l \in DOMAIN s /\ s[l] = s[k]
      BY <2>1
    <2>3. l = k
      BY <1>1, <1>3, <2>2 DEF IsInjective
    <2>4. desc'[s[k]] = Descriptor(c, l, s[l + 1])
      BY <1>1, <2>1
    <2> QED
      BY <2>3, <2>4
  <1>9. desc'[s[1]].indirect = FALSE
    <2>1. desc'[s[1]] = Descriptor(c, 1, s[1 + 1])
      BY <1>3, <1>8
    <2> QED
      BY <2>1 DEF Descriptor
  <1>10. sent'[s[1]] = [chain |-> c, at |-> s]
    BY <1>1, <1>6 DEF send
  <1>11. ChainAt(s[1])'
    <2>1. sent'[s[1]].chain = c /\ sent'[s[1]].at = s
      BY <1>10
    <2>2. s \in [1 .. Len(c) -> Heads] /\ s[1] \in Heads
      BY <1>3, <1>4
    <2>3. \A k \in 1 .. Len(c) : desc'[s[k]] = Descriptor(c, k, s[k + 1])'
      BY <1>2, <1>8 DEF Descriptor
    <2> QED
      BY <1>5, <1>9, <2>1, <2>2, <2>3 DEF ChainAt
  <1> QED
    BY <1>1, <1>2, <1>5, <1>6, <1>7, <1>9, <1>11, SendInv

LEMMA SubmitIndirectInv ==
    ASSUME NEW c \in Chains, LoopInv, ChainInv, WalkInv, submit_indirect(c)
    PROVE  LoopInv' /\ ChainInv' /\ WalkInv'
  <1> DEFINE d == [NoDesc EXCEPT !.addr = Addr(drv, TableAt), !.len = Len(c), !.indirect = TRUE]
  <1>1. PICK h0 \in FreeDesc :
            /\ table' = [k \in 0 .. Len(c) - 1 |-> Descriptor(c, k + 1, k + 1)]
            /\ desc' = [desc EXCEPT ![h0] = d]
            /\ send(c, <<h0>>)
    BY DEF submit_indirect
  <1>2. /\ Started /\ table = <<>>
        /\ UNCHANGED <<advance, hostVars, host_addr, ring, drv, reqVars, i, pc, lost, countVars>>
    BY DEF submit_indirect
  <1>3. d.addr = Addr(drv, TableAt) /\ d.len = Len(c) /\ d.indirect = TRUE
    BY DEF NoDesc
  <1> HIDE DEF d
  <1>4. h0 \in Heads
    BY DEF FreeDesc
  <1>5. h0 \notin DOMAIN sent
    <2>1. \A h \in DOMAIN sent : h \in Range(sent[h].at)
      BY DEF ChainInv, ChainAt
    <2> QED
      BY <2>1 DEF FreeDesc
  <1>6. Range(<<h0>>) = {h0}
    BY DEF Range
  <1>7. DOMAIN desc = Heads
    BY DEF ChainInv
  <1>8. /\ DOMAIN desc' = Heads /\ desc'[h0] = d
        /\ \A x \in Heads : x # h0 => desc'[x] = desc[x]
    BY <1>1, <1>4, <1>7
  <1>9. ASSUME NEW h \in DOMAIN sent PROVE ~ desc[h].indirect
    <2> DEFINE b == sent[h].chain
    <2> SUFFICES ASSUME desc[h].indirect PROVE FALSE
      OBVIOUS
    <2>1. ChainAt(h)
      BY DEF ChainInv
    <2>2. b \in Chains /\ table = [k \in 0 .. Len(b) - 1 |-> Descriptor(b, k + 1, k + 1)]
      BY <2>1 DEF ChainAt
    <2>3. Len(b) \in Nat /\ Len(b) >= 2
      BY <2>2, TheChain, Sizes
    <2> HIDE DEF b
    <2>4. 0 \in DOMAIN table
      BY <2>2, <2>3
    <2> QED
      BY <1>2, <2>4
  <1>10. sent'[h0] = [chain |-> c, at |-> <<h0>>]
    BY <1>1, <1>5 DEF send
  <1>11. ChainAt(h0)'
    <2>1. sent'[h0].chain = c /\ sent'[h0].at = <<h0>>
      BY <1>10
    <2>2. table' = [k \in 0 .. Len(c) - 1 |-> Descriptor(c, k + 1, k + 1)']
      BY <1>1, <1>2 DEF Descriptor
    <2>3. desc'[h0].indirect /\ desc'[h0].addr = Addr(drv', TableAt) /\ desc'[h0].len = Len(c)
      BY <1>2, <1>3, <1>8
    <2> QED
      BY <1>4, <1>6, <2>1, <2>2, <2>3 DEF ChainAt
  <1>12. h0 \in Range(<<h0>>) /\ Range(<<h0>>) \subseteq FreeDesc
    BY <1>6
  <1>13. \A x \in Heads : x \notin Range(<<h0>>) => desc'[x] = desc[x]
    BY <1>6, <1>8
  <1> QED
    BY <1>1, <1>2, <1>5, <1>8, <1>9, <1>11, <1>12, <1>13, SendInv

\* Nothing is sent to, and no request is worked on, while the guest or the queue
\* comes or goes.
LEMMA OutsideInv ==
    ASSUME WalkInv, ChainInv, pc \notin Working \cup Dead, pc' \notin Working,
           UNCHANGED <<req, tab>>,
           UNCHANGED <<desc, table, avail, sent>>, drv' = drv \/ sent = <<>>
    PROVE  ChainInv' /\ WalkInv'
  <1>1. req = NoReq /\ tab = NoTab
    BY DEF WalkInv, Dead
  <1>2. WalkInv'
    BY <1>1, NoWalk
  <1>3. ChainInv'
    BY <1>1, ChainFrame
  <1> QED
    BY <1>2, <1>3

LEMMA GuestInv ==
    ASSUME LoopInv, ChainInv, WalkInv,
           \/ demu_initialize \/ demu_deinitialize \/ demu_map_guest_ram \/ demu_unmap_guest_ram
           \/ map_ring \/ unmap_ring \/ \E d \in Drivers : virtio_init_device_vq(d)
    PROVE  LoopInv' /\ ChainInv' /\ WalkInv'
  <1>1. CASE demu_initialize
    <2>1. /\ pc \notin Working \cup Dead /\ pc' \notin Working
          /\ UNCHANGED <<req, tab, desc, table, avail, sent, drv>>
      BY <1>1 DEF demu_initialize, Working, Dead, guestVars, reqVars
    <2> QED
      BY <1>1, <2>1, LoopGuests, OutsideInv
  <1>2. CASE demu_deinitialize
    <2>1. /\ pc \notin Working \cup Dead /\ pc' \notin Working
          /\ UNCHANGED <<req, tab, desc, table, avail, sent, drv>>
      BY <1>2 DEF demu_deinitialize, Working, Dead, guestVars, reqVars
    <2> QED
      BY <1>2, <2>1, LoopGuests, OutsideInv
  <1>3. CASE demu_map_guest_ram
    <2>1. /\ pc = "map_ram" /\ UNCHANGED <<guestVars, reqVars>>
      BY <1>3 DEF demu_map_guest_ram
    <2>2. pc' \in {"map_ram", "unmap_ram", "run"}
      BY <1>3, <2>1, MapRamFacts
    <2>3. /\ pc \notin Working \cup Dead /\ pc' \notin Working
          /\ UNCHANGED <<req, tab, desc, table, avail, sent, drv>>
      BY <2>1, <2>2 DEF Working, Dead, guestVars, reqVars
    <2> QED
      BY <1>3, <2>3, LoopMapRam, OutsideInv
  <1>4. CASE demu_unmap_guest_ram
    <2>1. /\ pc = "unmap_ram" /\ UNCHANGED <<guestVars, reqVars>>
      BY <1>4 DEF demu_unmap_guest_ram
    <2>2. pc' \in {"unmap_ram", "off"}
      BY <1>4, <2>1, UnmapRamFacts
    <2>3. /\ pc \notin Working \cup Dead /\ pc' \notin Working
          /\ UNCHANGED <<req, tab, desc, table, avail, sent, drv>>
      BY <2>1, <2>2 DEF Working, Dead, guestVars, reqVars
    <2> QED
      BY <1>4, <2>3, LoopUnmapRam, OutsideInv
  <1>5. CASE map_ring
    <2>1. /\ pc = "map_ring" /\ UNCHANGED <<guestVars, reqVars>>
      BY <1>5 DEF map_ring
    <2>2. pc' \in {"map_ring", "bug", "run", "no_ring"}
      BY <1>5, <2>1, MapRingFacts
    <2>3. /\ pc \notin Working \cup Dead /\ pc' \notin Working
          /\ UNCHANGED <<req, tab, desc, table, avail, sent, drv>>
      BY <2>1, <2>2 DEF Working, Dead, guestVars, reqVars
    <2> QED
      BY <1>5, <2>3, LoopMapRing, OutsideInv
  <1>6. CASE unmap_ring
    <2>1. /\ pc = "unmap_ring" /\ UNCHANGED <<desc, table, avail, sent, reqVars>> /\ sent = <<>>
      BY <1>6, UnmapRingFacts
    <2>2. pc' \in {"unmap_ring", "run"}
      BY <1>6, <2>1, UnmapRingFacts
    <2>3. /\ pc \notin Working \cup Dead /\ pc' \notin Working
          /\ UNCHANGED <<req, tab, desc, table, avail, sent>> /\ sent = <<>>
      BY <2>1, <2>2 DEF Working, Dead, reqVars
    <2> QED
      BY <1>6, <2>3, LoopUnmapRing, OutsideInv
  <1>7. ASSUME NEW d \in Drivers, virtio_init_device_vq(d) PROVE LoopInv' /\ ChainInv' /\ WalkInv'
    <2>1. /\ pc = "run" /\ pc' = "map_ring" /\ drv = NoDrv
          /\ UNCHANGED <<req, tab, desc, table, avail, sent>>
      BY <1>7 DEF virtio_init_device_vq, reqVars
    <2>2. sent = <<>>
      BY <2>1 DEF LoopInv, RingInv
    <2>3. pc \notin Working \cup Dead /\ pc' \notin Working
      BY <2>1 DEF Working, Dead
    <2> QED
      BY <1>7, <2>1, <2>2, <2>3, LoopLoad, OutsideInv
  <1> QED
    BY <1>1, <1>2, <1>3, <1>4, <1>5, <1>6, <1>7

LEMMA ExitInv ==
    LoopInv /\ ChainInv /\ WalkInv /\ virtio_exit_vq => LoopInv' /\ ChainInv' /\ WalkInv'
  <1> SUFFICES ASSUME LoopInv, ChainInv, WalkInv, virtio_exit_vq
               PROVE  LoopInv' /\ ChainInv' /\ WalkInv'
    OBVIOUS
  <1>1. /\ pc = "run" /\ pc' = "unmap_ring" /\ UNCHANGED <<req, tab>>
        /\ sent' = <<>> /\ avail' = <<>> /\ desc' = [h \in Heads |-> NoDesc]
    BY DEF virtio_exit_vq, reqVars
  <1>2. req = NoReq /\ tab = NoTab
    BY <1>1 DEF WalkInv, Working, Dead
  <1>3. WalkInv'
    BY <1>1, <1>2, NoWalk DEF Working
  <1>4. DOMAIN sent' = {} /\ DOMAIN desc' = Heads /\ Len(avail') = 0 /\ avail' \in Seq({})
    BY <1>1
  <1>5. ChainInv'
    BY <1>1, <1>2, <1>4 DEF ChainInv
  <1> QED
    BY <1>3, <1>5, LoopExit

\* Loops, chains and the walk, in every step.
LEMMA StepInv ==
    LoopInv /\ ChainInv /\ WalkInv /\ [Next]_vars => LoopInv' /\ ChainInv' /\ WalkInv'
  <1> SUFFICES ASSUME LoopInv, ChainInv, WalkInv, [Next]_vars
               PROVE  LoopInv' /\ ChainInv' /\ WalkInv'
    OBVIOUS
  <1>1. CASE UNCHANGED vars
    <2>1. /\ UNCHANGED <<advance, host, use_gnttab, host_addr, ring, desc, table, avail, drv, sent>>
          /\ UNCHANGED <<req, tab, idx, i, pc, lost, guests, loads>>
      BY <1>1 DEF vars, hostVars, guestVars, reqVars, countVars
    <2>2. LoopInv'
      <3>1. Types'
        BY <2>1 DEF LoopInv, Types
      <3>2. RamInv'
        BY <2>1, Constant DEF LoopInv, RamInv
      <3>3. RingInv'
        BY <2>1, Constant DEF LoopInv, RingInv
      <3> QED
        BY <3>1, <3>2, <3>3 DEF LoopInv
    <2>3. ChainInv'
      BY <2>1, ChainFrame
    <2>4. WalkInv'
      BY <2>1, WalkFrame
    <2> QED
      BY <2>2, <2>3, <2>4
  <1>2. CASE Next
    <2>1. CASE \E c \in Chains : submit(c) \/ submit_indirect(c)
      BY <2>1, SubmitInv, SubmitIndirectInv
    <2>2. CASE \/ virt_queue__get_iov \/ virt_queue__get_head_iov \/ unmap_table
               \/ segment_fault \/ virtio_blk_complete \/ unmap_segment \/ drop
      BY <2>2, TakeInv, SegmentInv, TableInv, FaultInv, CompleteInv, UnmapSegmentInv, DropInv
    <2>3. CASE \/ demu_initialize \/ demu_deinitialize \/ demu_map_guest_ram \/ demu_unmap_guest_ram
               \/ map_ring \/ unmap_ring \/ \E d \in Drivers : virtio_init_device_vq(d)
      BY <2>3, GuestInv
    <2>4. CASE virtio_exit_vq
      BY <2>4, ExitInv
    <2> QED
      BY <1>2, <2>1, <2>2, <2>3, <2>4 DEF Next
  <1> QED
    BY <1>1, <1>2

(***************************************************************************)
(* What the process holds                                                  *)
(***************************************************************************)

LEMMA BankSame ==
    ASSUME host_addr' = host_addr, NEW r
    PROVE  ThroughBank(r)' = ThroughBank(r)
  BY Constant DEF ThroughBank, InBank, demu_init_guest_ram

LEMMA RamSame ==
    ASSUME host_addr' = host_addr
    PROVE  RamHeld' = RamHeld
  BY Constant DEF RamHeld, RamRange

\* Nothing is mapped or unmapped.
LEMMA HeldSame ==
    ASSUME MapInv, UNCHANGED <<advance, host, host_addr, lost>>, Reached' = Reached
    PROVE  MapInv'
  <1>1. Held' = Held
    BY RamSame DEF Held
  <1>2. Parted(host, lost, Held)
    BY DEF MapInv
  <1>3. Parted(host', lost', Held')
    BY <1>1, <1>2
  <1>4. ASSUME advance', NEW t \in Reached' PROVE ThroughBank(t[3])'
    <2>1. ThroughBank(t[3])
      BY <1>4 DEF MapInv
    <2> QED
      BY <2>1, BankSame
  <1> QED
    BY <1>3, <1>4 DEF MapInv

\* A buffer is reached, unless the mapping has failed.
LEMMA HeldGains ==
    ASSUME LoopInv, MapInv, UNCHANGED <<advance, host_addr, lost>>,
           NEW addr \in Addresses, NEW size \in Nat \ {0}, Buffer(addr.at, size),
           NEW prot \in {"r", "w", "rw"}, NEW what,
           NEW ptr \in Reachable(addr, size, what), Reach(ptr, addr, size, prot),
           NEW a, NEW b, NEW r,
           r = [ptr |-> ptr, at |-> addr.at, size |-> size, prot |-> prot, grant |-> addr.grant],
           Reached' = IF ptr = NULL THEN Reached ELSE Reached \cup {<<a, b, r>>}
    PROVE  MapInv'
  <1>1. /\ advance \in BOOLEAN /\ use_gnttab \in {-1, 0, 1} /\ (advance => use_gnttab = -1)
        /\ host_addr \in [1 .. 2 -> Nat]
    BY DEF LoopInv, Types
  <1>2. /\ advance \/ ptr = NULL => host' = host
        /\ advance /\ ptr # NULL => ThroughBank(r)
        /\ ~ advance /\ ptr # NULL =>
               \A L, S, x, y : Parted(host, L, S) => Parted(host', L, S \cup {<<x, y, r>>})
    BY <1>1, ReachStep
  <1>3. Parted(host, lost, Held) /\ RamHeld' = RamHeld
    BY RamSame DEF MapInv
  <1> HIDE DEF NULL
  <1>4. CASE ptr = NULL
    <2>1. Reached' = Reached /\ host' = host
      BY <1>2, <1>4
    <2> QED
      BY <2>1, HeldSame
  <1>5. CASE ptr # NULL /\ advance
    <2>1. host' = host /\ Held' = Held
      BY <1>2, <1>3, <1>5 DEF Held
    <2>2. ThroughBank(r)
      BY <1>2, <1>5
    <2>3. ASSUME NEW t \in Reached' PROVE ThroughBank(t[3])'
      <3>1. CASE t \in Reached
        <4>1. ThroughBank(t[3])
          BY <1>5, <3>1 DEF MapInv
        <4> QED
          BY <4>1, BankSame
      <3>2. CASE t = <<a, b, r>>
        <4>1. ThroughBank(r)'
          BY <2>2, BankSame
        <4>2. t[3] = r
          BY <3>2
        <4> QED
          BY <4>1, <4>2
      <3> QED
        BY <1>5, <3>1, <3>2
    <2> QED
      BY <1>3, <2>1, <2>3 DEF MapInv
  <1>6. CASE ptr # NULL /\ ~ advance
    <2>1. Held = RamHeld \cup Reached /\ Held' = RamHeld \cup (Reached \cup {<<a, b, r>>})
      BY <1>3, <1>6 DEF Held
    <2>2. Held' = Held \cup {<<a, b, r>>}
      BY <2>1
    <2>3. Parted(host', lost, Held \cup {<<a, b, r>>})
      BY <1>2, <1>3, <1>6
    <2>4. Parted(host', lost', Held')
      BY <2>2, <2>3
    <2> QED
      BY <1>6, <2>4 DEF MapInv
  <1> QED
    BY <1>1, <1>4, <1>5, <1>6

\* A buffer is released, if it was mapped at all.
LEMMA HeldLoses ==
    ASSUME LoopInv, MapInv, UNCHANGED <<advance, host_addr, lost>>,
           NEW a, NEW b, NEW r, r.size \in Nat \ {0}, r.size <= FirstPage * PageSize,
           Release(r.ptr, r.size),
           IF r.ptr = NULL THEN Reached' = Reached
           ELSE <<a, b, r>> \in Reached /\ Reached' = Reached \ {<<a, b, r>>}
    PROVE  MapInv'
  <1>0. advance \in BOOLEAN
    BY DEF LoopInv, Types
  <1>1. Parted(host, lost, Held) /\ RamHeld' = RamHeld
    BY RamSame DEF MapInv
  <1> HIDE DEF NULL
  <1>2. CASE advance
    <2>1. host' = host /\ Held' = Held /\ Reached' \subseteq Reached
      BY <1>1, <1>2 DEF Held, Release
    <2>2. ASSUME NEW t \in Reached' PROVE ThroughBank(t[3])'
      <3>1. ThroughBank(t[3])
        BY <1>2, <2>1 DEF MapInv
      <3> QED
        BY <3>1, BankSame
    <2> QED
      BY <1>1, <2>1, <2>2 DEF MapInv
  <1>3. CASE ~ advance
    <2>1. demu_unmap_guest_range(r.ptr, r.size)
      BY <1>3 DEF Release
    <2>2. /\ r.ptr = NULL => Parted(host', lost, Held)
          /\ <<a, b, r>> \in Held => Parted(host', lost, Held \ {<<a, b, r>>})
      BY <1>1, <2>1, UnmapStep
    <2>3. RamHeld = {}
      BY <1>3 DEF LoopInv, RamInv, RamHeld
    <2>4. Held = Reached /\ Held' = Reached'
      BY <1>1, <1>3, <2>3 DEF Held
    <2>5. Parted(host', lost', Held')
      <3>1. CASE r.ptr = NULL
        BY <2>2, <2>4, <3>1
      <3>2. CASE r.ptr # NULL
        BY <2>2, <2>4, <3>2
      <3> QED
        BY <3>1, <3>2
    <2> QED
      BY <1>3, <2>5 DEF MapInv
  <1> QED
    BY <1>0, <1>2, <1>3

\* The rings, the segments and the table, when a step leaves them alone.
LEMMA RingSame ==
    ASSUME UNCHANGED <<ring, drv>>, RingsMapped' = RingsMapped
    PROVE  RingHeld' = RingHeld
  <1>1. \A k : RingRange(k)' = RingRange(k)
    BY Constant DEF RingRange
  <1> QED
    BY <1>1 DEF RingHeld

LEMMA RingsSame ==
    ASSUME LoopInv, UNCHANGED <<ring, drv>>, pc # "unmap_ring", pc' = "unmap_ring" => i' = 1
    PROVE  RingHeld' = RingHeld
  <1>1. \A k \in DOMAIN ring : k >= 1
    <2>1. ring \in Seq([ptr : Nat, size : Nat])
      BY DEF LoopInv, Types
    <2>2. DOMAIN ring = 1 .. Len(ring) /\ Len(ring) \in Nat
      BY <2>1, LenProperties
    <2> QED
      BY <2>2
  <1>2. RingsMapped' = RingsMapped
    BY <1>1 DEF RingsMapped, NULL
  <1> QED
    BY <1>2, RingSame

LEMMA NoRings ==
    ASSUME ring = <<>>
    PROVE  RingHeld = {}
  <1>1. DOMAIN ring = {}
    OBVIOUS
  <1> QED
    BY <1>1 DEF RingHeld, RingsMapped

LEMMA NoSegments ==
    ASSUME req = NoReq
    PROVE  SegHeld = {}
  BY DEF SegHeld, Segments

LEMMA SegSame ==
    ASSUME UNCHANGED <<req, drv>>, Segments' = Segments,
           req # NoReq => sent'[req.head] = sent[req.head]
    PROVE  SegHeld' = SegHeld
  <1>1. CASE req = NoReq
    <2>1. SegHeld = {}
      BY <1>1, NoSegments
    <2>2. SegHeld' = {}
      BY <1>1 DEF SegHeld, Segments
    <2> QED
      BY <2>1, <2>2
  <1>2. CASE req # NoReq
    <2>1. Chain' = Chain
      BY <1>2 DEF Chain
    <2>2. \A k : SegRange(k)' = SegRange(k)
      BY <2>1 DEF SegRange
    <2> QED
      BY <2>2 DEF SegHeld
  <1> QED
    BY <1>1, <1>2

LEMMA SegsSame ==
    ASSUME WalkInv, UNCHANGED <<req, drv>>, pc # "complete", pc' = "complete" => i' = 1,
           req # NoReq => sent'[req.head] = sent[req.head]
    PROVE  SegHeld' = SegHeld
  <1>1. CASE req = NoReq
    <2>1. Segments' = Segments
      BY <1>1 DEF Segments
    <2> QED
      BY <2>1, SegSame
  <1>2. CASE req # NoReq
    <2>1. req.iov \in Seq([base : Nat, len : Nat])
      BY <1>2 DEF WalkInv
    <2>2. DOMAIN req.iov = 1 .. Len(req.iov) /\ Len(req.iov) \in Nat
      BY <2>1, LenProperties
    <2>3. \A k \in DOMAIN req.iov : k >= 1
      BY <2>2
    <2>4. Segments' = Segments
      BY <1>2, <2>3 DEF Segments, NULL
    <2> QED
      BY <2>4, SegSame
  <1> QED
    BY <1>1, <1>2

LEMMA TabSame ==
    ASSUME UNCHANGED <<tab, drv>>
    PROVE  TabHeld' = TabHeld
  BY DEF TabHeld, TabRange

LEMMA NoTable ==
    ASSUME tab = NoTab
    PROVE  TabHeld = {}
  BY DEF TabHeld, NoTab

LEMMA MapInit == Init => MapInv
  <1> SUFFICES ASSUME Init PROVE MapInv
    OBVIOUS
  <1>1. /\ host = <<>> /\ lost = {} /\ host_addr = <<NULL, NULL>> /\ ring = <<>> /\ req = NoReq
        /\ tab = NoTab
    BY DEF Init
  <1>2. Reached = {}
    BY <1>1, NoRings, NoSegments, NoTable DEF Reached
  <1>3. RamHeld = {}
    BY <1>1 DEF RamHeld
  <1>4. Held = {} /\ DOMAIN host = {}
    BY <1>1, <1>2, <1>3 DEF Held
  <1>5. Parted(host, lost, Held)
    BY <1>1, <1>4 DEF Parted
  <1> QED
    BY <1>2, <1>5 DEF MapInv

\* Outside of requests no segment and no table is held.
LEMMA Idle ==
    ASSUME WalkInv, pc \notin Working \cup Dead
    PROVE  req = NoReq /\ tab = NoTab /\ SegHeld = {} /\ TabHeld = {}
  BY NoSegments, NoTable DEF WalkInv, Dead

LEMMA IdleAfter ==
    ASSUME req' = NoReq
    PROVE  SegHeld' = {}
  BY DEF SegHeld, Segments

LEMMA NoTableAfter ==
    ASSUME tab' = NoTab
    PROVE  TabHeld' = {}
  BY DEF TabHeld, NoTab

LEMMA NoRingsAfter ==
    ASSUME ring' = <<>>
    PROVE  RingHeld' = {}
  <1>1. DOMAIN ring' = {}
    OBVIOUS
  <1> QED
    BY <1>1 DEF RingHeld, RingsMapped

LEMMA MapGuests ==
    ASSUME LoopInv, WalkInv, MapInv, demu_initialize \/ demu_deinitialize
    PROVE  MapInv'
  <1>1. /\ UNCHANGED <<advance, host, host_addr, lost, ring, drv, req, tab>>
        /\ pc \in {"off", "run"} /\ pc' # "unmap_ring"
    BY DEF demu_initialize, demu_deinitialize, guestVars, reqVars, hostVars
  <1>2. req = NoReq /\ tab = NoTab /\ SegHeld = {} /\ TabHeld = {}
    BY <1>1, Idle DEF Working, Dead
  <1>3. SegHeld' = {} /\ TabHeld' = {}
    BY <1>1, <1>2, IdleAfter, NoTableAfter
  <1>4. RingHeld' = RingHeld
    BY <1>1, RingsSame
  <1>5. Reached' = Reached
    BY <1>2, <1>3, <1>4 DEF Reached
  <1> QED
    BY <1>1, <1>5, HeldSame

LEMMA MapLoad ==
    ASSUME LoopInv, WalkInv, MapInv, NEW d \in Drivers, virtio_init_device_vq(d)
    PROVE  MapInv'
  <1>1. /\ UNCHANGED <<advance, host, host_addr, lost, ring, req, tab>>
        /\ pc = "run" /\ drv = NoDrv
    BY DEF virtio_init_device_vq, reqVars, hostVars
  <1>2. req = NoReq /\ tab = NoTab /\ SegHeld = {} /\ TabHeld = {}
    BY <1>1, Idle DEF Working, Dead
  <1>3. SegHeld' = {} /\ TabHeld' = {}
    BY <1>1, <1>2, IdleAfter, NoTableAfter
  <1>4. ring = <<>>
    BY <1>1 DEF LoopInv, RingInv
  <1>5. RingHeld = {} /\ RingHeld' = {}
    BY <1>1, <1>4, NoRings, NoRingsAfter
  <1>6. Reached' = Reached
    BY <1>2, <1>3, <1>5 DEF Reached
  <1> QED
    BY <1>1, <1>6, HeldSame

LEMMA MapExit ==
    ASSUME LoopInv, WalkInv, MapInv, virtio_exit_vq
    PROVE  MapInv'
  <1>1. /\ UNCHANGED <<advance, host, host_addr, lost, ring, drv, req, tab, i>>
        /\ pc = "run"
    BY DEF virtio_exit_vq, reqVars, hostVars
  <1>2. req = NoReq /\ tab = NoTab /\ SegHeld = {} /\ TabHeld = {}
    BY <1>1, Idle DEF Working, Dead
  <1>3. SegHeld' = {} /\ TabHeld' = {}
    BY <1>1, <1>2, IdleAfter, NoTableAfter
  <1>4. i' = 1
    BY <1>1 DEF LoopInv, RingInv
  <1>5. RingHeld' = RingHeld
    BY <1>1, <1>4, RingsSame
  <1>6. Reached' = Reached
    BY <1>2, <1>3, <1>5 DEF Reached
  <1> QED
    BY <1>1, <1>6, HeldSame

\* Ring i is held once it is mapped.
LEMMA MapRing ==
    ASSUME LoopInv, WalkInv, MapInv, map_ring
    PROVE  MapInv'
  <1> DEFINE addr == Addr(drv, Rings(drv)[i].at)
             size == Rings(drv)[i].size
             n == i - 1
  <1>1. /\ pc = "map_ring" /\ drv \in Drivers
        /\ i \in 1 .. Len(Rings(drv)) /\ Len(ring) = i - 1
        /\ ring \in Seq([ptr : Nat, size : Nat])
        /\ UNCHANGED <<advance, host_addr, guestVars, reqVars, lost, countVars>>
    BY MapRingFacts
  <1>2. PICK ptr \in Nat :
            /\ ptr \in Reachable(addr, size, "ring")
            /\ Reach(ptr, addr, size, "rw")
            /\ ring' = Append(ring, [ptr |-> ptr, size |-> size])
            /\ IF Asserts(addr) THEN i' = 1 /\ pc' = "bug"
               ELSE IF i < Len(Rings(drv)) THEN i' = i + 1 /\ pc' = pc
               ELSE i' = 1 /\ pc' \in {"run", "no_ring"}
    BY MapRingFacts
  <1>3. /\ addr \in Addresses /\ addr.at = Rings(drv)[i].at /\ addr.grant = drv.grant
        /\ size \in Nat \ {0} /\ Buffer(addr.at, size)
    BY <1>1, ARing
  <1> DEFINE r == [ptr |-> ptr, at |-> addr.at, size |-> size, prot |-> "rw", grant |-> addr.grant]
  <1>4. req = NoReq /\ tab = NoTab /\ SegHeld = {} /\ TabHeld = {}
    BY <1>1, Idle DEF Working, Dead
  <1>5. SegHeld' = {} /\ TabHeld' = {}
    BY <1>1, <1>4, IdleAfter, NoTableAfter DEF reqVars
  <1>6. pc' # "unmap_ring" /\ pc # "unmap_ring"
    BY <1>1, <1>2
  <1>7. drv' = drv
    BY <1>1 DEF guestVars
  <1>8. r = [ptr |-> ptr, at |-> Rings(drv)[i].at, size |-> size, prot |-> "rw", grant |-> drv.grant]
    BY <1>3
  <1> HIDE DEF addr, size, r
  <1>9. /\ DOMAIN ring' = DOMAIN ring \cup {i} /\ i \notin DOMAIN ring
        /\ ring'[i] = [ptr |-> ptr, size |-> size]
        /\ \A k \in DOMAIN ring : ring'[k] = ring[k]
    <2> DEFINE RR == [ptr : Nat, size : Nat]
               x == [ptr |-> ptr, size |-> size]
    <2>1. x \in RR /\ ring \in Seq(RR) /\ ring' = Append(ring, x)
      BY <1>1, <1>2, <1>3
    <2> HIDE DEF RR, x
    <2>2. ring' \in Seq(RR) /\ Len(ring') = Len(ring) + 1 /\ ring'[Len(ring) + 1] = x
          /\ \A k \in 1 .. Len(ring) : ring'[k] = ring[k]
      BY <2>1, AppendProperties
    <2>3. DOMAIN ring' = 1 .. Len(ring') /\ DOMAIN ring = 1 .. Len(ring) /\ Len(ring) \in Nat
      BY <2>1, <2>2, LenProperties
    <2>4. Len(ring) + 1 = i
      BY <1>1, <2>3
    <2>5. 1 .. Len(ring) + 1 = (1 .. Len(ring)) \cup {Len(ring) + 1} /\ Len(ring) + 1 \notin 1 .. Len(ring)
      BY <2>3
    <2> QED
      BY <2>2, <2>3, <2>4, <2>5 DEF x
  <1>10. \A k \in DOMAIN ring : RingRange(k)' = RingRange(k)
    BY <1>7, <1>9, Constant DEF RingRange
  <1>11. \A k \in {i} : RingRange(k)' = r
    BY <1>7, <1>8, <1>9, Constant DEF RingRange
  <1>12. RingsMapped = {k \in DOMAIN ring : ring[k].ptr # NULL}
    BY <1>6 DEF RingsMapped
  <1>13. RingsMapped' = IF ptr = NULL THEN RingsMapped ELSE RingsMapped \cup {i}
    <2>1. RingsMapped' = {k \in DOMAIN ring' : ring'[k].ptr # NULL}
      BY <1>6 DEF RingsMapped, NULL
    <2>2. ring'[i].ptr = ptr
      BY <1>9
    <2> HIDE DEF NULL
    <2> QED
      BY <1>9, <1>12, <2>1, <2>2
  <1>14. RingHeld' = IF ptr = NULL THEN RingHeld ELSE RingHeld \cup {<<"ring", i, r>>}
    <2>1. RingHeld' = {<<"ring", k, RingRange(k)'>> : k \in RingsMapped'}
      BY DEF RingHeld
    <2>2. \A k \in RingsMapped : RingRange(k)' = RingRange(k)
      BY <1>10, <1>12
    <2>3. RingHeld = {<<"ring", k, RingRange(k)>> : k \in RingsMapped}
      BY DEF RingHeld
    <2>4. {<<"ring", k, RingRange(k)'>> : k \in RingsMapped} = RingHeld
      BY <2>2, <2>3
    <2>5. CASE ptr = NULL
      BY <1>13, <2>1, <2>4, <2>5
    <2>6. CASE ptr # NULL
      <3>1. RingsMapped' = RingsMapped \cup {i}
        BY <1>13, <2>6
      <3>2. RingHeld' = {<<"ring", k, RingRange(k)'>> : k \in RingsMapped}
                        \cup {<<"ring", k, RingRange(k)'>> : k \in {i}}
        BY <2>1, <3>1
      <3>3. {<<"ring", k, RingRange(k)'>> : k \in {i}} = {<<"ring", i, r>>}
        BY <1>11
      <3> QED
        BY <2>4, <2>6, <3>2, <3>3
    <2> QED
      BY <2>5, <2>6
  <1>15. Reached' = IF ptr = NULL THEN Reached ELSE Reached \cup {<<"ring", i, r>>}
    BY <1>4, <1>5, <1>14 DEF Reached
  <1>16. /\ UNCHANGED <<advance, host_addr, lost>>
         /\ r = [ptr |-> ptr, at |-> addr.at, size |-> size, prot |-> "rw", grant |-> addr.grant]
         /\ "rw" \in {"r", "w", "rw"}
    BY <1>1 DEF r
  <1> QED
    BY <1>2, <1>3, <1>15, <1>16, HeldGains

\* Ring i is no longer held.
LEMMA UnmapRing ==
    ASSUME LoopInv, WalkInv, MapInv, unmap_ring
    PROVE  MapInv'
  <1> DEFINE r == RingRange(i)
  <1>1. /\ pc = "unmap_ring" /\ drv \in Drivers
        /\ i \in 1 .. Len(ring) /\ Len(ring) = Len(Rings(drv)) /\ Len(ring) \in Nat
        /\ ring \in Seq([ptr : Nat, size : Nat])
        /\ Release(ring[i].ptr, ring[i].size)
        /\ UNCHANGED <<advance, use_gnttab, host_addr, desc, table, avail, sent, reqVars, lost,
                       countVars>>
        /\ IF i < Len(ring) THEN i' = i + 1 /\ pc' = pc /\ ring' = ring /\ drv' = drv
           ELSE i' = 1 /\ pc' = "run" /\ ring' = <<>> /\ drv' = NoDrv
    BY UnmapRingFacts
  <1>2. r.ptr = ring[i].ptr /\ r.size = ring[i].size
    BY DEF RingRange
  <1>3. r.size \in Nat \ {0} /\ r.size <= FirstPage * PageSize
    <2>1. ring[i].size = Rings(drv)[i].size
      BY <1>1, NoDriver DEF LoopInv, RingInv
    <2>2. Rings(drv)[i].size \in Nat \ {0} /\ Buffer(Rings(drv)[i].at, Rings(drv)[i].size)
      BY <1>1, ARing
    <2> QED
      BY <1>2, <2>1, <2>2 DEF Buffer
  <1>4. req = NoReq /\ tab = NoTab /\ SegHeld = {} /\ TabHeld = {}
    BY <1>1, Idle DEF Working, Dead
  <1>5. SegHeld' = {} /\ TabHeld' = {}
    BY <1>1, <1>4, IdleAfter, NoTableAfter DEF reqVars
  <1>6. DOMAIN ring = 1 .. Len(ring)
    BY <1>1, LenProperties
  <1>7. RingsMapped = {k \in 1 .. Len(ring) : ring[k].ptr # NULL /\ k >= i}
    BY <1>1, <1>6 DEF RingsMapped
  <1>8. RingHeld' = {<<"ring", k, RingRange(k)>> : k \in RingsMapped \ {i}}
    <2>1. CASE i < Len(ring)
      <3>1. i' = i + 1 /\ pc' = "unmap_ring" /\ ring' = ring /\ drv' = drv
        BY <1>1, <2>1
      <3>2. RingsMapped' = {k \in 1 .. Len(ring) : ring[k].ptr # NULL /\ k >= i + 1}
        BY <1>6, <3>1 DEF RingsMapped, NULL
      <3>3. i \in Nat /\ \A k \in 1 .. Len(ring) : k >= i + 1 <=> k >= i /\ k # i
        BY <1>1
      <3>4. RingsMapped' = RingsMapped \ {i}
        BY <1>7, <3>2, <3>3
      <3>5. \A k : RingRange(k)' = RingRange(k)
        BY <3>1, Constant DEF RingRange
      <3> QED
        BY <3>4, <3>5 DEF RingHeld
    <2>2. CASE ~ (i < Len(ring))
      <3>1. RingHeld' = {}
        BY <1>1, <2>2, NoRingsAfter
      <3>2. RingsMapped \ {i} = {}
        BY <1>1, <1>7, <2>2
      <3> QED
        BY <3>1, <3>2
    <2> QED
      BY <2>1, <2>2
  <1>9. IF r.ptr = NULL THEN RingHeld' = RingHeld
        ELSE <<"ring", i, r>> \in RingHeld /\ RingHeld' = RingHeld \ {<<"ring", i, r>>}
    <2>1. CASE r.ptr = NULL
      <3>1. RingsMapped \ {i} = RingsMapped
        BY <1>2, <1>7, <2>1
      <3> QED
        BY <1>8, <2>1, <3>1 DEF RingHeld
    <2>2. CASE r.ptr # NULL
      <3>1. i \in RingsMapped
        BY <1>1, <1>2, <1>7, <2>2
      <3>2. \A k : <<"ring", k, RingRange(k)>> = <<"ring", i, r>> => k = i
        OBVIOUS
      <3> QED
        BY <1>8, <2>2, <3>1, <3>2 DEF RingHeld
    <2> QED
      BY <2>1, <2>2
  <1>10. IF r.ptr = NULL THEN Reached' = Reached
         ELSE <<"ring", i, r>> \in Reached /\ Reached' = Reached \ {<<"ring", i, r>>}
    BY <1>4, <1>5, <1>9 DEF Reached
  <1>11. Release(r.ptr, r.size)
    BY <1>1, <1>2
  <1> QED
    BY <1>1, <1>3, <1>10, <1>11, HeldLoses

\* A request that is sent takes nothing from the one that is worked on.
LEMMA MapSent ==
    ASSUME LoopInv, ChainInv, WalkInv, MapInv, Started, NEW c, NEW s,
           s[1] \in FreeDesc, send(c, s),
           UNCHANGED <<advance, hostVars, host_addr, ring, drv, reqVars, i, pc, lost, countVars>>
    PROVE  MapInv'
  <1>1. /\ UNCHANGED <<advance, host, host_addr, lost, ring, drv, req, tab, i, pc>>
        /\ pc # "unmap_ring"
    BY DEF reqVars, hostVars, Started
  <1>2. ASSUME req # NoReq PROVE sent'[req.head] = sent[req.head]
    <2>1. req.head \in DOMAIN sent /\ req.head \in Range(sent[req.head].at)
      BY <1>2 DEF ChainInv, ChainAt
    <2>2. s[1] # req.head
      BY <2>1 DEF FreeDesc
    <2> QED
      BY <2>1, <2>2 DEF send
  <1>3. RingHeld' = RingHeld /\ TabHeld' = TabHeld
    BY <1>1, RingsSame, TabSame
  <1>4. Segments' = Segments
    BY <1>1 DEF Segments
  <1>5. SegHeld' = SegHeld
    BY <1>1, <1>2, <1>4, SegSame
  <1>6. Reached' = Reached
    BY <1>3, <1>5 DEF Reached
  <1> QED
    BY <1>1, <1>6, HeldSame

LEMMA MapSubmit ==
    ASSUME LoopInv, ChainInv, WalkInv, MapInv, NEW c \in Chains, submit(c) \/ submit_indirect(c)
    PROVE  MapInv'
  <1>1. CASE submit(c)
    <2>1. PICK s \in [1 .. Len(c) -> FreeDesc] : send(c, s)
      BY <1>1 DEF submit
    <2>2. 1 \in 1 .. Len(c)
      BY TheChain, Sizes
    <2>3. s[1] \in FreeDesc
      BY <2>2
    <2>4. /\ Started
          /\ UNCHANGED <<advance, hostVars, host_addr, ring, drv, reqVars, i, pc, lost, countVars>>
      BY <1>1 DEF submit
    <2> QED
      BY <2>1, <2>3, <2>4, MapSent
  <1>2. CASE submit_indirect(c)
    <2>1. PICK h \in FreeDesc : send(c, <<h>>)
      BY <1>2 DEF submit_indirect
    <2>2. <<h>>[1] \in FreeDesc
      OBVIOUS
    <2>3. /\ Started
          /\ UNCHANGED <<advance, hostVars, host_addr, ring, drv, reqVars, i, pc, lost, countVars>>
      BY <1>2 DEF submit_indirect
    <2> QED
      BY <2>1, <2>2, <2>3, MapSent
  <1> QED
    BY <1>1, <1>2

\* A request goes on to its end, or to a fault, with what it has.
LEMMA MapEnds ==
    ASSUME LoopInv, ChainInv, WalkInv, MapInv, segment_fault \/ virtio_blk_complete
    PROVE  MapInv'
  <1>1. /\ UNCHANGED <<advance, host, host_addr, lost, ring, drv, sent, req, tab, i>>
        /\ pc = "work" /\ pc' # "unmap_ring"
    BY DEF segment_fault, virtio_blk_complete, guestVars, hostVars, reqVars
  <1>2. i = 1
    BY <1>1 DEF LoopInv, RingInv
  <1>3. RingHeld' = RingHeld /\ TabHeld' = TabHeld /\ SegHeld' = SegHeld
    BY <1>1, <1>2, RingsSame, TabSame, SegsSame
  <1>4. Reached' = Reached
    BY <1>3 DEF Reached
  <1> QED
    BY <1>1, <1>4, HeldSame

\* The table is held once it is mapped.
LEMMA MapTake ==
    ASSUME LoopInv, ChainInv, WalkInv, MapInv, virt_queue__get_iov
    PROVE  MapInv'
  <1> DEFINE h == Head(avail)
             n == Len(sent[h].chain)
             addr == Addr(drv, TableAt)
  <1>1. /\ pc = "run" /\ req = NoReq /\ tab = NoTab
        /\ n \in Nat \ {0}
        /\ req' = [head |-> h, iov |-> <<>>, out |-> 0, in |-> 0]
        /\ UNCHANGED <<advance, host_addr, ring, desc, table, drv, sent, i, lost, countVars>>
        /\ addr \in Addresses /\ addr.at = TableAt /\ addr.grant = drv.grant
        /\ Buffer(TableAt, n)
        /\ \/ pc' = "walk" /\ UNCHANGED <<host, tab>>
           \/ \E ptr \in Nat :
                  /\ ptr \in Reachable(addr, n, "chain")
                  /\ Reach(ptr, addr, n, "r")
                  /\ tab' = [ptr |-> ptr, len |-> n]
                  /\ pc' \in {"bug", "fault", "walk"}
    BY TakeFacts
  <1>2. SegHeld = {} /\ TabHeld = {}
    BY <1>1, NoSegments, NoTable
  <1>3. SegHeld' = {}
    <2>1. req'.iov = <<>>
      BY <1>1
    <2>2. DOMAIN req'.iov = {}
      BY <2>1
    <2>3. Segments' = {}
      BY <2>2 DEF Segments
    <2> QED
      BY <2>3 DEF SegHeld
  <1>4. RingHeld' = RingHeld
    BY <1>1, RingsSame
  <1>5. CASE pc' = "walk" /\ UNCHANGED <<host, tab>>
    <2>1. TabHeld' = TabHeld
      BY <1>1, <1>5, TabSame
    <2>2. Reached' = Reached
      BY <1>2, <1>3, <1>4, <2>1 DEF Reached
    <2> QED
      BY <1>1, <1>5, <2>2, HeldSame
  <1>6. ASSUME NEW ptr \in Nat,
               ptr \in Reachable(addr, n, "chain"), Reach(ptr, addr, n, "r"),
               tab' = [ptr |-> ptr, len |-> n]
        PROVE  MapInv'
    <2> DEFINE r == [ptr |-> ptr, at |-> addr.at, size |-> n, prot |-> "r", grant |-> addr.grant]
    <2>1. TabRange' = r
      BY <1>1, <1>6 DEF TabRange
    <2> HIDE DEF r
    <2>2. tab'.ptr = ptr
      BY <1>6
    <2>3. TabHeld' = IF ptr = NULL THEN {} ELSE {<<"table", 1, r>>}
      BY <2>1, <2>2 DEF TabHeld, NULL
    <2>4. Reached' = IF ptr = NULL THEN Reached ELSE Reached \cup {<<"table", 1, r>>}
      BY <1>2, <1>3, <1>4, <2>3 DEF Reached
    <2>5. r = [ptr |-> ptr, at |-> addr.at, size |-> n, prot |-> "r", grant |-> addr.grant]
      BY DEF r
    <2>6. UNCHANGED <<advance, host_addr, lost>> /\ Buffer(addr.at, n) /\ "r" \in {"r", "w", "rw"}
      BY <1>1
    <2> HIDE DEF addr, n
    <2> QED
      BY <1>1, <1>6, <2>4, <2>5, <2>6, HeldGains
  <1> QED
    BY <1>1, <1>5, <1>6

\* It is not, once the chain has been walked.
LEMMA MapTable ==
    ASSUME LoopInv, ChainInv, WalkInv, MapInv, unmap_table
    PROVE  MapInv'
  <1> DEFINE r == TabRange
  <1>1. /\ pc = "walked" /\ pc' = "work" /\ tab' = NoTab
        /\ Release(tab.ptr, tab.len)
        /\ UNCHANGED <<advance, host_addr, lost, ring, drv, sent, req, i>>
    BY DEF unmap_table, guestVars
  <1>2. tab.ptr # NULL /\ tab.len = Len(Chain)
    BY <1>1 DEF WalkInv
  <1>3. r.ptr = tab.ptr /\ r.size = tab.len
    BY DEF TabRange
  <1>4. r.size \in Nat \ {0} /\ r.size <= FirstPage * PageSize
    <2>1. Chain \in Chains
      BY <1>1, ARequest DEF Working
    <2>2. Buffer(TableAt, Len(Chain))
      BY <2>1, TheChain
    <2> QED
      BY <1>2, <1>3, <2>2 DEF Buffer
  <1>5. RingHeld' = RingHeld /\ SegHeld' = SegHeld
    BY <1>1, RingsSame, SegsSame
  <1>6. TabHeld = {<<"table", 1, r>>} /\ TabHeld' = {}
    BY <1>1, <1>2, NoTableAfter DEF TabHeld
  <1>7. <<"table", 1, r>> \notin RingHeld \cup SegHeld
    BY DEF RingHeld, SegHeld
  <1>8. <<"table", 1, r>> \in Reached /\ Reached' = Reached \ {<<"table", 1, r>>}
    BY <1>5, <1>6, <1>7 DEF Reached
  <1>9. Release(r.ptr, r.size) /\ UNCHANGED <<advance, host_addr, lost>> /\ r.ptr # NULL
    BY <1>1, <1>2, <1>3
  <1> HIDE DEF r
  <1> QED
    BY <1>4, <1>8, <1>9, HeldLoses

\* A segment is held once it is mapped.
LEMMA MapSegment ==
    ASSUME LoopInv, ChainInv, WalkInv, MapInv, virt_queue__get_head_iov
    PROVE  MapInv'
  <1> DEFINE k == Len(req.iov) + 1
             addr == Addr(drv, Chain[k].at)
             size == Chain[k].len
             prot == IF Chain[k].write THEN "w" ELSE "r"
  <1>1. /\ pc = "walk" /\ k \in 1 .. Len(Chain)
        /\ addr \in Addresses /\ addr.at = Chain[k].at /\ addr.grant = drv.grant
        /\ size \in Nat \ {0} /\ Buffer(addr.at, size)
        /\ UNCHANGED <<advance, host_addr, ring, guestVars, tab, i, lost, countVars>>
    BY WalkFacts
  <1>2. PICK ptr \in Nat :
            /\ ptr \in Reachable(addr, size, "chain")
            /\ Reach(ptr, addr, size, prot)
            /\ req' = [req EXCEPT !.iov = Append(@, [base |-> ptr, len |-> size]),
                                  !.in = IF Chain[k].write THEN @ + 1 ELSE @,
                                  !.out = IF Chain[k].write THEN @ ELSE @ + 1]
            /\ pc' \in {"bug", "walk", "work", "walked"}
    BY WalkFacts
  <1>3. /\ req # NoReq
        /\ req \in [head : Heads, iov : Seq([base : Nat, len : Nat]), out : Nat, in : Nat]
        /\ Len(req.iov) \in Nat /\ DOMAIN req.iov = 1 .. Len(req.iov)
    BY <1>1, ARequest DEF Working
  <1> DEFINE r == [ptr |-> ptr, at |-> addr.at, size |-> size, prot |-> prot, grant |-> addr.grant]
  <1>4. r = [ptr |-> ptr, at |-> Chain[k].at, size |-> size, prot |-> prot, grant |-> drv.grant]
    BY <1>1
  <1>5. prot \in {"r", "w", "rw"}
    OBVIOUS
  <1>6. UNCHANGED <<drv, sent, tab, ring, advance, host_addr, lost>>
    BY <1>1 DEF guestVars
  <1>7. req'.iov = Append(req.iov, [base |-> ptr, len |-> size]) /\ req'.head = req.head
    BY <1>2, <1>3
  <1>8. Chain' = Chain
    BY <1>6, <1>7 DEF Chain
  <1>9. /\ req' # NoReq
    <2>1. DOMAIN req' = DOMAIN req /\ "iov" \in DOMAIN req
      BY <1>2, <1>3
    <2>2. DOMAIN NoReq = {"head"}
      BY DEF NoReq
    <2> QED
      BY <2>1, <2>2
  <1> HIDE DEF addr, size, r
  <1>10. /\ DOMAIN req'.iov = DOMAIN req.iov \cup {k} /\ k \notin DOMAIN req.iov
         /\ req'.iov[k] = [base |-> ptr, len |-> size]
         /\ \A m \in DOMAIN req.iov : req'.iov[m] = req.iov[m]
    <2> DEFINE RR == [base : Nat, len : Nat]
               x == [base |-> ptr, len |-> size]
    <2>1. x \in RR /\ req.iov \in Seq(RR) /\ req'.iov = Append(req.iov, x)
      BY <1>1, <1>3, <1>7
    <2> HIDE DEF RR, x
    <2>2. req'.iov \in Seq(RR) /\ Len(req'.iov) = Len(req.iov) + 1 /\ req'.iov[Len(req.iov) + 1] = x
          /\ \A m \in 1 .. Len(req.iov) : req'.iov[m] = req.iov[m]
      BY <2>1, AppendProperties
    <2>3. DOMAIN req'.iov = 1 .. Len(req'.iov)
      BY <2>2, LenProperties
    <2>4. 1 .. Len(req.iov) + 1 = (1 .. Len(req.iov)) \cup {Len(req.iov) + 1}
          /\ Len(req.iov) + 1 \notin 1 .. Len(req.iov)
      BY <1>3
    <2> QED
      BY <1>3, <2>2, <2>3, <2>4 DEF x
  <1> HIDE DEF k
  <1>11. \A m \in DOMAIN req.iov : SegRange(m)' = SegRange(m)
    BY <1>6, <1>8, <1>10 DEF SegRange
  <1>12. \A m \in {k} : SegRange(m)' = r
    <2>1. req'.iov[k].base = ptr /\ req'.iov[k].len = size
      BY <1>10
    <2> QED
      BY <1>4, <1>6, <1>8, <2>1 DEF SegRange
  <1>13. Segments = {m \in DOMAIN req.iov : req.iov[m].base # NULL}
    BY <1>1, <1>3 DEF Segments
  <1>14. Segments' = IF ptr = NULL THEN Segments ELSE Segments \cup {k}
    <2>1. Segments' = {m \in DOMAIN req'.iov : req'.iov[m].base # NULL}
      <3>1. pc' # "complete"
        BY <1>2
      <3>2. NoReq' = NoReq /\ NULL' = NULL
        BY DEF NoReq, NULL
      <3> QED
        BY <1>9, <3>1, <3>2 DEF Segments
    <2>2. req'.iov[k].base = ptr
      BY <1>10
    <2> HIDE DEF NULL
    <2> QED
      BY <1>10, <1>13, <2>1, <2>2
  <1>15. SegHeld' = IF ptr = NULL THEN SegHeld ELSE SegHeld \cup {<<"segment", k, r>>}
    <2>1. SegHeld' = {<<"segment", m, SegRange(m)'>> : m \in Segments'}
      BY DEF SegHeld
    <2>2. \A m \in Segments : SegRange(m)' = SegRange(m)
      BY <1>11, <1>13
    <2>3. {<<"segment", m, SegRange(m)'>> : m \in Segments} = SegHeld
      BY <2>2 DEF SegHeld
    <2>4. CASE ptr = NULL
      BY <1>14, <2>1, <2>3, <2>4
    <2>5. CASE ptr # NULL
      <3>1. Segments' = Segments \cup {k}
        BY <1>14, <2>5
      <3>2. SegHeld' = {<<"segment", m, SegRange(m)'>> : m \in Segments}
                       \cup {<<"segment", m, SegRange(m)'>> : m \in {k}}
        BY <2>1, <3>1
      <3>3. {<<"segment", m, SegRange(m)'>> : m \in {k}} = {<<"segment", k, r>>}
        BY <1>12
      <3> QED
        BY <2>3, <2>5, <3>2, <3>3
    <2> QED
      BY <2>4, <2>5
  <1>16. RingHeld' = RingHeld /\ TabHeld' = TabHeld
    BY <1>1, <1>2, <1>6, RingsSame, TabSame
  <1>17. Reached' = IF ptr = NULL THEN Reached ELSE Reached \cup {<<"segment", k, r>>}
    BY <1>15, <1>16 DEF Reached
  <1>18. r = [ptr |-> ptr, at |-> addr.at, size |-> size, prot |-> prot, grant |-> addr.grant]
    BY DEF r
  <1> HIDE DEF prot
  <1> QED
    BY <1>1, <1>2, <1>5, <1>6, <1>17, <1>18, HeldGains

\* Segment i is no longer held.
LEMMA MapUnmapSegment ==
    ASSUME LoopInv, ChainInv, WalkInv, MapInv, unmap_segment
    PROVE  MapInv'
  <1> DEFINE r == SegRange(i)
  <1>1. /\ pc = "complete" /\ i \in 1 .. Len(req.iov) /\ Len(req.iov) \in Nat
        /\ Len(req.iov) = Len(Chain)
        /\ Release(req.iov[i].base, req.iov[i].len)
        /\ UNCHANGED <<advance, host_addr, ring, drv, tab, lost>>
        /\ IF i < Len(req.iov)
           THEN i' = i + 1 /\ pc' = pc /\ UNCHANGED <<req, sent>>
           ELSE pc' = "run" /\ req' = NoReq
    BY UnmapSegmentFacts
  <1>2. r.ptr = req.iov[i].base /\ r.size = req.iov[i].len
    BY DEF SegRange
  <1>3. /\ req # NoReq /\ Chain \in Chains
        /\ DOMAIN req.iov = 1 .. Len(req.iov)
    BY <1>1, ARequest DEF Working
  <1>4. r.size \in Nat \ {0} /\ r.size <= FirstPage * PageSize
    <2>1. req.iov[i].len = Chain[i].len
      BY <1>1, <1>3 DEF WalkInv
    <2>2. Buffer(Chain[i].at, Chain[i].len)
      BY <1>1, <1>3, TheChain
    <2> QED
      BY <1>2, <2>1, <2>2 DEF Buffer
  <1>5. Segments = {k \in 1 .. Len(req.iov) : req.iov[k].base # NULL /\ k >= i}
    BY <1>1, <1>3 DEF Segments
  <1>6. SegHeld' = {<<"segment", k, SegRange(k)>> : k \in Segments \ {i}}
    <2>1. CASE i < Len(req.iov)
      <3>1. i' = i + 1 /\ pc' = "complete" /\ req' = req /\ sent' = sent /\ drv' = drv
        BY <1>1, <2>1
      <3>2. Segments' = {k \in 1 .. Len(req.iov) : req.iov[k].base # NULL /\ k >= i + 1}
        BY <1>3, <3>1 DEF Segments, NULL
      <3>3. i \in Nat /\ \A k \in 1 .. Len(req.iov) : k >= i + 1 <=> k >= i /\ k # i
        BY <1>1
      <3>4. Segments' = Segments \ {i}
        BY <1>5, <3>2, <3>3
      <3>5. \A k : SegRange(k)' = SegRange(k)
        BY <3>1 DEF SegRange, Chain
      <3> QED
        BY <3>4, <3>5 DEF SegHeld
    <2>2. CASE ~ (i < Len(req.iov))
      <3>1. SegHeld' = {}
        BY <1>1, <2>2, IdleAfter
      <3>2. Segments \ {i} = {}
        BY <1>1, <1>5, <2>2
      <3> QED
        BY <3>1, <3>2
    <2> QED
      BY <2>1, <2>2
  <1>7. IF r.ptr = NULL THEN SegHeld' = SegHeld
        ELSE <<"segment", i, r>> \in SegHeld /\ SegHeld' = SegHeld \ {<<"segment", i, r>>}
    <2>1. CASE r.ptr = NULL
      <3>1. Segments \ {i} = Segments
        BY <1>2, <1>5, <2>1
      <3> QED
        BY <1>6, <2>1, <3>1 DEF SegHeld
    <2>2. CASE r.ptr # NULL
      <3>1. i \in Segments
        BY <1>1, <1>2, <1>5, <2>2
      <3>2. \A k : <<"segment", k, SegRange(k)>> = <<"segment", i, r>> => k = i
        OBVIOUS
      <3> QED
        BY <1>6, <2>2, <3>1, <3>2 DEF SegHeld
    <2> QED
      BY <2>1, <2>2
  <1>8. RingHeld' = RingHeld /\ TabHeld' = TabHeld
    <2>1. pc # "unmap_ring" /\ pc' # "unmap_ring"
      BY <1>1
    <2> QED
      BY <1>1, <2>1, RingsSame, TabSame
  <1>9. RingHeld \cap {<<"segment", i, r>>} = {} /\ TabHeld \cap {<<"segment", i, r>>} = {}
    BY DEF RingHeld, TabHeld
  <1>10. IF r.ptr = NULL THEN Reached' = Reached
         ELSE <<"segment", i, r>> \in Reached /\ Reached' = Reached \ {<<"segment", i, r>>}
    BY <1>7, <1>8, <1>9 DEF Reached
  <1>11. Release(r.ptr, r.size) /\ UNCHANGED <<advance, host_addr, lost>>
    BY <1>1, <1>2
  <1> HIDE DEF r
  <1> QED
    BY <1>4, <1>10, <1>11, HeldLoses

\* A request that is dropped loses its segments, and nothing else.
LEMMA MapDrop ==
    ASSUME LoopInv, ChainInv, WalkInv, MapInv, drop
    PROVE  MapInv'
  <1>1. /\ pc = "work" /\ pc' = "run" /\ req' = NoReq
        /\ UNCHANGED <<advance, host, host_addr, ring, drv, tab, i>>
        /\ lost' = IF advance THEN lost
                   ELSE lost \cup UNION {HostPages(req.iov[k].base, req.iov[k].len) : k \in Segments}
    BY DEF drop, guestVars, hostVars
  <1>2. SegHeld' = {} /\ RingHeld' = RingHeld /\ TabHeld' = TabHeld
    BY <1>1, IdleAfter, RingsSame, TabSame
  <1>3. (RingHeld \cup TabHeld) \cap SegHeld = {} /\ RamHeld \cap SegHeld = {}
    BY DEF RingHeld, TabHeld, RamHeld, SegHeld
  <1>4. Reached' = Reached \ SegHeld
    BY <1>2, <1>3 DEF Reached
  <1>5. RamHeld' = RamHeld
    BY <1>1, RamSame
  <1>6. advance \in BOOLEAN
    BY DEF LoopInv, Types
  <1>7. CASE advance
    <2>1. Held' = Held /\ lost' = lost
      BY <1>1, <1>5, <1>7 DEF Held
    <2>2. Parted(host, lost, Held)
      BY DEF MapInv
    <2>3. Parted(host', lost', Held')
      BY <1>1, <2>1, <2>2
    <2>4. ASSUME NEW t \in Reached' PROVE ThroughBank(t[3])'
      <3>1. ThroughBank(t[3])
        BY <1>4, <1>7, <2>4 DEF MapInv
      <3> QED
        BY <1>1, <3>1, BankSame
    <2>5. \A t \in Reached' : ThroughBank(t[3])'
      BY <2>4
    <2> QED
      BY <2>3, <2>5 DEF MapInv
  <1>8. CASE ~ advance
    <2>1. SegHeld \subseteq Held
      BY <1>8 DEF Held, Reached
    <2>2. Held' = Held \ SegHeld
      BY <1>1, <1>3, <1>4, <1>5, <1>8 DEF Held
    <2>3. \A k : Pages(SegRange(k)) = HostPages(req.iov[k].base, req.iov[k].len)
      BY DEF Pages, SegRange
    <2>4. {Pages(t[3]) : t \in SegHeld}
              = {HostPages(req.iov[k].base, req.iov[k].len) : k \in Segments}
      <3>1. \A k : <<"segment", k, SegRange(k)>>[3] = SegRange(k)
        OBVIOUS
      <3>2. \A t \in SegHeld : \E k \in Segments : Pages(t[3]) = Pages(SegRange(k))
        BY <3>1 DEF SegHeld
      <3>3. \A k \in Segments : \E t \in SegHeld : Pages(t[3]) = Pages(SegRange(k))
        BY <3>1 DEF SegHeld
      <3> DEFINE P(t) == Pages(t[3])
                 Q(k) == HostPages(req.iov[k].base, req.iov[k].len)
      <3>4. \A t \in SegHeld : \E k \in Segments : P(t) = Q(k)
        BY <2>3, <3>2
      <3>5. \A k \in Segments : \E t \in SegHeld : P(t) = Q(k)
        BY <2>3, <3>3
      <3> HIDE DEF P, Q
      <3>6. {P(t) : t \in SegHeld} = {Q(k) : k \in Segments}
        BY <3>4, <3>5
      <3> QED
        BY <3>6 DEF P, Q
    <2>5. lost' = lost \cup UNION {Pages(t[3]) : t \in SegHeld}
      BY <1>1, <1>8, <2>4
    <2>6. Parted(host, lost, Held)
      BY DEF MapInv
    <2>7. Parted(host, lost', Held')
      BY <2>1, <2>2, <2>5, <2>6, IsLost
    <2>8. Parted(host', lost', Held')
      BY <1>1, <2>7
    <2> QED
      BY <1>1, <1>8, <2>8 DEF MapInv
  <1> QED
    BY <1>6, <1>7, <1>8

\* Without a driver the process holds the banks and nothing else.
LEMMA OnlyRam ==
    ASSUME LoopInv, WalkInv, drv = NoDrv, pc \in {"map_ram", "unmap_ram"}, advance,
           UNCHANGED <<advance, ring, req, tab>>
    PROVE  Reached = {} /\ Reached' = {} /\ Held = RamHeld /\ Held' = RamHeld'
  <1>1. req = NoReq /\ tab = NoTab /\ SegHeld = {} /\ TabHeld = {}
    BY Idle DEF Working, Dead
  <1>2. SegHeld' = {} /\ TabHeld' = {}
    BY <1>1, IdleAfter, NoTableAfter
  <1>3. ring = <<>>
    BY DEF LoopInv, RingInv
  <1>4. RingHeld = {} /\ RingHeld' = {}
    BY <1>3, NoRings, NoRingsAfter
  <1>5. Reached = {} /\ Reached' = {}
    BY <1>1, <1>2, <1>4 DEF Reached
  <1> QED
    BY <1>5 DEF Held

\* Bank i is held once it is mapped.
LEMMA MapMapRam ==
    ASSUME LoopInv, WalkInv, MapInv, demu_map_guest_ram
    PROVE  MapInv'
  <1> DEFINE addr == Addr(NoDrv, Banks[i].base * PageSize)
             size == Banks[i].size * PageSize
  <1>1. /\ pc = "map_ram" /\ advance /\ use_gnttab = -1 /\ drv = NoDrv
        /\ i \in 1 .. Len(Banks) /\ i \in 1 .. 2
        /\ host_addr \in [1 .. 2 -> Nat]
        /\ \A b \in i .. 2 : host_addr[b] = NULL
        /\ UNCHANGED <<use_gnttab, advance, ring, guestVars, reqVars, lost, countVars>>
    BY MapRamFacts
  <1>2. PICK ptr \in demu_map_guest_range(addr, size, "ram") :
            /\ Mapped(ptr, addr, size, "rw")
            /\ ptr \in Nat
            /\ host_addr' = [host_addr EXCEPT ![i] = ptr]
    BY MapRamFacts
  <1>3. addr \in Addresses /\ addr.at = Banks[i].base * PageSize /\ addr.grant = FALSE
        /\ size \in Nat \ {0}
    BY <1>1, ABank
  <1> DEFINE r == [ptr |-> ptr, at |-> addr.at, size |-> size, prot |-> "rw", grant |-> addr.grant]
  <1>4. r = [ptr |-> ptr, at |-> Banks[i].base * PageSize, size |-> size, prot |-> "rw",
             grant |-> FALSE]
    BY <1>3
  <1> HIDE DEF addr, size
  <1>5. Reached = {} /\ Reached' = {} /\ Held = RamHeld /\ Held' = RamHeld'
    BY <1>1, OnlyRam DEF reqVars
  <1>6. Parted(host, lost, Held) /\ lost' = lost
    BY <1>1 DEF MapInv
  <1>7. host_addr[i] = NULL /\ host_addr'[i] = ptr
        /\ \A b \in 1 .. 2 : b # i => host_addr'[b] = host_addr[b]
    BY <1>1, <1>2
  <1>8. CASE ptr = NULL
    <2>1. host' = host
      BY <1>2, <1>8 DEF Mapped
    <2>2. host_addr' = host_addr
      BY <1>1, <1>2, <1>7, <1>8
    <2>3. Parted(host', lost', Held')
      BY <1>5, <1>6, <2>1, <2>2, RamSame
    <2> QED
      BY <1>5, <2>3 DEF MapInv
  <1>9. CASE ptr # NULL
    <2>1. RamHeld' = RamHeld \cup {<<"ram", i, r>>}
      <3> DEFINE B == {b \in 1 .. 2 : host_addr[b] # NULL}
      <3>1. RamHeld' = {<<"ram", b, RamRange(b)'>> : b \in B \cup {i}}
        <4>1. {b \in 1 .. 2 : host_addr'[b] # NULL} = B \cup {i}
          BY <1>1, <1>7, <1>9
        <4> QED
          BY <4>1 DEF RamHeld, NULL
      <3>2. \A b \in B : RamRange(b)' = RamRange(b)
        BY <1>7, Constant DEF RamRange
      <3>3. \A b \in {i} : RamRange(b)' = r
        BY <1>4, <1>7, Constant DEF RamRange, size
      <3>4. {<<"ram", b, RamRange(b)'>> : b \in B} = RamHeld
        BY <3>2 DEF RamHeld
      <3>5. {<<"ram", b, RamRange(b)'>> : b \in {i}} = {<<"ram", i, r>>}
        BY <3>3
      <3> HIDE DEF B
      <3>6. RamHeld' = {<<"ram", b, RamRange(b)'>> : b \in B}
                       \cup {<<"ram", b, RamRange(b)'>> : b \in {i}}
        BY <3>1
      <3> QED
        BY <3>4, <3>5, <3>6
    <2>2. (use_gnttab' > 0) = addr.grant
      <3>1. use_gnttab' = -1
        BY <1>1
      <3>2. (use_gnttab' > 0) = FALSE
        BY <3>1
      <3> QED
        BY <1>3, <3>2
    <2>3. Parted(host', lost, Held \cup {<<"ram", i, r>>})
      BY <1>2, <1>3, <1>6, <1>9, <2>2, MapStep
    <2>4. Parted(host', lost', Held')
      BY <1>5, <1>6, <2>1, <2>3
    <2> QED
      BY <1>5, <2>4 DEF MapInv
  <1> QED
    BY <1>8, <1>9

\* Bank i is no longer held.
LEMMA MapUnmapRam ==
    ASSUME LoopInv, WalkInv, MapInv, demu_unmap_guest_ram
    PROVE  MapInv'
  <1> DEFINE r == RamRange(i)
  <1>1. /\ pc = "unmap_ram" /\ advance /\ i \in 1 .. 2 /\ drv = NoDrv
        /\ host_addr \in [1 .. 2 -> Nat]
        /\ UNCHANGED <<use_gnttab, advance, ring, guestVars, reqVars, lost, countVars>>
        /\ host_addr' = [host_addr EXCEPT ![i] = NULL]
        /\ IF host_addr[i] = NULL THEN UNCHANGED host
           ELSE demu_unmap_guest_range(host_addr[i], Banks[i].size * PageSize)
    BY UnmapRamFacts
  <1>2. Reached = {} /\ Reached' = {} /\ Held = RamHeld /\ Held' = RamHeld'
    BY <1>1, OnlyRam DEF reqVars
  <1>3. Parted(host, lost, Held) /\ lost' = lost
    BY <1>1 DEF MapInv
  <1>4. host_addr'[i] = NULL /\ \A b \in 1 .. 2 : b # i => host_addr'[b] = host_addr[b]
    BY <1>1
  <1>5. CASE host_addr[i] = NULL
    <2>1. host' = host
      BY <1>1, <1>5
    <2>2. host_addr' = host_addr
      BY <1>1, <1>4, <1>5
    <2>3. Parted(host', lost', Held')
      BY <1>2, <1>3, <2>1, <2>2, RamSame
    <2> QED
      BY <1>2, <2>3 DEF MapInv
  <1>6. CASE host_addr[i] # NULL
    <2> DEFINE B == {b \in 1 .. 2 : host_addr[b] # NULL}
    <2>1. RamHeld' = {<<"ram", b, RamRange(b)>> : b \in B \ {i}}
      <3>1. {b \in 1 .. 2 : host_addr'[b] # NULL} = B \ {i}
        BY <1>1, <1>4
      <3>2. \A b \in B \ {i} : RamRange(b)' = RamRange(b)
        BY <1>4, Constant DEF RamRange
      <3>3. RamHeld' = {<<"ram", b, RamRange(b)'>> : b \in B \ {i}}
        BY <3>1 DEF RamHeld, NULL
      <3> HIDE DEF B
      <3> QED
        BY <3>2, <3>3
    <2>2. i \in B
      BY <1>1, <1>6
    <2>3. <<"ram", i, r>> \in Held /\ Held' = Held \ {<<"ram", i, r>>}
      <3>1. RamHeld = {<<"ram", b, RamRange(b)>> : b \in B}
        BY DEF RamHeld
      <3> HIDE DEF B
      <3>2. \A b : <<"ram", b, RamRange(b)>> = <<"ram", i, r>> => b = i
        OBVIOUS
      <3> QED
        BY <1>2, <2>1, <2>2, <3>1, <3>2
    <2>4. Maps(host, r)
      <3>1. <<"ram", i, r>>[3] = r
        OBVIOUS
      <3> QED
        BY <1>3, <2>3, <3>1 DEF Parted
    <2>5. r.ptr = host_addr[i] /\ r.size = Banks[i].size * PageSize
      BY DEF RamRange
    <2>6. r.size \in Nat \ {0} /\ demu_unmap_guest_range(r.ptr, r.size)
      BY <1>1, <1>6, <2>4, <2>5 DEF Maps
    <2> HIDE DEF r
    <2>7. Parted(host', lost, Held \ {<<"ram", i, r>>})
      BY <1>3, <2>3, <2>6, UnmapStep
    <2>8. Parted(host', lost', Held')
      BY <1>3, <2>3, <2>7
    <2> QED
      BY <1>2, <2>8 DEF MapInv
  <1> QED
    BY <1>5, <1>6

\* Whatever happens, the process keeps the pages of what it holds.
LEMMA MapStays == LoopInv /\ ChainInv /\ WalkInv /\ MapInv /\ [Next]_vars => MapInv'
  <1> SUFFICES ASSUME LoopInv, ChainInv, WalkInv, MapInv, [Next]_vars
               PROVE  MapInv'
    OBVIOUS
  <1>1. CASE UNCHANGED vars
    <2>1. UNCHANGED <<advance, host, host_addr, ring, drv, sent, req, tab, i, pc, lost>>
      BY <1>1 DEF vars, hostVars, guestVars, reqVars
    <2>2. RingsMapped' = RingsMapped /\ Segments' = Segments
      BY <2>1 DEF RingsMapped, Segments
    <2>3. RingHeld' = RingHeld /\ SegHeld' = SegHeld /\ TabHeld' = TabHeld
      BY <2>1, <2>2, RingSame, SegSame, TabSame
    <2>4. Reached' = Reached
      BY <2>3 DEF Reached
    <2> QED
      BY <2>1, <2>4, HeldSame
  <1>2. CASE Next
    <2>1. CASE \E c \in Chains : submit(c) \/ submit_indirect(c)
      BY <2>1, MapSubmit
    <2>2. CASE \/ virt_queue__get_iov \/ virt_queue__get_head_iov \/ unmap_table
               \/ segment_fault \/ virtio_blk_complete \/ unmap_segment \/ drop
      BY <2>2, MapTake, MapSegment, MapTable, MapEnds, MapUnmapSegment, MapDrop
    <2>3. CASE demu_initialize \/ demu_deinitialize \/ demu_map_guest_ram \/ demu_unmap_guest_ram
      BY <2>3, MapGuests, MapMapRam, MapUnmapRam
    <2>4. CASE \/ map_ring \/ unmap_ring \/ virtio_exit_vq
               \/ \E d \in Drivers : virtio_init_device_vq(d)
      BY <2>4, MapRing, UnmapRing, MapExit, MapLoad
    <2> QED
      BY <1>2, <2>1, <2>2, <2>3, <2>4 DEF Next
  <1> QED
    BY <1>1, <1>2

LEMMA Inductive == Spec => []Inv
  <1>1. Init => Inv
    BY LoopInit, ChainInit, MapInit DEF Inv
  <1>2. Inv /\ [Next]_vars => Inv'
    BY StepInv, MapStays DEF Inv
  <1> QED
    BY <1>1, <1>2, PTL DEF Spec

(***************************************************************************)
(* What follows                                                            *)
(***************************************************************************)

\* Every state has its type: nothing is mapped below FirstPage, a queue has at most
\* three rings, and the heads in the available ring are the driver's.
THEOREM TypeCorrect == Spec => []TypeOK
  <1>1. ASSUME Inv PROVE TypeOK
    <2>1. /\ \A v \in DOMAIN host :
                 v >= FirstPage /\ host[v].kind \in {"foreign", "grant"} /\ host[v].prot \in {"r", "w", "rw"}
      BY <1>1 DEF Inv, MapInv, Parted
    <2>2. use_gnttab \in {-1, 0, 1} /\ Len(host_addr) = 2
      BY <1>1 DEF Inv, LoopInv, Types
    <2>3. Len(ring) <= 3
      <3>1. CASE drv = NoDrv
        <4>1. ring = <<>>
          BY <1>1, <3>1 DEF Inv, LoopInv, RingInv
        <4> QED
          BY <4>1
      <3>2. CASE drv # NoDrv
        <4>1. drv \in Drivers /\ Len(ring) <= Len(Rings(drv)) /\ ring \in Seq([ptr : Nat, size : Nat])
          BY <1>1, <3>2 DEF Inv, LoopInv, Types, RingInv
        <4>2. Len(ring) \in Nat
          BY <4>1, LenProperties
        <4>3. Len(Rings(drv)) \in 1 .. 3
          BY <4>1, TheRings
        <4>4. \A m \in Nat, n \in 1 .. 3 : m <= n => m <= 3
          OBVIOUS
        <4>5. Len(ring) <= Len(Rings(drv))
          BY <4>1
        <4> QED
          BY <4>2, <4>3, <4>4, <4>5
      <3> QED
        BY <3>1, <3>2
    <2>4. /\ Range(avail) \subseteq DOMAIN sent /\ \A h \in DOMAIN sent : sent[h].chain \in Chains
          /\ req # NoReq => req.head \in DOMAIN sent \ Range(avail)
      <3>1. avail \in Seq(DOMAIN sent)
        BY <1>1 DEF Inv, ChainInv
      <3>2. DOMAIN avail = 1 .. Len(avail) /\ \A k \in 1 .. Len(avail) : avail[k] \in DOMAIN sent
        BY <3>1, LenProperties, ElementOfSeq
      <3> QED
        BY <1>1, <3>2 DEF Inv, ChainInv, ChainAt, Range
    <2>5. pc \in {"off", "run", "work", "bug", "no_ring", "fault"} \cup Loops
      BY <1>1 DEF Inv, LoopInv, Types, Dead
    <2>6. guests \in 0 .. Guests /\ loads \in 0 .. Loads
      BY <1>1 DEF Inv, LoopInv, Types
    <2> QED
      BY <2>1, <2>2, <2>3, <2>4, <2>5, <2>6 DEF TypeOK
  <1> QED
    BY <1>1, Inductive, PTL

\* A range that is reached shows the bytes it is of.
LEMMA ReachedShows ==
    ASSUME LoopInv, MapInv, NEW a, NEW b, NEW r, <<a, b, r>> \in Reached, r.grant = drv.grant
    PROVE  Shows(r.ptr, r.at, r.size, r.prot)
  <1>1. advance \in BOOLEAN /\ host_addr \in [1 .. 2 -> Nat]
    BY DEF LoopInv, Types
  <1>2. <<a, b, r>>[3] = r
    OBVIOUS
  <1> SUFFICES ASSUME NEW k \in 0 .. r.size - 1
               PROVE  LET v == (r.ptr + k) \div PageSize
                      IN /\ v \in DOMAIN host
                         /\ host[v].page = (r.at + k) \div PageSize
                         /\ (r.ptr + k) % PageSize = (r.at + k) % PageSize
                         /\ host[v].prot \in {r.prot, "rw"}
                         /\ host[v].kind = IF drv.grant THEN "grant" ELSE "foreign"
    BY DEF Shows
  <1> DEFINE v == (r.ptr + k) \div PageSize
  <1>3. CASE ~ advance
    <2>1. <<a, b, r>> \in Held
      BY <1>3 DEF Held
    <2>2. Maps(host, r)
      BY <1>2, <2>1 DEF MapInv, Parted
    <2>3. /\ v \in DOMAIN host
          /\ host[v].page = (r.at + k) \div PageSize
          /\ (r.ptr + k) % PageSize = (r.at + k) % PageSize
          /\ host[v].prot = r.prot
          /\ host[v].kind = IF r.grant THEN "grant" ELSE "foreign"
      BY <2>2, BytesShown
    <2> QED
      BY <2>3
  <1>4. CASE advance
    <2>1. ThroughBank(r)
      BY <1>2, <1>4 DEF MapInv
    <2>2. \A c \in 1 .. 2 : host_addr[c] # NULL => Maps(host, RamRange(c))
      <3> SUFFICES ASSUME NEW c \in 1 .. 2, host_addr[c] # NULL
                   PROVE  Maps(host, RamRange(c))
        OBVIOUS
      <3>1. <<"ram", c, RamRange(c)>> \in Held
        BY DEF Held, RamHeld
      <3>2. <<"ram", c, RamRange(c)>>[3] = RamRange(c)
        OBVIOUS
      <3> QED
        BY <3>1, <3>2 DEF MapInv, Parted
    <2>3. /\ v \in DOMAIN host
          /\ host[v].page = (r.at + k) \div PageSize
          /\ (r.ptr + k) % PageSize = (r.at + k) % PageSize
          /\ host[v].prot = "rw" /\ host[v].kind = "foreign"
      BY <1>1, <2>1, <2>2, BankShows
    <2>4. ~ drv.grant
      BY <2>1 DEF ThroughBank
    <2> QED
      BY <2>3, <2>4
  <1> QED
    BY <1>1, <1>3, <1>4

\* As long as the process has a pointer into the guest, to a ring, a segment or the
\* table of indirect descriptors, every byte it can reach by it is the one the driver
\* meant, and a request has its segments in the order of its chain.
THEOREM PointersReach == Spec => []PointersReachGuest
  <1>1. ASSUME Inv PROVE PointersReachGuest
    <2>1. LoopInv /\ ChainInv /\ WalkInv /\ MapInv
      BY <1>1 DEF Inv
    <2>2. ASSUME NEW k \in RingsMapped
          PROVE  Shows(ring[k].ptr, Rings(drv)[k].at, Rings(drv)[k].size, "rw")
      <3> DEFINE r == RingRange(k)
      <3>1. /\ r.ptr = ring[k].ptr /\ r.at = Rings(drv)[k].at /\ r.size = ring[k].size
            /\ r.prot = "rw" /\ r.grant = drv.grant
        BY DEF RingRange
      <3>2. <<"ring", k, r>> \in Reached
        BY DEF Reached, RingHeld
      <3> HIDE DEF r
      <3>3. Shows(r.ptr, r.at, r.size, r.prot)
        BY <2>1, <3>1, <3>2, ReachedShows
      <3>4. ring[k].size = Rings(drv)[k].size
        <4>1. ring \in Seq([ptr : Nat, size : Nat]) /\ k \in DOMAIN ring
          BY <2>1 DEF LoopInv, Types, RingsMapped
        <4>2. k \in 1 .. Len(ring)
          BY <4>1, LenProperties
        <4>3. drv # NoDrv
          <5>1. DOMAIN <<>> = {}
            OBVIOUS
          <5> QED
            BY <2>1, <4>1, <5>1 DEF LoopInv, RingInv
        <4> QED
          BY <2>1, <4>2, <4>3 DEF LoopInv, RingInv
      <3> QED
        BY <3>1, <3>3, <3>4
    <2>3. tab.ptr # NULL => Shows(tab.ptr, TableAt, tab.len, "r")
      <3> SUFFICES ASSUME tab.ptr # NULL PROVE Shows(tab.ptr, TableAt, tab.len, "r")
        OBVIOUS
      <3> DEFINE r == TabRange
      <3>1. /\ r.ptr = tab.ptr /\ r.at = TableAt /\ r.size = tab.len
            /\ r.prot = "r" /\ r.grant = drv.grant
        BY DEF TabRange
      <3>2. <<"table", 1, r>> \in Reached
        BY DEF Reached, TabHeld
      <3> HIDE DEF r
      <3>3. Shows(r.ptr, r.at, r.size, r.prot)
        BY <2>1, <3>1, <3>2, ReachedShows
      <3> QED
        BY <3>1, <3>3
    <2>4. ASSUME req # NoReq
          PROVE  /\ \A k \in Segments :
                        /\ req.iov[k].len = Chain[k].len
                        /\ Shows(req.iov[k].base, Chain[k].at, Chain[k].len,
                                 IF Chain[k].write THEN "w" ELSE "r")
                 /\ pc = "work" => /\ Len(req.iov) = Len(Chain)
                                   /\ req.out + req.in = Len(Chain)
                                   /\ req.in = Cardinality({k \in DOMAIN Chain : Chain[k].write})
      <3>1. /\ req.iov \in Seq([base : Nat, len : Nat])
            /\ \A k \in 1 .. Len(req.iov) : req.iov[k].len = Chain[k].len
        BY <2>1, <2>4 DEF WalkInv
      <3>2. DOMAIN req.iov = 1 .. Len(req.iov)
        BY <3>1, LenProperties
      <3>3. ASSUME NEW k \in Segments
            PROVE  /\ req.iov[k].len = Chain[k].len
                   /\ Shows(req.iov[k].base, Chain[k].at, Chain[k].len,
                            IF Chain[k].write THEN "w" ELSE "r")
        <4> DEFINE r == SegRange(k)
        <4>1. /\ r.ptr = req.iov[k].base /\ r.at = Chain[k].at /\ r.size = req.iov[k].len
              /\ r.prot = (IF Chain[k].write THEN "w" ELSE "r") /\ r.grant = drv.grant
          BY DEF SegRange
        <4>2. <<"segment", k, r>> \in Reached
          BY DEF Reached, SegHeld
        <4> HIDE DEF r
        <4>3. Shows(r.ptr, r.at, r.size, r.prot)
          BY <2>1, <4>1, <4>2, ReachedShows
        <4>4. k \in 1 .. Len(req.iov)
          BY <2>4, <3>2 DEF Segments
        <4>5. req.iov[k].len = Chain[k].len
          BY <3>1, <4>4
        <4> QED
          BY <4>1, <4>3, <4>5
      <3>4. ASSUME pc = "work"
            PROVE  /\ Len(req.iov) = Len(Chain)
                   /\ req.out + req.in = Len(Chain)
                   /\ req.in = Cardinality({k \in DOMAIN Chain : Chain[k].write})
        <4>1. /\ req.out + req.in = Len(req.iov)
              /\ req.in = Cardinality({k \in 1 .. Len(req.iov) : Chain[k].write})
              /\ Len(req.iov) = Len(Chain)
          BY <2>1, <2>4, <3>4 DEF WalkInv
        <4>2. DOMAIN Chain = 1 .. Len(Chain)
          BY <2>1, <3>4, ARequest, TheChain DEF Working
        <4> QED
          BY <4>1, <4>2
      <3> QED
        BY <3>3, <3>4
    <2> QED
      BY <2>2, <2>3, <2>4 DEF PointersReachGuest, Chain
  <1> QED
    BY <1>1, Inductive, PTL

\* Every mapping is undone, and none is undone twice: the pages mapped are those of
\* the ranges the process holds, and of the requests that were dropped.
THEOREM UndoneOnce == Spec => []MappingsUndone
  <1>1. ASSUME Inv PROVE MappingsUndone
    <2> DEFINE B == {b \in DOMAIN host_addr : host_addr[b] # NULL}
               Ram == {HostPages(host_addr[b], demu_init_guest_ram[b].size * PageSize) : b \in B}
               Rng == {HostPages(ring[k].ptr, ring[k].size) : k \in RingsMapped}
               Seg == {HostPages(req.iov[k].base, req.iov[k].len) : k \in Segments}
               Tab == IF tab.ptr = NULL THEN {} ELSE {HostPages(tab.ptr, tab.len)}
    <2>1. DOMAIN host = lost \cup UNION {Pages(t[3]) : t \in Held}
      BY <1>1 DEF Inv, MapInv, Parted
    <2>2. DOMAIN host_addr = 1 .. 2
      BY <1>1 DEF Inv, LoopInv, Types
    <2>3. {Pages(t[3]) : t \in RamHeld} = Ram
      <3> DEFINE P(t) == Pages(t[3])
                 Q(b) == HostPages(host_addr[b], demu_init_guest_ram[b].size * PageSize)
      <3>1. \A b : <<"ram", b, RamRange(b)>>[3] = RamRange(b) /\ Pages(RamRange(b)) = Q(b)
        BY DEF Pages, RamRange, Banks
      <3>2. \A t \in RamHeld : \E b \in B : P(t) = Q(b)
        BY <2>2, <3>1 DEF RamHeld
      <3>3. \A b \in B : \E t \in RamHeld : P(t) = Q(b)
        BY <2>2, <3>1 DEF RamHeld
      <3> HIDE DEF P, Q, B
      <3>4. {P(t) : t \in RamHeld} = {Q(b) : b \in B}
        BY <3>2, <3>3
      <3> QED
        BY <3>4 DEF P, Q, B
    <2>4. {Pages(t[3]) : t \in RingHeld} = Rng
      <3> DEFINE P(t) == Pages(t[3])
                 Q(k) == HostPages(ring[k].ptr, ring[k].size)
      <3>1. \A k : <<"ring", k, RingRange(k)>>[3] = RingRange(k) /\ Pages(RingRange(k)) = Q(k)
        BY DEF Pages, RingRange, Banks
      <3>2. \A t \in RingHeld : \E k \in RingsMapped : P(t) = Q(k)
        BY <3>1 DEF RingHeld
      <3>3. \A k \in RingsMapped : \E t \in RingHeld : P(t) = Q(k)
        BY <3>1 DEF RingHeld
      <3> HIDE DEF P, Q
      <3>4. {P(t) : t \in RingHeld} = {Q(k) : k \in RingsMapped}
        BY <3>2, <3>3
      <3> QED
        BY <3>4 DEF P, Q
    <2>5. {Pages(t[3]) : t \in SegHeld} = Seg
      <3> DEFINE P(t) == Pages(t[3])
                 Q(k) == HostPages(req.iov[k].base, req.iov[k].len)
      <3>1. \A k : <<"segment", k, SegRange(k)>>[3] = SegRange(k) /\ Pages(SegRange(k)) = Q(k)
        BY DEF Pages, SegRange, Banks
      <3>2. \A t \in SegHeld : \E k \in Segments : P(t) = Q(k)
        BY <3>1 DEF SegHeld
      <3>3. \A k \in Segments : \E t \in SegHeld : P(t) = Q(k)
        BY <3>1 DEF SegHeld
      <3> HIDE DEF P, Q
      <3>4. {P(t) : t \in SegHeld} = {Q(k) : k \in Segments}
        BY <3>2, <3>3
      <3> QED
        BY <3>4 DEF P, Q
    <2>6. {Pages(t[3]) : t \in TabHeld} = Tab
      <3>1. Pages(TabRange) = HostPages(tab.ptr, tab.len)
        BY DEF Pages, TabRange
      <3>2. TabHeld = IF tab.ptr = NULL THEN {} ELSE {<<"table", 1, TabRange>>}
        BY DEF TabHeld
      <3>3. <<"table", 1, TabRange>>[3] = TabRange
        OBVIOUS
      <3> QED
        BY <3>1, <3>2, <3>3
    <2> DEFINE P(S) == UNION {Pages(t[3]) : t \in S}
    <2> HIDE DEF Ram, Rng, Seg, Tab
    <2>7. advance \in BOOLEAN
      BY <1>1 DEF Inv, LoopInv, Types
    <2>8. \A S, T : P(S \cup T) = P(S) \cup P(T)
      OBVIOUS
    <2>9. P({}) = {}
      OBVIOUS
    <2>10. /\ P(RamHeld) = UNION Ram /\ P(RingHeld) = UNION Rng
           /\ P(SegHeld) = UNION Seg /\ P(TabHeld) = UNION Tab
      BY <2>3, <2>4, <2>5, <2>6
    <2>11. DOMAIN host = lost \cup P(Held)
      BY <2>1
    <2> HIDE DEF P
    <2>12. P(Reached) = (UNION Rng) \cup (UNION Seg) \cup (UNION Tab)
      <3>1. P((RingHeld \cup SegHeld) \cup TabHeld) = P(RingHeld \cup SegHeld) \cup P(TabHeld)
        BY <2>8
      <3>2. P(RingHeld \cup SegHeld) = P(RingHeld) \cup P(SegHeld)
        BY <2>8
      <3> QED
        BY <2>10, <3>1, <3>2 DEF Reached
    <2>13. P(Held) = (UNION Ram) \cup IF advance THEN {}
                                   ELSE (UNION Rng) \cup (UNION Seg) \cup (UNION Tab)
      BY <2>7, <2>8, <2>9, <2>10, <2>12 DEF Held
    <2>14. UNION Tab = IF tab.ptr = NULL THEN {} ELSE HostPages(tab.ptr, tab.len)
      BY DEF Tab
    <2> QED
      BY <2>11, <2>13, <2>14 DEF MappingsUndone, Ram, Rng, Seg
  <1> QED
    BY <1>1, Inductive, PTL

\* An address of a driver that uses the kind of its guest is not refused, and leaves
\* the kind known.
LEMMA NotRefused ==
    ASSUME LoopInv, KindInv, drv # NoDrv, NEW addr, addr.grant = drv.grant
    PROVE  /\ ~ Asserts(addr)
           /\ use_gnttab' = demu_detect_mappings_model(addr) =>
                  /\ advance => ~ drv.grant
                  /\ use_gnttab' >= 0 => drv.grant = (use_gnttab' > 0)
  <1> DEFINE model == demu_detect_mappings_model(addr)
  <1>1. /\ advance \in BOOLEAN /\ drv.grant \in BOOLEAN
        /\ use_gnttab \in {-1, 0, 1} /\ (advance => use_gnttab = -1)
    BY ADriver DEF LoopInv, Types
  <1>2. CASE advance
    <2>1. ~ drv.grant /\ model = -1
      BY <1>1, <1>2 DEF KindInv, demu_detect_mappings_model
    <2>2. ~ Asserts(addr)
      BY <1>2, <2>1 DEF Asserts
    <2>3. ~ (model >= 0)
      BY <2>1
    <2> HIDE DEF model
    <2> QED
      BY <2>1, <2>2, <2>3 DEF model
  <1>3. CASE ~ advance
    <2>1. model = IF drv.grant THEN 1 ELSE 0
      <3>1. CASE use_gnttab = -1
        BY <1>3, <3>1 DEF demu_detect_mappings_model
      <3>2. CASE use_gnttab = 0
        <4>1. (use_gnttab > 0) = FALSE /\ use_gnttab >= 0
          BY <3>2
        <4>2. drv.grant = FALSE
          BY <4>1 DEF KindInv
        <4> QED
          BY <3>2, <4>1, <4>2 DEF demu_detect_mappings_model
      <3>3. CASE use_gnttab = 1
        <4>1. (use_gnttab > 0) = TRUE /\ use_gnttab >= 0
          BY <3>3
        <4>2. drv.grant = TRUE
          BY <4>1 DEF KindInv
        <4> QED
          BY <3>3, <4>1, <4>2 DEF demu_detect_mappings_model
      <3> QED
        BY <1>1, <3>1, <3>2, <3>3
    <2> HIDE DEF model
    <2>2. (model > 0) = drv.grant
      <3>1. CASE drv.grant = TRUE
        <4>1. (model > 0) = TRUE
          BY <2>1, <3>1
        <4> QED
          BY <3>1, <4>1
      <3>2. CASE drv.grant = FALSE
        <4>1. (model > 0) = FALSE
          BY <2>1, <3>2
        <4> QED
          BY <3>2, <4>1
      <3> QED
        BY <1>1, <3>1, <3>2
    <2>3. ~ Asserts(addr)
      BY <1>3, <2>2 DEF Asserts, model
    <2> QED
      BY <1>3, <2>2, <2>3 DEF model
  <1> QED
    BY <1>1, <1>2, <1>3

LEMMA KindStays ==
    ASSUME SameModel, Inv, KindInv, [Next]_vars
    PROVE  KindInv'
  <1>1. LoopInv /\ ChainInv /\ WalkInv
    BY DEF Inv
  <1>2. NULL = 0 /\ (pc = "off" => drv = NoDrv)
    BY <1>1 DEF NULL, LoopInv, RingInv
  <1>3. CASE UNCHANGED <<advance, use_gnttab, drv>> /\ pc' # "bug"
    BY <1>3 DEF KindInv
  <1>4. CASE drv' = NoDrv /\ pc' # "bug"
    BY <1>4 DEF KindInv
  <1>5. CASE map_ring \/ virt_queue__get_iov \/ virt_queue__get_head_iov
    <2>1. CASE map_ring
      <3> DEFINE addr == Addr(drv, Rings(drv)[i].at)
      <3>1. /\ pc = "map_ring" /\ drv \in Drivers
            /\ UNCHANGED <<advance, host_addr, guestVars, reqVars, lost, countVars>>
            /\ use_gnttab' = demu_detect_mappings_model(addr)
            /\ IF Asserts(addr) THEN pc' = "bug" ELSE pc' \in {"map_ring", "run", "no_ring"}
        BY <1>1, <2>1, MapRingFacts DEF Reach
      <3>2. addr.grant = drv.grant /\ drv # NoDrv /\ drv' = drv
        BY <3>1, NoDriver DEF Addr, guestVars
      <3> HIDE DEF addr
      <3>3. ~ Asserts(addr) /\ (advance => ~ drv.grant)
            /\ (use_gnttab' >= 0 => drv.grant = (use_gnttab' > 0))
        BY <1>1, <3>1, <3>2, NotRefused
      <3> QED
        BY <3>1, <3>2, <3>3 DEF KindInv
    <2>2. CASE virt_queue__get_iov
      <3> DEFINE addr == Addr(drv, TableAt)
      <3>1. /\ drv # NoDrv
            /\ UNCHANGED <<advance, host_addr, ring, desc, table, drv, sent, i, lost, countVars>>
            /\ addr.grant = drv.grant
            /\ \/ pc' = "walk" /\ use_gnttab' = use_gnttab
               \/ /\ use_gnttab' = demu_detect_mappings_model(addr)
                  /\ IF Asserts(addr) THEN pc' = "bug" ELSE pc' \in {"fault", "walk"}
        BY <1>1, <2>2, TakeFacts DEF Reach
      <3> HIDE DEF addr
      <3>2. ~ Asserts(addr)
            /\ (use_gnttab' = demu_detect_mappings_model(addr) =>
                    /\ advance => ~ drv.grant
                    /\ use_gnttab' >= 0 => drv.grant = (use_gnttab' > 0))
        BY <1>1, <3>1, NotRefused
      <3>3. CASE pc' = "walk" /\ use_gnttab' = use_gnttab
        BY <1>3, <3>1, <3>3
      <3>4. CASE use_gnttab' = demu_detect_mappings_model(addr) /\ pc' \in {"fault", "walk"}
        BY <3>1, <3>2, <3>4 DEF KindInv
      <3> QED
        BY <3>1, <3>2, <3>3, <3>4
    <2>3. CASE virt_queue__get_head_iov
      <3> DEFINE addr == Addr(drv, Chain[Len(req.iov) + 1].at)
      <3>1. /\ pc = "walk" /\ addr.grant = drv.grant
            /\ UNCHANGED <<advance, host_addr, ring, guestVars, tab, i, lost, countVars>>
            /\ use_gnttab' = demu_detect_mappings_model(addr)
            /\ IF Asserts(addr) THEN pc' = "bug" ELSE pc' \in {"walk", "work", "walked"}
        BY <1>1, <2>3, WalkFacts DEF Reach
      <3>2. drv # NoDrv /\ drv' = drv
        BY <1>1, <3>1, ARequest DEF Working, guestVars
      <3> HIDE DEF addr
      <3>3. ~ Asserts(addr) /\ (advance => ~ drv.grant)
            /\ (use_gnttab' >= 0 => drv.grant = (use_gnttab' > 0))
        BY <1>1, <3>1, <3>2, NotRefused
      <3> QED
        BY <3>1, <3>2, <3>3 DEF KindInv
    <2> QED
      BY <1>5, <2>1, <2>2, <2>3
  <1>6. CASE \E d \in Drivers : virtio_init_device_vq(d)
    <2>1. PICK d \in Drivers : virtio_init_device_vq(d)
      BY <1>6
    <2>2. /\ UNCHANGED <<advance, use_gnttab>> /\ drv' = d /\ pc' = "map_ring"
          /\ use_gnttab >= 0 \/ advance => d.grant = (use_gnttab > 0)
      BY <2>1 DEF virtio_init_device_vq, hostVars
    <2>3. advance => (use_gnttab > 0) = FALSE
      BY <1>1 DEF LoopInv, Types
    <2>4. advance => ~ d.grant
      BY <2>2, <2>3
    <2> QED
      BY <2>2, <2>4 DEF KindInv
  <1>7. CASE demu_initialize \/ demu_deinitialize \/ demu_map_guest_ram \/ demu_unmap_guest_ram
    <2>1. drv' = drv
      BY <1>7 DEF demu_initialize, demu_deinitialize, demu_map_guest_ram, demu_unmap_guest_ram,
                  guestVars
    <2>2. drv = NoDrv
      BY <1>1, <1>7 DEF LoopInv, RingInv, demu_initialize, demu_deinitialize, demu_map_guest_ram,
                        demu_unmap_guest_ram
    <2>3. pc' # "bug"
      BY <1>7 DEF KindInv, demu_initialize, demu_deinitialize, demu_map_guest_ram,
                  demu_unmap_guest_ram, Iterate
    <2> QED
      BY <1>4, <2>1, <2>2, <2>3
  <1>8. CASE \/ virtio_exit_vq \/ unmap_table \/ segment_fault \/ virtio_blk_complete
             \/ unmap_segment \/ drop \/ \E c \in Chains : submit(c) \/ submit_indirect(c)
    <2>1. UNCHANGED <<advance, use_gnttab, drv>>
      BY <1>8 DEF virtio_exit_vq, unmap_table, segment_fault, virtio_blk_complete, unmap_segment,
                  drop, submit, submit_indirect, guestVars, hostVars
    <2>2. pc' # "bug"
      BY <1>8 DEF KindInv, virtio_exit_vq, unmap_table, segment_fault, virtio_blk_complete,
                  unmap_segment, drop, submit, submit_indirect, Iterate
    <2> QED
      BY <1>3, <2>1, <2>2
  <1>9. CASE unmap_ring
    <2>1. UNCHANGED <<advance, use_gnttab>> /\ drv' \in {drv, NoDrv} /\ pc' # "bug"
      BY <1>9 DEF KindInv, unmap_ring, Iterate
    <2> QED
      BY <1>3, <1>4, <2>1
  <1>10. CASE UNCHANGED vars
    <2>1. UNCHANGED <<advance, use_gnttab, drv, pc>>
      BY <1>10 DEF vars, hostVars, guestVars
    <2> QED
      BY <1>3, <2>1 DEF KindInv
  <1> QED
    BY <1>5, <1>6, <1>7, <1>8, <1>9, <1>10 DEF Next

\* In a guest whose drivers use one kind of address, no address is ever refused: the
\* BUG_ON of demu_map_guest_range and of demu_get_host_addr stay silent, whichever
\* kind it is, and also for the guest that comes next.
THEOREM OneKind == SameModel => (Spec => []AddressesOfOneKind)
  <1> SUFFICES ASSUME SameModel PROVE Spec => []AddressesOfOneKind
    OBVIOUS
  <1>1. Init => KindInv
    BY DEF Init, KindInv
  <1>2. Inv /\ KindInv /\ [Next]_vars => KindInv'
    BY KindStays
  <1>3. KindInv => AddressesOfOneKind
    BY DEF KindInv, AddressesOfOneKind
  <1> QED
    BY <1>1, <1>2, <1>3, Inductive, PTL DEF Spec
=============================================================================
