---------------------------- MODULE GuestMemory ----------------------------
(***************************************************************************)
(* How the memory of a guest comes into the process and leaves it: the     *)
(* ranges of demu.c, mapped page by page through foreign mappings or grant *)
(* references, or all in advance in a build with MAP_IN_ADVANCE; the rings *)
(* of a queue (virtio_init_device_vq, virtio_exit_vq of virtio/core.c);    *)
(* the chain of descriptors of a request (virt_queue__get_head_iov) and    *)
(* its end in virtio_blk_complete (virtio/blk.c).  Every mapping and every *)
(* unmapping is a step; the loops they are in have the counter i.  An      *)
(* address is a byte of the guest's memory or, when bit 63 is set, of its  *)
(* grants.                                                                 *)
(*                                                                         *)
(* External: the driver and its descriptors; the calls of the Xen          *)
(* libraries, which map n pages at a free place of the process or fail.    *)
(***************************************************************************)
EXTENDS SequencesExt

CONSTANTS
    PageSize,
    FirstPage,      \* the process maps nothing below this page
    Place(_, _),    \* Place(D, n): where the kernel puts n pages when D are mapped
    Builds,         \* builds tried: MAP_IN_ADVANCE or not
    Ram0Base, Ram0Size, Ram1Base,   \* GUEST_RAM0_BASE and so on, in pages
    TotPages,       \* pages of the guest, dominfo.tot_pages - 4
    Drivers,        \* drivers tried: [grant, legacy, rings]
    Chains,         \* requests they make: sequences of [at, len, write]
    RingSize,       \* vring_size, the rings of a legacy driver together
    Num,            \* vring.num
    TableAt,        \* where a driver puts a table of indirect descriptors
    FailAt,         \* which mappings may fail: "ram", "ring", "chain"
    SameModel,      \* the drivers of a guest use one kind of address
    Guests, Loads   \* bounds: guests served, drivers loaded for each

VARIABLES
    advance,        \* the build
    host,           \* pages mapped into the process: [kind, page, prot] by host page
    use_gnttab,     \* -1 not known yet, 0 foreign mappings, 1 grants
    host_addr,      \* where the banks of guest memory are mapped, or NULL
    ring,           \* the mappings of an enabled queue, [ptr, size]
    desc, table,    \* guest: the descriptors of the ring, the indirect table
    avail,          \* guest: heads that are available
    req,            \* the request the I/O thread works on, [head, iov, out, in]
    tab,            \* virt_queue__get_head_iov: the indirect table, [ptr, len]
    idx,            \* virt_queue__get_head_iov: the descriptor that is next
    i,              \* the counter of the loop the process is in
    pc,             \* the loop, or how the process died: "bug", the BUG_ON of an
                    \* address, "no_ring", the one of a ring, or "fault"
    drv,            \* guest: its driver
    sent,           \* guest: [chain, at], what the driver has sent and in which
                    \* descriptors, by the head the device has not returned
    lost,           \* history: host pages of requests dropped unanswered
    guests, loads

guestVars == <<desc, table, avail, drv, sent>>
hostVars == <<host, use_gnttab>>
reqVars == <<req, tab, idx>>
countVars == <<guests, loads>>
vars == <<advance, hostVars, host_addr, ring, guestVars, reqVars, i, pc, lost, countVars>>

NULL == 0
NoReq == [head |-> Num]
NoTab == [ptr |-> NULL, len |-> 0]
NoDrv == [grant |-> FALSE, legacy |-> FALSE, rings |-> <<>>]
Heads == 0 .. Num - 1
Addr(d, at) == [grant |-> d.grant, at |-> at]
NoDesc == [addr |-> Addr(NoDrv, 0), len |-> 0, write |-> FALSE, indirect |-> FALSE,
           chained |-> FALSE, next |-> 0]

Init ==
    /\ advance \in Builds
    /\ host = <<>> /\ use_gnttab = -1 /\ host_addr = <<NULL, NULL>> /\ ring = <<>>
    /\ desc = [h \in Heads |-> NoDesc] /\ table = <<>> /\ avail = <<>>
    /\ req = NoReq /\ tab = NoTab /\ idx = 0 /\ i = 1 /\ pc = "off"
    /\ drv = NoDrv /\ sent = <<>>
    /\ lost = {} /\ guests = 0 /\ loads = 0

-----------------------------------------------------------------------------
(* Ranges                                                                  *)

\* Pages that size bytes from byte `at' touch: size plus the offset in the first
\* page, rounded up.
PageCount(at, size) == ((at % PageSize) + size + PageSize - 1) \div PageSize

\* demu_detect_mappings_model, by the first address of a driver.
demu_detect_mappings_model(addr) ==
    IF use_gnttab >= 0 \/ advance THEN use_gnttab ELSE IF addr.grant THEN 1 ELSE 0

\* The pages at which n pages may be mapped.
Free(n) ==
    {v \in Place(DOMAIN host, n) \cap Nat :
        v >= FirstPage /\ (v .. v + n - 1) \cap DOMAIN host = {}}

\* mutant: the offset in the first page is not added
demu_map_guest_range_page(addr, size, what) ==
    LET free == Free(PageCount(addr.at, size))
    IN {v * PageSize : v \in free} \cup IF what \in FailAt \/ free = {} THEN {NULL} ELSE {}

\* What demu_map_guest_range may return for size bytes at addr.
demu_map_guest_range(addr, size, what) ==
    LET free == Free(PageCount(addr.at, size))
    IN {v * PageSize + (addr.at % PageSize) : v \in free}
           \cup IF what \in FailAt \/ free = {} THEN {NULL} ELSE {}

\* demu_map_guest_pages, demu_map_guest_grant_refs: the pages of the range are at
\* ptr, unless the call has failed.
Mapped(ptr, addr, size, prot) ==
    LET v == ptr \div PageSize
        new == v .. v + PageCount(addr.at, size) - 1
        page(w) == [kind |-> IF use_gnttab' > 0 THEN "grant" ELSE "foreign",
                    page |-> (addr.at \div PageSize) + w - v, prot |-> prot]
    IN host' = IF ptr = NULL THEN host
               ELSE [w \in DOMAIN host \cup new |-> IF w \in DOMAIN host THEN host[w] ELSE page(w)]

\* mutant: the pages that size alone fills
demu_unmap_guest_range_size(ptr, size) ==
    LET v == ptr \div PageSize
        gone == v .. v + PageCount(0, size) - 1
    IN host' = [w \in DOMAIN host \ gone |-> host[w]]

\* The pages of size bytes from a pointer on.
HostPages(ptr, size) == LET v == ptr \div PageSize IN v .. v + PageCount(ptr, size) - 1

\* demu_unmap_guest_range: page and number come from the pointer, NULL too,
\* where nothing is mapped.
demu_unmap_guest_range(ptr, size) ==
    host' = [w \in DOMAIN host \ HostPages(ptr, size) |-> host[w]]

\* demu_init_guest_ram: the banks of guest memory, [base, size] in pages.
demu_init_guest_ram ==
    IF TotPages <= Ram0Size THEN <<[base |-> Ram0Base, size |-> TotPages]>>
    ELSE <<[base |-> Ram0Base, size |-> Ram0Size],
           [base |-> Ram1Base, size |-> TotPages - Ram0Size]>>

\* Byte `at' is in bank b.
InBank(at, b) ==
    LET bank == demu_init_guest_ram[b]
    IN bank.base * PageSize <= at /\ at < (bank.base + bank.size) * PageSize

\* demu_get_host_addr: by the bank an address is in, NULL when in none.
demu_get_host_addr(addr) ==
    LET banks == {b \in DOMAIN demu_init_guest_ram : host_addr[b] # NULL /\ InBank(addr.at, b)}
        b == CHOOSE b \in banks : TRUE
    IN IF banks = {} THEN NULL
       ELSE host_addr[b] + (addr.at - demu_init_guest_ram[b].base * PageSize)

\* The BUG_ON of an address that is not of the kind the guest uses.
Asserts(addr) ==
    IF advance THEN addr.grant ELSE (demu_detect_mappings_model(addr) > 0) # addr.grant

\* The pointers by which this build may reach a range, and what is mapped then.
Reachable(addr, size, what) ==
    IF Asserts(addr) THEN {NULL}
    ELSE IF advance THEN {demu_get_host_addr(addr)}
    ELSE demu_map_guest_range(addr, size, what)

Reach(ptr, addr, size, prot) ==
    /\ use_gnttab' = demu_detect_mappings_model(addr)
    /\ IF advance THEN UNCHANGED host ELSE Mapped(ptr, addr, size, prot)

Release(ptr, size) == IF advance THEN UNCHANGED host ELSE demu_unmap_guest_range(ptr, size)

\* The loop goes on to the next of n, or is over.
Iterate(n, after) ==
    IF i < n THEN i' = i + 1 /\ UNCHANGED pc ELSE i' = 1 /\ pc' = after

-----------------------------------------------------------------------------
(* What a driver asks for                                                  *)

\* What virtio_init_device_vq maps: the rings of a legacy driver in one range,
\* else a page for each.
Rings(d) == IF d.legacy THEN <<[at |-> d.rings[1], size |-> RingSize]>>
            ELSE [k \in 1 .. 3 |-> [at |-> d.rings[k], size |-> PageSize]]

\* A buffer of a driver: it does not reach over the end of a bank, and is smaller
\* than the part of the process that is never mapped.
Buffer(at, size) ==
    /\ at \in Nat /\ size \in Nat \ {0} /\ size <= FirstPage * PageSize
    /\ \A b \in DOMAIN demu_init_guest_ram : InBank(at, b) => InBank(at + size - 1, b)

ASSUME GuestMemoryAssumption ==
    /\ PageSize \in Nat \ {0} /\ FirstPage \in Nat \ {0} /\ Num \in Nat \ {0}
    /\ RingSize \in Nat \ {0}
    /\ Builds \subseteq BOOLEAN /\ SameModel \in BOOLEAN
    /\ Ram0Base \in Nat \ {0} /\ Ram0Size \in Nat \ {0} /\ Ram1Base \in Nat /\ TotPages \in Nat \ {0}
    /\ Ram1Base >= Ram0Base + Ram0Size
    /\ Guests \in Nat /\ Loads \in Nat
    /\ \A c \in Chains :
           /\ c \in Seq([at : Nat, len : Nat, write : BOOLEAN]) /\ Len(c) \in 2 .. Num
           /\ \A k \in 1 .. Len(c) : Buffer(c[k].at, c[k].len)
           /\ Buffer(TableAt, Len(c))
    /\ \A d \in Drivers :
           /\ d \in [grant : BOOLEAN, legacy : BOOLEAN, rings : Seq(Nat)]
           /\ Len(d.rings) = IF d.legacy THEN 1 ELSE 3
           /\ \A k \in DOMAIN Rings(d) : Buffer(Rings(d)[k].at, Rings(d)[k].size)

-----------------------------------------------------------------------------
(* A guest                                                                 *)

\* demu_initialize: the kind of mappings is not known.
demu_initialize ==
    /\ pc = "off" /\ guests < Guests
    /\ guests' = guests + 1 /\ loads' = 0 /\ use_gnttab' = -1
    /\ pc' = IF advance THEN "map_ram" ELSE "run"
    /\ UNCHANGED <<advance, host, host_addr, ring, guestVars, reqVars, i, lost>>

\* demu_map_guest_ram: bank i is mapped; when it cannot be, those before it are
\* unmapped and the guest is not served.
demu_map_guest_ram ==
    /\ pc = "map_ram"
    /\ UNCHANGED use_gnttab
    /\ LET bank == demu_init_guest_ram[i]
           addr == Addr(NoDrv, bank.base * PageSize)
           size == bank.size * PageSize
       IN \E ptr \in demu_map_guest_range(addr, size, "ram") :
              /\ Mapped(ptr, addr, size, "rw")
              /\ host_addr' = [host_addr EXCEPT ![i] = ptr]
              /\ IF ptr = NULL THEN i' = 1 /\ pc' = "unmap_ram"
                 ELSE Iterate(Len(demu_init_guest_ram), "run")
    /\ UNCHANGED <<advance, ring, guestVars, reqVars, lost, countVars>>

\* demu_deinitialize, after the device has been reset.
demu_deinitialize ==
    /\ pc = "run" /\ drv = NoDrv
    /\ pc' = IF advance THEN "unmap_ram" ELSE "off"
    /\ UNCHANGED <<advance, hostVars, host_addr, ring, guestVars, reqVars, i, lost, countVars>>

\* demu_unmap_guest_ram: bank i, when it is mapped.
demu_unmap_guest_ram ==
    /\ pc = "unmap_ram"
    /\ IF host_addr[i] = NULL THEN UNCHANGED host
       ELSE demu_unmap_guest_range(host_addr[i], demu_init_guest_ram[i].size * PageSize)
    /\ host_addr' = [host_addr EXCEPT ![i] = NULL]
    /\ Iterate(Len(host_addr), "off")
    /\ UNCHANGED <<advance, use_gnttab, ring, guestVars, reqVars, lost, countVars>>

-----------------------------------------------------------------------------
(* The queue                                                               *)

\* A driver starts the queue, which init_vq maps.
virtio_init_device_vq(d) ==
    /\ pc = "run" /\ drv = NoDrv /\ loads < Loads
    /\ SameModel /\ (use_gnttab >= 0 \/ advance) => d.grant = (use_gnttab > 0)
    /\ drv' = d /\ loads' = loads + 1 /\ pc' = "map_ring"
    /\ UNCHANGED <<advance, hostVars, host_addr, ring, desc, table, avail, sent, reqVars, i, lost,
                   guests>>

\* Ring i is mapped; BUG_ON without a ring once all have been tried.
map_ring ==
    /\ pc = "map_ring"
    /\ LET r == Rings(drv)[i]
           addr == Addr(drv, r.at)
       IN \E ptr \in Reachable(addr, r.size, "ring") :
              /\ Reach(ptr, addr, r.size, "rw")
              /\ ring' = Append(ring, [ptr |-> ptr, size |-> r.size])
              /\ IF Asserts(addr) THEN i' = 1 /\ pc' = "bug"
                 ELSE Iterate(Len(Rings(drv)),
                              IF \E k \in DOMAIN ring' : ring'[k].ptr = NULL THEN "no_ring" ELSE "run")
    /\ UNCHANGED <<advance, host_addr, guestVars, reqVars, lost, countVars>>

\* virtio_exit_vq: the I/O thread is joined between two requests.  The driver has
\* taken its descriptors back.
virtio_exit_vq ==
    /\ pc = "run" /\ drv # NoDrv
    /\ pc' = "unmap_ring"
    /\ sent' = <<>> /\ avail' = <<>> /\ desc' = [h \in Heads |-> NoDesc] /\ table' = <<>>
    /\ UNCHANGED <<advance, hostVars, host_addr, ring, drv, reqVars, i, lost, countVars>>

\* Ring i is unmapped; after the last the queue is cleared.
unmap_ring ==
    /\ pc = "unmap_ring"
    /\ Release(ring[i].ptr, ring[i].size)
    /\ Iterate(Len(ring), "run")
    /\ IF i < Len(ring) THEN UNCHANGED <<ring, drv>> ELSE ring' = <<>> /\ drv' = NoDrv
    /\ UNCHANGED <<advance, use_gnttab, host_addr, desc, table, avail, sent, reqVars, lost, countVars>>

-----------------------------------------------------------------------------
(* Requests                                                                *)

\* The queue works.
Started == drv # NoDrv /\ pc \in {"run", "walk", "walked", "work", "complete"}

\* Descriptor k of chain c, when the one after it is at `next'.
Descriptor(c, k, next) ==
    [addr |-> Addr(drv, c[k].at), len |-> c[k].len, write |-> c[k].write,
     indirect |-> FALSE, chained |-> k < Len(c), next |-> IF k < Len(c) THEN next ELSE 0]

\* Descriptors of the ring the driver may use.
FreeDesc == Heads \ UNION {Range(sent[h].at) : h \in DOMAIN sent}

\* Chain c is sent in descriptors s, the first of which is its head.
send(c, s) ==
    /\ avail' = Append(avail, s[1])
    /\ sent' = [h \in DOMAIN sent \cup {s[1]} |->
                   IF h = s[1] THEN [chain |-> c, at |-> s] ELSE sent[h]]

\* External: the driver makes a request, in descriptors of the ring that are
\* free or, by one of them, in an indirect table, a descriptor to a byte.
submit(c) ==
    /\ Started /\ \A h \in DOMAIN sent : sent[h].chain # c
    /\ \E s \in [1 .. Len(c) -> FreeDesc] :
           /\ IsInjective(s)
           /\ desc' = [h \in Heads |->
                          IF \E k \in DOMAIN s : s[k] = h
                          THEN LET k == CHOOSE k \in DOMAIN s : s[k] = h
                               IN Descriptor(c, k, s[k + 1])
                          ELSE desc[h]]
           /\ send(c, s)
    /\ UNCHANGED <<advance, hostVars, host_addr, ring, table, drv, reqVars, i, pc, lost, countVars>>

submit_indirect(c) ==
    /\ Started /\ \A h \in DOMAIN sent : sent[h].chain # c
    /\ table = <<>>
    /\ \E h \in FreeDesc :
           /\ table' = [k \in 0 .. Len(c) - 1 |-> Descriptor(c, k + 1, k + 1)]
           /\ desc' = [desc EXCEPT ![h] = [NoDesc EXCEPT !.addr = Addr(drv, TableAt),
                                                         !.len = Len(c), !.indirect = TRUE]]
           /\ send(c, <<h>>)
    /\ UNCHANGED <<advance, hostVars, host_addr, ring, drv, reqVars, i, pc, lost, countVars>>

\* mutant: last_avail_idx stays
virt_queue__pop_same == avail
\* virt_queue__pop takes the first head and goes on to the next.
virt_queue__pop == Tail(avail)

\* virt_queue__get_iov: a head is taken.  The indirect table is mapped for as long
\* as the chain is walked; without it the process faults.
virt_queue__get_iov ==
    /\ pc = "run" /\ drv # NoDrv /\ avail # <<>>
    /\ avail' = virt_queue__pop
    /\ req' = [head |-> Head(avail), iov |-> <<>>, out |-> 0, in |-> 0]
    /\ LET d == desc[Head(avail)]
       IN \/ /\ ~d.indirect
             /\ idx' = Head(avail) /\ pc' = "walk"
             /\ UNCHANGED <<hostVars, tab>>
          \/ /\ d.indirect
             /\ \E ptr \in Reachable(d.addr, d.len, "chain") :
                    /\ Reach(ptr, d.addr, d.len, "r")
                    /\ tab' = [ptr |-> ptr, len |-> d.len]
                    /\ pc' = IF Asserts(d.addr) THEN "bug" ELSE IF ptr = NULL THEN "fault" ELSE "walk"
             /\ idx' = 0
    /\ UNCHANGED <<advance, host_addr, ring, desc, table, drv, sent, i, lost, countVars>>

\* next_desc: max after the last.
next_desc(d, max) == IF d.chained /\ d.next < max THEN d.next ELSE max

\* virt_queue__get_head_iov: a segment is mapped, until its request is complete.
virt_queue__get_head_iov ==
    /\ pc = "walk"
    /\ LET d == IF tab = NoTab THEN desc[idx] ELSE table[idx]
           max == IF tab = NoTab THEN Num ELSE tab.len
           after == IF tab = NoTab THEN "work" ELSE "walked"
       IN \E ptr \in Reachable(d.addr, d.len, "chain") :
              /\ Reach(ptr, d.addr, d.len, IF d.write THEN "w" ELSE "r")
              /\ req' = [req EXCEPT !.iov = Append(@, [base |-> ptr, len |-> d.len]),
                                    !.in = IF d.write THEN @ + 1 ELSE @,
                                    !.out = IF d.write THEN @ ELSE @ + 1]
              /\ idx' = next_desc(d, max)
              /\ pc' = IF Asserts(d.addr) THEN "bug" ELSE IF idx' = max THEN after ELSE "walk"
    /\ UNCHANGED <<advance, host_addr, ring, guestVars, tab, i, lost, countVars>>

\* Its last lines: the indirect table is unmapped.
unmap_table ==
    /\ pc = "walked"
    /\ Release(tab.ptr, tab.len)
    /\ tab' = NoTab /\ pc' = "work"
    /\ UNCHANGED <<advance, use_gnttab, host_addr, ring, guestVars, req, idx, i, lost, countVars>>

\* A segment that is not mapped: memcpy, the serial number, the header and the
\* status fault.
segment_fault ==
    /\ pc = "work"
    /\ \E k \in DOMAIN req.iov : req.iov[k].base = NULL
    /\ pc' = "fault"
    /\ UNCHANGED <<advance, hostVars, host_addr, ring, guestVars, reqVars, i, lost, countVars>>

\* virtio_blk_complete: the status is written, ...
virtio_blk_complete ==
    /\ pc = "work" /\ req.iov[1].base # NULL /\ Last(req.iov).base # NULL
    /\ pc' = "complete"
    /\ UNCHANGED <<advance, hostVars, host_addr, ring, guestVars, reqVars, i, lost, countVars>>

\* ... segment i is unmapped, and after the last the head is returned; the driver
\* takes its descriptors back.
unmap_segment ==
    /\ pc = "complete"
    /\ Release(req.iov[i].base, req.iov[i].len)
    /\ Iterate(Len(req.iov), "run")
    /\ IF i < Len(req.iov) THEN UNCHANGED <<req, idx, desc, table, sent>>
       ELSE /\ req' = NoReq /\ idx' = 0
            /\ desc' = [h \in Heads |-> IF h \in Range(sent[req.head].at) THEN NoDesc ELSE desc[h]]
            /\ table' = IF desc[req.head].indirect THEN <<>> ELSE table
            /\ sent' = [h \in DOMAIN sent \ {req.head} |-> sent[h]]
    /\ UNCHANGED <<advance, use_gnttab, host_addr, ring, avail, drv, tab, lost, countVars>>

\* The segments of the request that the process still holds.
Segments ==
    IF req = NoReq THEN {}
    ELSE {k \in DOMAIN req.iov : req.iov[k].base # NULL /\ (pc = "complete" => k >= i)}

\* A request of an unknown type, or whose transfer fails: nobody unmaps it, and it is
\* never returned.
drop ==
    /\ pc = "work" /\ req.iov[1].base # NULL
    /\ lost' = IF advance THEN lost
               ELSE lost \cup UNION {HostPages(req.iov[k].base, req.iov[k].len) : k \in Segments}
    /\ req' = NoReq /\ idx' = 0 /\ pc' = "run"
    /\ UNCHANGED <<advance, hostVars, host_addr, ring, guestVars, tab, i, countVars>>

Next ==
    \/ demu_initialize \/ demu_map_guest_ram \/ demu_deinitialize \/ demu_unmap_guest_ram
    \/ \E d \in Drivers : virtio_init_device_vq(d)
    \/ map_ring \/ virtio_exit_vq \/ unmap_ring
    \/ \E c \in Chains : submit(c) \/ submit_indirect(c)
    \/ virt_queue__get_iov \/ virt_queue__get_head_iov \/ unmap_table
    \/ segment_fault \/ virtio_blk_complete \/ unmap_segment \/ drop

Spec == Init /\ [][Next]_vars
-----------------------------------------------------------------------------
(* Properties                                                              *)

Loops == {"map_ram", "unmap_ram", "map_ring", "unmap_ring", "walk", "walked", "complete"}

TypeOK ==
    /\ \A v \in DOMAIN host :
           v >= FirstPage /\ host[v].kind \in {"foreign", "grant"} /\ host[v].prot \in {"r", "w", "rw"}
    /\ use_gnttab \in {-1, 0, 1} /\ Len(host_addr) = 2 /\ Len(ring) <= 3
    /\ Range(avail) \subseteq DOMAIN sent /\ \A h \in DOMAIN sent : sent[h].chain \in Chains
    /\ req # NoReq => req.head \in DOMAIN sent \ Range(avail)
    /\ pc \in {"off", "run", "work", "bug", "no_ring", "fault"} \cup Loops
    /\ guests \in 0 .. Guests /\ loads \in 0 .. Loads

\* Every byte from ptr on is the guest's byte, and may be used in this way.
Shows(ptr, at, size, prot) ==
    \A k \in 0 .. size - 1 :
        LET v == (ptr + k) \div PageSize
        IN /\ v \in DOMAIN host
           /\ host[v].page = (at + k) \div PageSize
           /\ (ptr + k) % PageSize = (at + k) % PageSize
           /\ host[v].prot \in {prot, "rw"}
           /\ host[v].kind = IF drv.grant THEN "grant" ELSE "foreign"

\* Rings that are mapped.
RingsMapped == {k \in DOMAIN ring : ring[k].ptr # NULL /\ (pc = "unmap_ring" => k >= i)}

\* As long as the process has a pointer into the guest, it reaches what the driver
\* meant, byte for byte, whatever else was mapped or unmapped: the rings, the table
\* of indirect descriptors and the segments of a request, in their order and the
\* ones to be written counted apart.
PointersReachGuest ==
    /\ \A k \in RingsMapped : Shows(ring[k].ptr, Rings(drv)[k].at, Rings(drv)[k].size, "rw")
    /\ tab.ptr # NULL => Shows(tab.ptr, TableAt, tab.len, "r")
    /\ req # NoReq =>
           LET c == sent[req.head].chain
           IN /\ \A k \in Segments :
                     /\ req.iov[k].len = c[k].len
                     /\ Shows(req.iov[k].base, c[k].at, c[k].len, IF c[k].write THEN "w" ELSE "r")
              /\ pc = "work" => /\ Len(req.iov) = Len(c) /\ req.out + req.in = Len(c)
                                /\ req.in = Cardinality({k \in DOMAIN c : c[k].write})

\* Every mapping is undone once, by the end of its chain, its request, its queue or
\* its guest: at any moment the process has mapped what it has pointers to, and the
\* requests that were dropped.
MappingsUndone ==
    DOMAIN host =
        lost
        \cup (UNION {HostPages(host_addr[b], demu_init_guest_ram[b].size * PageSize) :
                        b \in {b \in DOMAIN host_addr : host_addr[b] # NULL}})
        \cup IF advance THEN {}
             ELSE (UNION {HostPages(ring[k].ptr, ring[k].size) : k \in RingsMapped})
                  \cup (UNION {HostPages(req.iov[k].base, req.iov[k].len) : k \in Segments})
                  \cup IF tab.ptr = NULL THEN {} ELSE HostPages(tab.ptr, tab.len)

\* The BUG_ON of demu_map_guest_range and demu_get_host_addr: no address comes
\* that is not of the kind its guest was found to use.
AddressesOfOneKind == pc # "bug"
=============================================================================
