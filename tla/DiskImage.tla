----------------------------- MODULE DiskImage -----------------------------
(***************************************************************************)
(* disk_image__read and disk_image__write for the disks virtio-disk opens: *)
(* a raw file or block device (disk/raw.c over util/read-write.c), a raw   *)
(* file mapped privately, and a QCOW image (disk/qcow.c), which is opened  *)
(* read-only.  One thread, the queue's, does one host call per step; the   *)
(* host may transfer less than it was asked for and may fail.              *)
(***************************************************************************)
EXTENDS Qcow

CONSTANTS
    L1,             \* offsets of the level 2 tables, 0 for none
    L2,             \* L2[t], the table at offset t: offsets of clusters, 0 for none
    CompressedAt,   \* the clusters whose entry has the compressed flag
    HasZlib,        \* built with CONFIG_HAS_ZLIB
    Kinds,          \* the disks tried, of "raw", "mmap" and "qcow"
    SectorSize,
    Capacity,       \* Capacity[kind], disk->size
    Lens,           \* lengths an iovec may have
    MaxIovs,        \* bound: iovecs of a request
    MaxSize,        \* bound: bytes of a request
    MaxWrites,      \* bound: writes
    HostErrors,     \* what the host may fail to do: "read" or "write" a raw disk, read
                    \* a "table" or the "data" of a QCOW image, or all of a table ("short")
    Width           \* 2^32, scaled down: nr and nr_read are u32

\* The tables an image refers to are in it; an iovec is not empty, and a request
\* is shorter than a u32 can count.
ASSUME ImageAssumption ==
    /\ L1 \in Seq(Nat)
    /\ \A i \in DOMAIN L1 : L1[i] # 0 => L1[i] \in DOMAIN L2
    /\ \A t \in DOMAIN L2 : L2[t] \in [1 .. L2Entries -> Nat]
    /\ HasZlib \in BOOLEAN
    /\ SectorSize \in Nat \ {0} /\ Lens \subseteq Nat \ {0}
    /\ Kinds \subseteq {"raw", "mmap", "qcow"}
    /\ \A k \in Kinds : Capacity[k] \in Nat
    /\ MaxIovs \in Nat /\ MaxWrites \in Nat
    /\ MaxSize \in Nat /\ Width \in Nat /\ MaxSize < Width

VARIABLES
    kind,
    file,           \* the bytes of a raw disk, or of its private mapping
    cache,          \* l1t->lru_list, [offset, table], least recently used first
    req,            \* the request: op, sector and where each of its iovecs ends
    buf,            \* the guest memory of its iovecs
    pc, ret,
    el, total,      \* the first iovec left, the bytes counted so far
    offset,         \* preadv_in_full, pwritev_in_full
    first,          \* qcow_read_sector: the sector where iovec el starts
    sector, nr_read, pos,   \* qcow_read_sector_single; pos is its buf
    failed,         \* history: a read of the image failed in this request
    astray,         \* history: it wrote to memory beyond its iovecs
    writes

ioVars == <<el, total, offset>>
qcowVars == <<first, sector, nr_read, pos>>
vars == <<kind, file, cache, req, buf, pc, ret, ioVars, qcowVars, failed, astray,
          writes>>

Unset == -1         \* a byte of guest memory nothing was read into
Error == -1         \* the result of a call that failed
NoReq == [op |-> "none", sector |-> 0, ends |-> <<>>]

\* Where iovec j starts in the buffer, and its length.
StartIn(ends, j) == IF j = 1 THEN 0 ELSE ends[j - 1]
Start(j) == StartIn(req.ends, j)
iov_len(j) == req.ends[j] - Start(j)
Size == Start(Len(req.ends) + 1)

Iovs ==
    {ends \in UNION {[1 .. n -> 1 .. MaxSize] : n \in 1 .. MaxIovs} :
        \A j \in DOMAIN ends : ends[j] - StartIn(ends, j) \in Lens}

DiskByte(p) == p + 1
Bytes(k) == 0 .. Capacity[k] - 1

Init ==
    /\ kind \in Kinds
    /\ file = IF kind = "qcow" THEN <<>> ELSE [p \in Bytes(kind) |-> DiskByte(p)]
    /\ cache = <<>>
    /\ req = NoReq /\ buf = <<>> /\ pc = "idle" /\ ret = 0
    /\ el = 1 /\ total = 0 /\ offset = 0
    /\ first = 0 /\ sector = 0 /\ nr_read = 0 /\ pos = 0
    /\ failed = FALSE /\ astray = FALSE /\ writes = 0

\* virtio-blk hands over a request of the guest, within the capacity it reads in
\* the configuration; a guest does not write to a QCOW disk, which has
\* VIRTIO_BLK_F_RO.
Submit(op, s, ends) ==
    LET size == Last(ends)
    IN /\ pc = "idle"
       /\ s * SectorSize + size <= Capacity[kind]
       /\ op = "write" => kind # "qcow" /\ writes < MaxWrites
       /\ req' = [op |-> op, sector |-> s, ends |-> ends]
       /\ buf' = [k \in 1 .. size |->
                     IF op = "write" THEN 100 * (writes + 1) + k ELSE Unset]
       /\ writes' = IF op = "write" THEN writes + 1 ELSE writes
       /\ pc' = IF kind = "qcow" THEN "sector" ELSE kind
       /\ el' = 1 /\ total' = 0 /\ failed' = FALSE /\ astray' = FALSE
       /\ offset' = s * SectorSize
       /\ first' = s /\ sector' = s /\ nr_read' = 0 /\ pos' = 0
       /\ UNCHANGED <<kind, file, cache, ret>>

\* The result goes back to virtio_blk_do_io_request: one below 0 as it is,
\* another through disk_req_cb.
Return(r) == pc' = "idle" /\ ret' = r

-----------------------------------------------------------------------------
(* Raw files and block devices                                             *)

\* Byte k of the buffer, when n bytes starting at byte k0 + 1 of it are read,
\* the first from place p of F.
Filled(k0, n, F(_), p) ==
    [k \in DOMAIN buf |-> IF k \in k0 + 1 .. k0 + n THEN F(p + k - k0 - 1) ELSE buf[k]]

\* mutant: the offset stays behind the iovecs
shift_no_offset(nr) ==
    \E next \in el .. Len(req.ends) + 1 :
        LET done == Start(next) - Start(el)
        IN /\ done <= nr
           /\ next <= Len(req.ends) => nr < req.ends[next] - Start(el)
           /\ el' = next
           /\ total' = total + done
           /\ UNCHANGED offset

\* mutant: an iovec transferred to its end is not done
shift_strict(nr) ==
    \E next \in el .. Len(req.ends) + 1 :
        LET done == Start(next) - Start(el)
        IN /\ done < nr
           /\ next <= Len(req.ends) => nr <= req.ends[next] - Start(el)
           /\ el' = next
           /\ total' = total + done
           /\ offset' = offset + done

\* mutant: the part of an iovec that was transferred counts
shift_partial(nr) ==
    \E next \in el .. Len(req.ends) + 1 :
        LET done == Start(next) - Start(el)
        IN /\ done <= nr
           /\ next <= Len(req.ends) => nr < req.ends[next] - Start(el)
           /\ el' = next
           /\ total' = total + nr
           /\ offset' = offset + nr

\* shift_iovec: the iovecs transferred as a whole are done; what was transferred
\* of the next one does not count and is transferred again.
shift_iovec(nr) ==
    \E next \in el .. Len(req.ends) + 1 :
        LET done == Start(next) - Start(el)
        IN /\ done <= nr
           /\ next <= Len(req.ends) => nr < req.ends[next] - Start(el)
           /\ el' = next
           /\ total' = total + done
           /\ offset' = offset + done

\* The loop of preadv_in_full and pwritev_in_full ends when all is transferred.
Loop == IF total' = Size THEN Return(total') ELSE UNCHANGED <<pc, ret>>

\* The host reads n bytes.
preadv(n) ==
    /\ pc = "raw" /\ req.op = "read"
    /\ n \in 1 .. Size - Start(el)
    /\ buf' = Filled(Start(el), n, LAMBDA p : file[p], offset)
    /\ shift_iovec(n)
    /\ Loop
    /\ UNCHANGED <<kind, file, cache, req, qcowVars, failed, astray, writes>>

\* The host writes n bytes.
pwritev(n) ==
    /\ pc = "raw" /\ req.op = "write"
    /\ n \in 1 .. Size - Start(el)
    /\ file' = [p \in DOMAIN file |->
                   IF p \in offset .. offset + n - 1
                   THEN buf[Start(el) + p - offset + 1] ELSE file[p]]
    /\ shift_iovec(n)
    /\ Loop
    /\ UNCHANGED <<kind, cache, req, buf, qcowVars, failed, astray, writes>>

\* preadv or pwritev fails or transfers nothing.  What was read before is
\* the result of preadv_in_full; pwritev_in_full gives up.
transfer_fails ==
    /\ pc = "raw" /\ req.op \in HostErrors
    /\ failed' = (req.op = "read")
    /\ Return(IF req.op = "read" /\ total > 0 THEN total ELSE Error)
    /\ UNCHANGED <<kind, file, cache, req, buf, ioVars, qcowVars, astray, writes>>

\* raw_image__read_mmap and raw_image__write_mmap: memcpy, iovec by iovec.
memcpy ==
    /\ pc = "mmap"
    /\ IF req.op = "read"
       THEN /\ buf' = Filled(Start(el), iov_len(el), LAMBDA p : file[p], offset)
            /\ UNCHANGED file
       ELSE /\ file' = [p \in DOMAIN file |->
                           IF p \in offset .. offset + iov_len(el) - 1
                           THEN buf[Start(el) + p - offset + 1] ELSE file[p]]
            /\ UNCHANGED buf
    /\ el' = el + 1
    /\ total' = total + iov_len(el)
    /\ offset' = offset + iov_len(el)
    /\ Loop
    /\ UNCHANGED <<kind, cache, req, qcowVars, failed, astray, writes>>

-----------------------------------------------------------------------------
(* QCOW images                                                             *)

\* qcow_read_sector_single has nr bytes more, nr being the u32 that a cluster
\* read gave: it goes on in the iovec, or returns its length, and
\* qcow_read_sector goes on with the next one or ends.
Advance(nr) ==
    LET n == (nr_read + nr) % Width
    IN \/ /\ n < iov_len(el)
          /\ nr_read' = n /\ pos' = pos + nr /\ sector' = sector + nr \div SectorSize
          /\ pc' = "sector"
          /\ UNCHANGED <<el, first, ret>>
       \/ /\ n >= iov_len(el) /\ el < Len(req.ends)
          /\ el' = el + 1
          /\ first' = first + iov_len(el) \div SectorSize
          /\ nr_read' = 0 /\ pos' = Start(el + 1) /\ sector' = first'
          /\ pc' = "sector"
          /\ UNCHANGED ret
       \/ /\ n >= iov_len(el) /\ el = Len(req.ends)
          /\ Return(Size)
          /\ UNCHANGED <<el, qcowVars>>

\* The -1 of a cluster read, in the u32 nr: `nr <= 0' is not true of it.
Failed == Advance(Width - 1) /\ failed' = TRUE /\ UNCHANGED <<buf, astray>>

\* After a -1 within an iovec buf points 2^32 bytes further, and so does sector: on
\* a disk that goes on there the loop does too, beyond the memory of the request.
Beyond == pos >= Size

At == sector * SectorSize

\* The part of the request that is in this cluster.
length ==
    LET here == ClusterSize - get_cluster_offset(At)
        left == iov_len(el) - nr_read
    IN IF left < here THEN left ELSE here

Zero(p) == 0

\* n bytes go where buf points, and the cluster counts as read.
Deliver(n, F(_), p) ==
    /\ buf' = Filled(pos, n, F, p)
    /\ astray' = (astray \/ Beyond)
    /\ Advance(length)

\* The sector is past the end of the disk.
past_end ==
    /\ pc = "sector"
    /\ At >= Capacity[kind]
    /\ Return(Error)
    /\ UNCHANGED <<kind, file, cache, req, buf, ioVars, qcowVars, failed, astray, writes>>

\* qcow2_read_cluster (qcow1_read_cluster does the same with its own masks), up
\* to the level 2 table.
read_cluster ==
    /\ pc = "sector"
    /\ At < Capacity[kind]
    /\ LET i == get_l1_index(At) + 1
       IN \/ i > Len(L1) /\ Failed
          \/ i <= Len(L1) /\ L1[i] = 0 /\ Deliver(length, Zero, 0) /\ UNCHANGED failed
          \/ /\ i <= Len(L1) /\ L1[i] # 0
             /\ pc' = "table"
             /\ UNCHANGED <<buf, ret, el, qcowVars, failed, astray>>
    /\ UNCHANGED <<kind, file, cache, req, total, offset, writes>>

Table == L1[get_l1_index(At) + 1]

\* qcow_read_l2_table finds the table in the cache, ...
l2_hit ==
    /\ pc = "table"
    /\ \E i \in cached(cache, Table) : cache' = l2_table_search(cache, i)
    /\ pc' = "data"
    /\ UNCHANGED <<kind, file, req, buf, ret, ioVars, qcowVars, failed, astray, writes>>

\* ... or reads it.  pread_in_full that fails after the first bytes returns
\* their number, and the zeros of calloc stay for the rest.
l2_miss ==
    /\ pc = "table"
    /\ cached(cache, Table) = {}
    /\ \E n \in IF "short" \in HostErrors THEN 1 .. L2Entries ELSE {L2Entries} :
           cache' = cache_table(cache,
                        [offset |-> Table,
                         table |-> [e \in 1 .. L2Entries |-> IF e <= n THEN L2[Table][e] ELSE 0]])
    /\ pc' = "data"
    /\ UNCHANGED <<kind, file, req, buf, ret, ioVars, qcowVars, failed, astray, writes>>

l2_fails ==
    /\ pc = "table"
    /\ "table" \in HostErrors /\ cached(cache, Table) = {}
    /\ Failed
    /\ UNCHANGED <<kind, file, cache, req, total, offset, writes>>

\* The entry of the table l2t points to, the one used last.
Cluster == Last(cache).table[get_l2_index(At) + 1]

\* The bytes of the image file, for a compressed cluster those it inflates to.
ImageByte(p) == p

\* The rest of the cluster read: the host reads n bytes of it, which an error, or
\* memory it cannot write to, may make fewer than were asked for.
read_data(n) ==
    /\ pc = "data"
    /\ Cluster # 0
    /\ Cluster \in CompressedAt => HasZlib
    /\ n \in IF Cluster \notin CompressedAt /\ ("data" \in HostErrors \/ Beyond)
              THEN 1 .. length ELSE {length}
    /\ Deliver(n, ImageByte, Cluster + get_cluster_offset(At))
    /\ failed' = (failed \/ n < length)
    /\ UNCHANGED <<kind, file, cache, req, total, offset, writes>>

zero_cluster ==
    /\ pc = "data"
    /\ Cluster = 0
    /\ Deliver(length, Zero, 0)
    /\ UNCHANGED <<kind, file, cache, req, total, offset, failed, writes>>

\* The data cannot be read, also because there is no memory where it should go,
\* or a compressed cluster cannot be inflated.
data_fails ==
    /\ pc = "data"
    /\ Cluster # 0
    /\ \/ "data" \in HostErrors
       \/ IF Cluster \in CompressedAt THEN ~HasZlib ELSE Beyond
    /\ Failed
    /\ UNCHANGED <<kind, file, cache, req, total, offset, writes>>

\* memset, or memcpy of an inflated cluster, beyond the iovecs finds no memory.
segfault ==
    /\ Beyond /\ At < Capacity[kind]
    /\ \/ pc = "sector" /\ get_l1_index(At) + 1 \in DOMAIN L1 /\ Table = 0
       \/ pc = "data" /\ (Cluster = 0 \/ (Cluster \in CompressedAt /\ HasZlib))
    /\ pc' = "dead"
    /\ UNCHANGED <<kind, file, cache, req, buf, ret, ioVars, qcowVars, failed, astray, writes>>

-----------------------------------------------------------------------------
Transfer(n) == preadv(n) \/ pwritev(n)
Copy == memcpy \/ past_end \/ read_cluster \/ l2_hit \/ l2_miss \/ l2_fails
            \/ (\E n \in 1 .. ClusterSize : read_data(n)) \/ zero_cluster \/ data_fails
            \/ segfault

Request ==
    \E op \in {"read", "write"}, s \in 0 .. Capacity[kind] \div SectorSize - 1, ends \in Iovs :
        Submit(op, s, ends)

Next == Request \/ Copy \/ transfer_fails \/ \E n \in 1 .. MaxSize : Transfer(n)

\* The thread runs, and the host does not go on forever transferring less than
\* it was asked for.
Fairness ==
    /\ WF_vars(Copy)
    /\ WF_vars(\E n \in 1 .. MaxSize : Transfer(n))
    /\ SF_vars(\E n \in 1 .. MaxSize : n = Size - Start(el) /\ Transfer(n))

Safety == Init /\ [][Next]_vars
Spec == Safety /\ Fairness
-----------------------------------------------------------------------------
(* Properties                                                              *)

TypeOK ==
    /\ kind \in Kinds
    /\ DOMAIN file = IF kind = "qcow" THEN {} ELSE Bytes(kind)
    /\ Len(cache) <= MaxCacheNodes
    /\ pc \in {"idle", "raw", "mmap", "sector", "table", "data", "dead"}
    /\ pc \notin {"idle", "dead"} => el \in 1 .. Len(req.ends)
    /\ total \in 0 .. Size /\ ret \in Error .. MaxSize
    /\ nr_read \in 0 .. Width - 1 /\ pos \in Nat /\ sector \in Nat
    /\ failed \in BOOLEAN /\ astray \in BOOLEAN /\ writes \in 0 .. MaxWrites

\* The guest's disk.  QCOW: byte p is in cluster n, which entry n % L2Entries of
\* table n \div L2Entries places in the file; a cluster without a place is zeros,
\* and what the first level table does not reach can only fail.
Content ==
    IF kind # "qcow" THEN file
    ELSE [p \in Bytes(kind) |->
             LET n == p \div ClusterSize
                 i == n \div L2Entries + 1
                 t == IF i \in DOMAIN L1 THEN L1[i] ELSE 0
                 c == IF t = 0 THEN 0 ELSE L2[t][(n % L2Entries) + 1]
             IN IF c = 0 THEN 0 ELSE ImageByte(c + (p % ClusterSize))]

\* The disk the guest is promised: what is read is what was there or was written,
\* through every split into iovecs, clusters and short transfers, nothing else
\* of the disk is written, and success means all of it.  Two things are promised
\* only while the image can be read: that a read which succeeds has it all, and
\* that no memory beyond its iovecs is written.  A write has no such exemption.
Disk == INSTANCE DiskService WITH
    Idle <- NoReq,
    content <- Content,
    req <- IF pc = "idle" THEN NoReq
           ELSE [op |-> req.op, start |-> req.sector * SectorSize],
    ok <- ret >= 0

ImplementsDisk == Disk!Spec

\* What disk_image__read returns is an amount of bytes that were read: that many
\* bytes of the buffer, from its start, are the disk's, also when the host failed
\* between two transfers.
IsAmountRead ==
    pc = "idle" /\ req.op = "read" =>
        \A k \in 1 .. ret : buf[k] = Content[req.sector * SectorSize + k - 1]

AmountRead == kind # "qcow" => IsAmountRead

\* A cached table is the one on disk, is cached once, and the table in use is
\* cached: it is not freed by the insertion that brought it.
CacheSound ==
    /\ \A i \in DOMAIN cache : cache[i].table = L2[cache[i].offset]
    /\ \A i, j \in DOMAIN cache : cache[i].offset = cache[j].offset => i = j
    /\ pc = "data" => Last(cache).offset = Table

\* Every request is answered, whatever the host transfers at a time, unless the
\* process dies of it.
RequestReturns == pc # "idle" ~> pc \in {"idle", "dead"}
=============================================================================
