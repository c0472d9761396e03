------------------------------ MODULE QcowWrite ------------------------------
(***************************************************************************)
(* Writing to a QCOW 2 image (disk/qcow.c): the level 2 table and the data *)
(* cluster of the place written, which are copied first when a snapshot    *)
(* shares them; the allocation of clusters; the reference counts, their    *)
(* blocks and the growth of their table; flushing, closing and opening.    *)
(* The code is built, but disk_image__open passes readonly to qcow_probe,  *)
(* so virtio-disk itself never writes to such an image.                    *)
(*                                                                         *)
(* A call runs under q->mutex.  A step of it goes up to its next write to  *)
(* the image, or looks for one table, and the process may die between two. *)
(* Places in the image count clusters, places on the disk count sectors.   *)
(***************************************************************************)
EXTENDS Qcow

CONSTANTS
    Disks,          \* the images tried, [rft, l1, cl]
    Fixed,          \* clusters with the header, the tables and what snapshots refer to
    RbEntries,      \* counts in a refcount block
    CountMod,       \* 2^16, scaled down: a count is a u16
    Sectors,        \* sectors of the disk
    MaxWrites       \* bound: writes

-----------------------------------------------------------------------------
(* Images: the refcount table, the level 1 table, the clusters             *)

Nowhere == -1       \* (u64)-1 where a place is expected

Places(d) == 0 .. Len(d.rft) * RbEntries - 1
\* An entry of a level 1 or level 2 table.
Entry(at, copied) == [at |-> at, copied |-> copied]
Content(kind, v) == [kind |-> kind, v |-> v]
Contents ==
    [kind : {"block"}, v : [1 .. RbEntries -> 0 .. CountMod - 1]]
    \cup [kind : {"table"}, v : [1 .. L2Entries -> [at : Nat, copied : BOOLEAN]]]

\* Where the count of a cluster is: in which block, and where in that.
Block(clust_idx) == clust_idx \div RbEntries + 1
InBlock(clust_idx) == (clust_idx % RbEntries) + 1

\* The count of cluster c in image d.
Count(d, c) ==
    LET b == d.rft[Block(c)] IN IF b = 0 THEN 0 ELSE d.cl[b].v[InBlock(c)]

\* What in image d refers to cluster c: a fixed place, the refcount table, the
\* level 1 table, the level 2 tables.
Referred(d, c) ==
    LET l2 == {i \in DOMAIN d.l1 : d.l1[i].at > 0}
    IN (IF c \in Fixed THEN 1 ELSE 0)
       + Cardinality({i \in DOMAIN d.rft : d.rft[i] = c /\ c # 0})
       + Cardinality({i \in l2 : d.l1[i].at = c})
       + Cardinality({t \in l2 \X (1 .. L2Entries) :
                        c # 0 /\ d.cl[d.l1[t[1]].at].v[t[2]].at = c})

Covered(d) == \A c \in Places(d) : Referred(d, c) <= Count(d, c)

\* What is where in an image: blocks, each for one part of it, and tables.  A table
\* that is not copied is a snapshot's too; what is copied is the disk's own, and
\* is the data of a table that is not a snapshot's.
Arranged(d) ==
    /\ \A i \in DOMAIN d.rft : d.rft[i] # 0 => d.cl[d.rft[i]].kind = "block"
    /\ \A i, j \in DOMAIN d.rft : d.rft[i] = d.rft[j] /\ d.rft[i] # 0 => i = j
    /\ \A i \in DOMAIN d.l1 :
          /\ d.l1[i].at > 0 => d.cl[d.l1[i].at].kind = "table"
          /\ IF d.l1[i].copied THEN d.l1[i].at # 0 ELSE d.l1[i].at \in {0} \cup Fixed
          /\ d.l1[i].at > 0 =>
                \A e \in 1 .. L2Entries :
                    LET entry == d.cl[d.l1[i].at].v[e]
                    IN entry.copied => entry.at \in Places(d) \ Fixed /\ d.cl[entry.at].kind = "data"
    /\ \A c \in Fixed : d.cl[c].kind = "table" => \A e \in 1 .. L2Entries : ~d.cl[c].v[e].copied

Image(d) ==
    /\ d = [rft |-> d.rft, l1 |-> d.l1, cl |-> d.cl]
    /\ d.rft \in Seq(Places(d))
    /\ d.l1 \in Seq([at : {Nowhere} \cup Places(d), copied : BOOLEAN])
    /\ d.cl = [c \in Places(d) |-> d.cl[c]]
    /\ \A c \in Places(d) : d.cl[c] \in Contents \/ d.cl[c] = Content("data", d.cl[c].v)
    /\ 0 \in Fixed /\ Fixed \subseteq Places(d)
    /\ Arranged(d)

\* The counts in a block are a power of two; MAX_CACHE_NODES is 32.
ASSUME QcowWriteAssumption ==
    /\ RbEntries \in Nat /\ RbEntries > 1 /\ RbEntries % 2 = 0 /\ CountMod \in Nat /\ CountMod > 2
    /\ MaxCacheNodes > 1
    /\ Sectors \in Nat /\ MaxWrites \in Nat
    /\ \A d \in Disks : Image(d) /\ Covered(d)
-----------------------------------------------------------------------------

VARIABLES
    disk,           \* the image: the refcount table, the level 1 table, the clusters
    rft, l1,        \* q->refcount_table.rf_table, q->table.l1_table
    rbs, l2s,       \* their caches, [offset, table], least recently used first
    free,           \* q->free_clust_idx
    looped,         \* the last node of the list of l2s is its own next
    pc,             \* where the call is
    chain,          \* the clusters being counted: each is a new block for the one before
    use,            \* what the first of them is: the cluster for a "table", for "data", the "old" table
    req,            \* sectors the caller wants written, [from, upto, value]
    ret,
    writes

tables == <<rft, l1, rbs, l2s, free, looped>>
call == <<pc, chain, use, req, ret>>
vars == <<disk, tables, call, writes>>

Err == -1
NoReq == [from |-> 0, upto |-> 0, value |-> 0]

NoCall == pc' = "start" /\ chain' = <<>> /\ use' = "none"

\* What qcow2_probe makes of the image.
Opened ==
    /\ rft' = disk.rft /\ l1' = disk.l1 /\ rbs' = <<>> /\ l2s' = <<>> /\ free' = 0
    /\ looped' = FALSE

Init ==
    /\ disk \in Disks
    /\ rft = disk.rft /\ l1 = disk.l1 /\ rbs = <<>> /\ l2s = <<>> /\ free = 0
    /\ looped = FALSE
    /\ pc = "start" /\ chain = <<>> /\ use = "none"
    /\ req = NoReq /\ ret = 0 /\ writes = 0

-----------------------------------------------------------------------------
(* The image                                                               *)

\* qcow_pwrite_sync and pwrite_in_full of a cluster.
pwrite(c, content) == disk' = [disk EXCEPT !.cl[c] = content]

\* Where the table of place c is in a cache that has it.
At(cache, c) == CHOOSE i \in cached(cache, c) : TRUE

\* A table or block is looked for in its cache, then read from the image into it;
\* then it is the one used last.
ReadThrough(cache, c) ==
    IF cached(cache, c) # {} THEN l2_table_search(cache, At(cache, c))
    ELSE cache_table(cache, [offset |-> c, table |-> disk.cl[c].v])

CanRead(cache, c) == cached(cache, c) # {} \/ c \in Places(disk)
\* There is no memory for it, or the read fails.
CanFail(cache, c) == cached(cache, c) = {}

-----------------------------------------------------------------------------
(* How a call goes on                                                      *)

L1Index == get_l1_index(req.from) + 1
L2Index == get_l2_index(req.from) + 1
OldTable == l1[L1Index].at

\* The call and its request fail.
Refused == NoCall /\ req' = NoReq /\ ret' = Err

\* A cluster is written; the request is answered, or its next cluster follows.
Written ==
    LET next == req.from - get_cluster_offset(req.from) + ClusterSize
    IN /\ NoCall
       /\ \/ next < req.upto /\ req' = [req EXCEPT !.from = next] /\ UNCHANGED ret
          \/ next >= req.upto /\ req' = NoReq /\ ret' = 0

\* The old table has been freed, or not: the result is not looked at.
OldFreed == pc' = "data" /\ chain' = <<>> /\ use' = "none" /\ UNCHANGED <<req, ret>>

\* An allocation has succeeded, and its test is the wrong way round: the call fails.
Allocated == Refused

\* An allocation has failed, and with a table that exists the call goes on, with
\* the place -1.  Data that is written there fails.
NotAllocated ==
    \/ use = "table" /\ OldTable # 0 /\ pc' = "copy" /\ chain' = <<>> /\ UNCHANGED <<use, req, ret>>
    \/ ~(use = "table" /\ OldTable # 0) /\ Refused

Goto(label) == pc' = label /\ UNCHANGED <<chain, use, req, ret>>

\* A search or a count has failed, and so has the count of the first cluster.  When
\* it was for a block that has been added, the table no longer refers to that, and it
\* is freed while it is cached: what follows is undefined, and here no more than that
\* the process dies.
Failed ==
    /\ rft' = [i \in DOMAIN rft |->
                  IF \E k \in 2 .. Len(chain) : rft[i] = chain[k] THEN 0 ELSE rft[i]]
    /\ \/ rft' = rft /\ use = "old" /\ OldFreed
       \/ rft' = rft /\ use # "old" /\ NotAllocated
       \/ rft' # rft /\ Goto("freed")

-----------------------------------------------------------------------------
(* Reference counts                                                        *)

\* The block of counts that the table has for a cluster; 0, and ENOSPC, for none.
BlockOf(clust_idx) == IF Block(clust_idx) \in DOMAIN rft THEN rft[Block(clust_idx)] ELSE 0

\* The search is at an end: a block goes to the cluster, or it is counted.
Found ==
    /\ chain' = Append(chain, free)
    /\ pc' = (IF chain = <<>> THEN "count" ELSE "grow")
    /\ UNCHANGED <<rft, use, req, ret>>

\* qcow_alloc_clusters of one cluster, which a level 2 table is too: one turn of the
\* search from free_clust_idx on.  A cluster without a block is free.  A failure is
\* the u16 -1, and so is a count.
qcow_alloc_clusters ==
    /\ pc = "search" /\ free' = free + 1
    /\ \/ BlockOf(free) = 0 /\ Found /\ UNCHANGED rbs
       \/ /\ BlockOf(free) # 0 /\ CanRead(rbs, BlockOf(free))
          /\ rbs' = ReadThrough(rbs, BlockOf(free))
          /\ LET clust_refcount == Last(rbs').table[InBlock(free)]
             IN \/ clust_refcount = 0 /\ Found
                \/ clust_refcount \in 1 .. CountMod - 2 /\ UNCHANGED <<rft, call>>
                \/ clust_refcount = CountMod - 1 /\ Failed
       \/ BlockOf(free) # 0 /\ CanFail(rbs, BlockOf(free)) /\ Failed /\ UNCHANGED rbs
    /\ UNCHANGED <<disk, l1, l2s, looped, writes>>

\* update_cluster_refcount reads the block of the count.  When it is missing one is
\* allocated, where the table has room.
update_cluster_refcount ==
    LET clust_idx == Last(chain)  rfb == BlockOf(clust_idx)
    IN /\ pc = "count"
       /\ \/ rfb = 0 /\ Block(clust_idx) \in DOMAIN rft /\ Goto("search") /\ UNCHANGED <<rft, rbs>>
          \/ rfb = 0 /\ Block(clust_idx) \notin DOMAIN rft /\ Failed /\ UNCHANGED rbs
          \/ /\ rfb # 0 /\ CanRead(rbs, rfb)
             /\ rbs' = ReadThrough(rbs, rfb) /\ Goto("add") /\ UNCHANGED rft
          \/ rfb # 0 /\ CanFail(rbs, rfb) /\ Failed /\ UNCHANGED rbs
       /\ UNCHANGED <<disk, l1, l2s, free, looped, writes>>

NewBlock == [k \in 1 .. RbEntries |-> 0]

\* mutant: the table refers to the new block on the disk before that is counted
qcow_grow_refcount_block_early ==
    LET new == Last(chain)  clust_idx == chain[Len(chain) - 1]
    IN /\ pc = "grow" /\ new \in Places(disk)
       /\ rft' = [rft EXCEPT ![Block(clust_idx)] = new]
       /\ disk' = [disk EXCEPT !.cl[new] = Content("block", NewBlock), !.rft = rft']
       /\ rbs' = cache_table(rbs, [offset |-> new, table |-> NewBlock])
       /\ Goto("count") /\ UNCHANGED <<l1, l2s, free, looped, writes>>

\* A block of zeros is written and cached, and the table in memory refers to it; then
\* it is counted, in itself.
Grown(new, clust_idx) ==
    /\ pwrite(new, Content("block", NewBlock))
    /\ rbs' = cache_table(rbs, [offset |-> new, table |-> NewBlock])
    /\ rft' = [rft EXCEPT ![Block(clust_idx)] = new]
    /\ Goto("count")

\* qcow_grow_refcount_block goes on with the cluster it has found.  Past what the
\* table can count a block is written, cannot be counted, and is freed while it is
\* cached.  There may be no memory for it; the search does not go back then, and the
\* next one starts in the midst of a part that has no block.
qcow_grow_refcount_block ==
    LET new == Last(chain)
    IN /\ pc = "grow"
       /\ \/ new \in Places(disk) /\ Grown(new, chain[Len(chain) - 1])
          \/ new \notin Places(disk) /\ Goto("freed") /\ UNCHANGED <<disk, rft, rbs>>
          \/ Failed /\ UNCHANGED <<disk, rbs>>
       /\ UNCHANGED <<l1, l2s, free, looped, writes>>

\* A cluster is counted once more, the old table once less.
append == IF use = "old" /\ Len(chain) = 1 THEN -1 ELSE 1

\* mutant: the count is not written
write_refcount_block_cached ==
    LET i == At(rbs, BlockOf(Last(chain)))
    IN /\ pc = "add"
       /\ rbs' = [rbs EXCEPT ![i].table[InBlock(Last(chain))] = (@ + append) % CountMod]
       /\ \/ use = "old" /\ OldFreed
          \/ use # "old" /\ Allocated
       /\ UNCHANGED <<disk, rft, l1, l2s, free, looped, writes>>

\* The rest of update_cluster_refcount: the count is changed in its block, and the
\* block is written.  A cluster whose count falls to 0 is where the next search
\* starts.
write_refcount_block ==
    LET clust_idx == Last(chain)
        rfb == BlockOf(clust_idx)
        refcount == (rbs[At(rbs, rfb)].table[InBlock(clust_idx)] + append) % CountMod
        entries == [rbs[At(rbs, rfb)].table EXCEPT ![InBlock(clust_idx)] = refcount]
    IN /\ pc = "add"
       /\ rbs' = [rbs EXCEPT ![At(rbs, rfb)].table = entries]
       /\ pwrite(rfb, Content("block", entries))
       /\ free' = IF refcount = 0 /\ clust_idx < free THEN clust_idx ELSE free
       /\ \/ Len(chain) > 1 /\ Goto("refer")
          \/ Len(chain) = 1 /\ use = "old" /\ OldFreed
          \/ Len(chain) = 1 /\ use # "old" /\ Allocated
       /\ UNCHANGED <<rft, l1, l2s, looped, writes>>

\* The refcount table is written, and the block it now has is used.
qcow_write_refcount_table ==
    /\ pc = "refer"
    /\ disk' = [disk EXCEPT !.rft = rft]
    /\ pc' = "add" /\ chain' = Front(chain)
    /\ UNCHANGED <<tables, use, req, ret, writes>>

-----------------------------------------------------------------------------
(* Writing                                                                 *)

\* The caller wants sectors written.
Submit(from, upto) ==
    /\ pc = "start" /\ req = NoReq /\ writes < MaxWrites
    /\ req' = [from |-> from, upto |-> upto, value |-> writes + 1]
    /\ writes' = writes + 1
    /\ UNCHANGED <<disk, tables, pc, chain, use, ret>>

\* qcow_write_sector_single goes to its next cluster, and get_cluster_table reads
\* the table of it.  A table that is not the image's own needs a cluster first.
\* Another table after the last one in the list takes its next.
get_cluster_table ==
    /\ pc = "start" /\ req # NoReq
    /\ \/ (req.from >= Sectors \/ L1Index > Len(l1)) /\ Refused /\ UNCHANGED <<l2s, looped>>
       \/ /\ req.from < Sectors /\ L1Index <= Len(l1)
          /\ \/ /\ l1[L1Index].copied /\ CanRead(l2s, OldTable)
                /\ l2s' = ReadThrough(l2s, OldTable)
                /\ looped' = (looped /\ Last(l2s).offset = OldTable)
                /\ Goto("data")
             \/ /\ l1[L1Index].copied /\ CanFail(l2s, OldTable)
                /\ Refused /\ UNCHANGED <<l2s, looped>>
             \/ /\ ~l1[L1Index].copied
                /\ pc' = "search" /\ use' = "table"
                /\ UNCHANGED <<l2s, looped, chain, req, ret>>
    /\ UNCHANGED <<disk, rft, l1, rbs, free, writes>>

\* No cluster was to be had for the copy of a table: it is written to its own place
\* and put into the list of the cache once more, and the level 1 table refers to -1.
\* The table is the last in the list already, so list_add_tail makes it its own next,
\* and a walk of the list ends there no more.  Its own prev it stays when another
\* table follows; what the list is worth then, and what comes of a table that is
\* used after it has been freed, is undefined, and here no more than that the
\* process may die.  Without memory for the table, or when it cannot be read, the
\* call fails.
qcow_l2_cache_write ==
    /\ pc = "copy"
    /\ \/ /\ CanRead(l2s, OldTable)
          /\ LET searched == ReadThrough(l2s, OldTable)
             IN /\ pwrite(OldTable, Content("table", Last(searched).table))
                /\ l2s' = cache_table(searched, Last(searched))
          /\ looped' = TRUE
          /\ l1' = [l1 EXCEPT ![L1Index] = Entry(Nowhere, TRUE)]
          /\ pc' = "l1" /\ chain' = <<OldTable>> /\ use' = "old"
          /\ UNCHANGED <<req, ret>>
       \/ Refused /\ UNCHANGED <<disk, l1, l2s, looped>>
    /\ UNCHANGED <<rft, rbs, free, writes>>

\* The level 1 table is written; the old table is freed.
qcow_write_l1_table ==
    /\ pc = "l1"
    /\ disk' = [disk EXCEPT !.l1 = l1]
    /\ Goto("count") /\ UNCHANGED <<tables, writes>>

\* The part of the request that is in cluster at, with its new data.
Overwritten(at) ==
    [k \in 1 .. ClusterSize |->
        IF req.from - get_cluster_offset(req.from) + k - 1 \in req.from .. req.upto - 1
        THEN req.value ELSE disk.cl[at].v[k]]

\* mutant: a shared cluster is written in place
qcow_write_cluster_shared ==
    LET clust_start == Last(l2s).table[L2Index]
    IN /\ pc = "data"
       /\ IF clust_start.at \in Places(disk) \ {0}
          THEN pwrite(clust_start.at, Content("data", Overwritten(clust_start.at))) /\ Written
          ELSE UNCHANGED disk /\ Refused
       /\ UNCHANGED <<tables, writes>>

\* qcow_write_cluster: a cluster of the image's own is written in place.  Otherwise
\* one is allocated.
qcow_write_cluster ==
    LET clust_start == Last(l2s).table[L2Index]
    IN /\ pc = "data"
       /\ \/ /\ clust_start.copied
             /\ IF clust_start.at \in Places(disk)
                THEN pwrite(clust_start.at, Content("data", Overwritten(clust_start.at))) /\ Written
                ELSE UNCHANGED disk /\ Refused
          \/ /\ ~clust_start.copied
             /\ pc' = "search" /\ use' = "data" /\ UNCHANGED <<disk, chain, req, ret>>
       /\ UNCHANGED <<tables, writes>>

\* qcow_disk_flush: the blocks that are dirty are written, or look dirty:
\* new_refcount_block leaves the flag as malloc found it.  Then the tables are gone
\* through, for ever when the last is its own next.
qcow_disk_flush(dirty) ==
    /\ pc = "start" /\ req = NoReq
    /\ disk' = [disk EXCEPT !.cl =
                    [c \in DOMAIN disk.cl |->
                        IF \E i \in dirty : rbs[i].offset = c
                        THEN Content("block", rbs[CHOOSE i \in dirty : rbs[i].offset = c].table)
                        ELSE disk.cl[c]]]
    /\ pc' = IF looped THEN "hung" ELSE pc
    /\ UNCHANGED <<tables, chain, use, req, ret, writes>>

\* qcow_disk_close frees the caches; the image is opened again.  A table that is its
\* own next is freed twice, and it is another process that opens the image.
qcow_disk_close ==
    /\ pc = "start" /\ req = NoReq
    /\ Opened /\ UNCHANGED <<disk, call, writes>>

\* The process dies in a call, and another one opens the image.
crash ==
    /\ req # NoReq \/ pc = "hung"
    /\ Opened /\ NoCall /\ req' = NoReq
    /\ UNCHANGED <<disk, ret, writes>>

Next ==
    \/ \E from, upto \in 0 .. Sectors + 1 : from < upto /\ Submit(from, upto)
    \/ get_cluster_table \/ qcow_l2_cache_write \/ qcow_write_l1_table \/ qcow_write_cluster
    \/ qcow_alloc_clusters \/ update_cluster_refcount \/ qcow_grow_refcount_block
    \/ write_refcount_block \/ qcow_write_refcount_table
    \/ \E dirty \in SUBSET DOMAIN rbs : qcow_disk_flush(dirty)
    \/ qcow_disk_close \/ crash

Spec == Init /\ [][Next]_vars
-----------------------------------------------------------------------------
(* Properties                                                              *)

TypeOK ==
    /\ \A i \in DOMAIN rft : rft[i] \in Places(disk)
    /\ \A i \in DOMAIN l1 : l1[i].at \in {Nowhere} \cup Places(disk)
    /\ Len(rbs) <= MaxCacheNodes /\ Len(l2s) <= MaxCacheNodes
    /\ free \in Nat /\ ret \in {0, Err} /\ writes \in 0 .. MaxWrites

\* No cluster something refers to counts less than that, so none is ever taken
\* for free: not after an allocation that failed half way, and not in the image
\* that a crash leaves between any two writes.
CountsCover == Covered(disk)

\* What is cached is what the image has, and a block is cached once, so that one
\* that is evicted or flushed loses nothing.
CachesAgree ==
    /\ \A cache \in {rbs, l2s} : \A i \in DOMAIN cache : cache[i].table = disk.cl[cache[i].offset].v
    /\ \A i, j \in DOMAIN rbs : rbs[i].offset = rbs[j].offset => i = j

\* A cluster that a snapshot has too never changes, whatever is written to the disk;
\* a block of counts does.
SharedKept == [][\A c \in Fixed : disk'.cl[c] = disk.cl[c] \/ disk.cl[c].kind = "block"]_vars
=============================================================================
