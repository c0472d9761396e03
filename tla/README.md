# Formal model of virtio-disk

virtio-disk is a user-space virtio-blk backend for Xen on Arm.  One process
serves one guest at a time: it waits for a guest's backend node in Xenstore,
creates an IOREQ server for the guest, traps the guest's accesses to one
virtio-mmio region per disk, and serves the disk's request queue from a thread
of its own, which maps guest memory and reads or writes a file or block device.

This directory holds TLA+ modules translated from that code, TLC configurations
that model-check them on small instances, and theorems that TLAPS checks for
every value of the constants.

## 1. Inventory

| component | source | state | operations | hard behaviour |
|---|---|---|---|---|
| Block data path | `virtio/blk.c`, `virtio/core.c`, `include/kvm/virtio.h` | `struct virt_queue` (`last_avail_idx`, `last_used_signalled`, `use_event_idx`, `enabled`), the rings in guest memory, `struct blk_dev` (`io_efd`, `io_done`, `reqs[]`) | `notify_vq`, `init_vq`, `exit_vq`, `virtio_blk_thread`, `virtio_blk_do_io`, `virtio_blk_complete`, `virtio_queue__should_signal` | three parties (I/O thread, main thread, guest) share the rings without locks; u16 indices wrap; both sides suppress each other's notifications; reset while requests are in flight |
| MMIO transport | `virtio/mmio.c`, `mmio-modern.c`, `mmio-legacy.c` | `virtio_mmio_hdr` (`status`, `interrupt_state`, `queue_sel`, feature selectors), `vring_addr` | register reads and writes, `virtio_notify_status`, `virtio_mmio_reset` | `interrupt_state` is updated by two threads; the meaning of a register depends on selectors written before; a status of 0 resets only a started device |
| Descriptor chains | `virtio/core.c` (`next_desc`, `virt_queue__get_head_iov`) | guest memory | walk a chain or an indirect table, map every buffer | lengths and flags come from the guest; a mapping may fail |
| Guest memory mappings | `demu.c` (`demu_map_guest_range`, `demu_unmap_guest_range`, `demu_get_host_addr`) | foreign mappings, grant mappings, `use_gnttab` | map and unmap a range page by page | unmapping knows a pointer and a length only; the kind of address is decided once per guest |
| IOREQ server | `demu.c` (`demu_poll_iopages`, `demu_handle_ioreq`) | the shared ioreq page, one event channel per vCPU | poll one pending port, serve that vCPU's request, answer | requests raised before the ports are bound; coalesced events; requests of a server that is being torn down |
| Process lifecycle | `demu.c` (`demu_initialize`, `demu_teardown`, `main`, `demu_sigterm`) | `demu_state.seq` and the handles it stands for | acquire step by step, release from where the ladder stopped, signal handler | failure of any step; a signal at any point; the next guest reuses the process |
| Device lifecycle | `device.c`, `util/init.c`, the `init` and `exit` functions of `disk/`, `virtio/` | `kvm->disks`, the list `bdevs`, `disk_ops` | init items in order, exit items in reverse | an item that fails half way; what an earlier guest has left |
| Memory spaces | `demu.c` (`demu_register_memory_space` ...) | a list of address ranges | register, find, deregister | a register step that fails after the other |
| Xenstore control plane | `xs_dev.c` | `struct xs_dev`, `curr_domid` | find a guest, connect, watch, disconnect | watch events raced by the toolstack; a domid that is looked at once |
| Disk image layer | `disk/core.c`, `disk/raw.c`, `disk/blk.c` | `struct disk_image`, the completion callback | open, probe, read, write, close | a read or write that fails completes nothing; the fallbacks of opening |
| Exact-length I/O | `util/read-write.c` | the caller's iovec | `read_in_full` ... `pwritev_in_full` | EINTR, short reads, end of file |
| QCOW images | `disk/qcow.c` | L1 table, L2 cache (red-black tree and LRU list of 32), refcount table and cache | cluster lookup, read, allocate, write, flush | cache eviction, write-back order, failure or death half way (the write path is compiled but QCOW images are opened read-only) |
| Asynchronous I/O | `disk/aio.c` | in-flight counter | submit, reap | not built (`CONFIG_HAS_AIO` is commented out) |
| Vendored helpers | `util/rbtree.c`, `include/linux/*` | - | - | Linux's red-black tree, lists and ABI headers |

### How the parts interact

```
 guest vCPU --MMIO trap--> Xen --ioreq page + event channel--> main thread
                                                               | demu_handle_ioreq
                                                               v
                                       virtio_mmio_*_callback (registers, status)
                            QUEUE_READY/STATUS |        | QUEUE_NOTIFY (eventfd)
                                               v        v
 guest driver <==== rings in guest memory ====> I/O thread (one per disk)
        ^                                          |            |
        +---------- interrupt line <---- signal_vq-+            v
                                                        disk image (raw/blk/qcow)
 toolstack --Xenstore nodes, watches--> main thread (find, connect, lose a guest)
```

The main thread handles one ioreq at a time and is the only writer of the
transport registers, except `interrupt_state`, which the I/O thread sets.  The
I/O thread and the guest share the rings without locks; only memory barriers
order their accesses.  The main thread starts the I/O thread when the driver
makes the queue ready and joins it on reset and on teardown.

### What makes each part correct

* Data path: every submitted head is popped once and returned or dropped once, in
  order; the status byte precedes the return; no kick is missed, and no interrupt but
  to an acknowledge of 0 that races with it; a reset stops the thread before the rings
  go away, and nothing stays mapped but the buffers of requests the disk failed.
* Process lifecycle: whatever step fails, exactly the acquired handles are released,
  users before what they use; wherever a signal arrives, only what the interrupted step
  was about is forgotten or released twice.
* Device lifecycle: a device is wholly there or wholly gone, the disk is what the
  driver was told, and what stays open is what the code is known to leave open.
* IOREQ server: no request is missed and every vCPU that waits is answered or freed.
* MMIO transport: enabled queues, I/O threads and mapped rings correspond one to one
  after any sequence of accesses of a conforming driver, and a driver finds nothing
  of the one before it.
* Descriptor chains and mappings: every pointer handed to the disk reaches the byte
  the driver meant, and what was mapped is unmapped, whole and once.
* Xenstore: a guest whose nodes are there when it is looked at is served, one that
  disappears is let go.
* Exact-length I/O: what a read reports was read, and each byte goes to its place
  however the kernel splits the transfer.
* QCOW: a read returns the bytes of the logical image; the caches are transparent; a
  write never leaves a cluster in use counted as free, nor changes a snapshot.

## 2. Modules

| module | models | proofs |
|---|---|---|
| `Vring` | index arithmetic of a split ring | `VirtioBlkProofs` (lemmas) |
| `BlkService` | the abstract in-order request service | |
| `VirtioBlk` | data path: I/O thread, main thread, guest driver | `VirtioBlkProofs` |
| `VirtioMmio` | registers of both layouts, status protocol, life of the queue and its thread | `VirtioMmioProofs` |
| `GuestMemory` | mappings, rings, descriptor chains | `GuestMemoryProofs` |
| `Demu` | process lifecycle and IOREQ server | `DemuProofs` |
| `Devices` | opening images, devices, memory spaces | `DevicesProofs` |
| `Xenstore` | guests that come and go | `XenstoreProofs` |
| `DiskService` | the abstract disk | `DiskImageProofs` (refinement) |
| `DiskImage` | requests to raw, private and QCOW disks | `DiskImageProofs` |
| `Qcow` | index arithmetic and table caches of QCOW images | `DiskImageProofs`, `QcowWriteProofs` (lemmas) |
| `QcowWrite` | the write path of QCOW 2 | `QcowWriteProofs` |

`MC*` modules give the constants their values for TLC.  A definition preceded by a
comment `mutant:` is a wrong variant of the definition after it; `PROJECT.json` says
which property it breaks.

### How they fit together

The modules share the process along the boundaries of its components.  `Demu` has the
ladder in which `device_initialize` is one rung; `Devices` opens that rung.  An access
that `demu_handle_ioreq` hands on is a step of `VirtioMmio`; binding and resetting are
one step of the driver in `VirtioBlk` and one per register access in `VirtioMmio`.
`GuestMemory` is what `pop` and `complete` of `VirtioBlk` do to the mappings, and
`DiskImage` what decides the outcome of a request there.  `Xenstore` produces the
`guest_found` and `xenstore_event` of `Demu`.  Two refinements tie detail to promise:
`VirtioBlk` implements `BlkService` and `DiskImage` implements `DiskService`.

### Vring
Index arithmetic of a split ring.  `IdxMod` stands for 2^16 and `Num` for
`VIRTIO_BLK_QUEUE_SIZE`; the code relies on `Num` dividing 2^16, and so do the
modules (`RingAssumption`).

### BlkService
The abstract promise: a queue of named requests, each taken in order and answered
with a status or dropped, answers reaching the driver in order.

### VirtioBlk
Control state is one program counter per thread:

| variable | thread | code |
|---|---|---|
| `ioPc` | I/O thread | `virtio_blk_thread`, `virtio_blk_do_io`, `virtio_blk_complete`, `should_signal`, `signal_vq`; one value per access to state that another party sees |
| `mainPc` | main thread | the two halves of `interrupt_state &= ~val`, and the steps of `exit_vq` |
| `subPc`, `irqPc` | guest driver (external) | adding and kicking; the interrupt handler |

`availRing` ... `availEvent` are the rings; `reqType` and `reqStatus` the two fields
of a request that the device reads and writes; `lastAvail`, `lastSignalled`,
`useEventIdx`, `enabled` are `struct virt_queue`; `ioDone` and `efd` (counter not
zero) belong to `struct blk_dev`; `mapped` is the set of heads whose buffers are
mapped and `lost` the heads dropped without an answer.  `init_vq` takes no mapping
away: it zeroes `reqs[]`, so the buffers of a request dropped before a reset stay mapped
for ever (`stale`; `dropped` remembers that there was such a request).  `erased`
remembers that the store of an acknowledge of 0 has erased the VRING bit; it is cleared
when the driver looks at its ring again.  The guest driver is external
and follows Linux's `virtio_ring` and `virtio_mmio`: it batches up to `BatchMax`
requests per kick, suppresses interrupts while it drains the used ring, and checks
again after enabling them.  The disk image is reduced to its answer (`Outcomes`); a
failed read or write never completes, which the model keeps (`drop`).

### VirtioMmio
The device's registers in both layouts (`legacy`), one access at a time: what a read
returns through the window selected before, what a write changes, the status protocol,
and the queue with what `init_vq` acquires and `exit_vq` gives up.  `vringAddr` keeps
the halves of the ring addresses as they are written and `vring` the rings that were
mapped from them.  `fds` are the open eventfds, numbered as the kernel numbers
descriptors (lowest first, so that a number closed early is used again); `reads[t]` is
the one I/O thread `t` sleeps on, 0 while it is at work.  `main` is "join" while
`exit_vq` waits for the thread.  The driver is external and goes through Linux's probe
in stages (`drv`), each a list of accesses (`todo`), reading what it decides by (`seen`); it may be
unbound, fail its probe or die, and another one follows.

### GuestMemory
`host` are the guest pages mapped into the process, each with its kind, guest page and
protection; an address is a byte of the guest's memory or of its grants.  Every mapping
and every unmapping is a step: `pc` is the loop or the walk the process is in and `i`
the counter of the loop (banks of memory, rings, segments).
`virtio_init_device_vq` maps the rings, `virt_queue__get_head_iov` walks a chain from
descriptor `idx`, in the ring or in the indirect table mapped as `tab`, and maps each
segment; `virtio_blk_complete` unmaps them from the pointers and lengths of the iovec.
Any mapping may fail.  A mapping goes where the kernel puts it: `Place` is any choice of
free pages, none below `FirstPage`.  That matters for `NULL`: `demu_unmap_guest_range`
does not test its pointer, and releasing a range that was not mapped does no harm only
because the range is smaller than what lies below `FirstPage`, which `Buffer` asks of a
driver.  `advance` is the build with `MAP_IN_ADVANCE`, which maps the banks of the
guest's memory when the guest is found and reaches every range through them.  `sent` is
the driver's record of its requests, each with its chain and the descriptors it is in.

### Demu
`seq` is `demu_state.seq`; `held` is the set of handles the process really has, so
that the two can be compared.  An acquisition and the `demu_seq_next` that follows it
are two steps, and so are a release and the store to `seq`.  `device_initialize` and
`device_teardown` are taken apart where a signal can tell: the images are opened, the
devices are made; a device is taken off its list (`unlist`), its queue is disabled and
the thread told to end (`stop`) and joined (`join`), the disks are closed, `kvm` is
freed and the pointer set to NULL.  `io` is the I/O thread.  `demu_sigterm` comes on top
of any step, those of a release and of a handler before it included: `cut` keeps where
the main thread was and what `seq` was, and the handler runs `demu_teardown` from that
`seq`.  A thread whose join has been cut off goes on while the handler releases; what is
released twice may end the process (`crashed`).  `masked`, `again` and
`fdq` model `/dev/xen/evtchn`; `req` is the state field of each vCPU's ioreq; `vpc`
and `woken` are the vCPU in Xen.  A guest comes and goes through `guest_found` and
`xenstore_event`.

### Devices
One guest after another: the init items (`disk_image__init`, `virtio_blk__init`), any
host call of which may fail, and the exit items in reverse.  `fds` are the process's
descriptors with their access mode, `disk` the one disk with its operations, `bdevs`
the list of devices, `memory` the registered spaces and `ranges` those Xen sends to
the server.  `before` and `up` remember, for the properties, what was open when the
guest came and whether its device got into service, and `forgotten` the descriptor that
`blkdev__probe` leaves open when `disk_image__new` has no memory.  `pc` is "dead" when
`qcow1_probe` has written through the ERR_PTR it takes for a disk (`qcow.c:1473`).

### Xenstore
`pc` is where the main thread is in `xenstore_wait_fe_domid`,
`xenstore_connect_dom`, the main loop's `xenstore_poll_watches` and
`xenstore_disconnect_dom`; every step is one request to xenstored.  `events` are the
watch events not read yet and `watches` the watches set.  The toolstack is external:
it creates a guest (`dirs`), writes its nodes (`pending`, `full`), detaches the disk
(`be_state` Closing) and removes everything, between any two steps.  The frontend's
state stays Initialising, as the guest knows nothing of xenbus.  After the delay of
200 ms (`xs_dev.c:340`) `check_fe_directory` and `check_fe_exists` look once, wherever
the toolstack is by then.  A guest without its nodes is not looked at again; where the
list of its devices is empty, `devid[0]` is read all the same (`xs_dev.c:357`), which
gives any device or ends the process ("dead").

### DiskService, DiskImage, Qcow
`DiskService` is the abstract disk: a request moves its bytes between its buffer and
its place on the disk and touches nothing else, and success means that all have moved,
or that the image behind the disk could not be read (`failed`).  Only then, too, may
memory beside the buffer be written (`astray`).  `DiskImage` is the
code between `disk_image__read`/`disk_image__write` and the host, one host call per
step, each of which may transfer less than it was asked for or fail.  A request's
iovecs are named by where they end in its buffer (`ends`).  `file` is the
content of a raw disk; `el`, `total` and `offset` are the variables of the loops of
`preadv_in_full` and `pwritev_in_full`, whose `shift_iovec` drops the iovecs that were
transferred as a whole.  `first` is the sector at which `qcow_read_sector` has begun
the iovec; `sector`, `nr_read` and `pos` are `qcow_read_sector_single`'s, with `nr` a
`u32` (2^32 is `Width`).  A cluster read that fails makes `nr` `Width - 1`, and buffer
and sector go on by that (`Advance`).  On a disk that ends before, the request ends with
success; on a larger one `pos` is past the iovecs (`Beyond`), what is read there goes to
no byte of the request (`Deliver`) and sets `astray`, or the process dies of it
(`segfault`, `pc` "dead").  `Qcow` has the index
arithmetic and the caches of tables, lists in order of use: the red-black tree of the
code holds the same nodes under their offset.  `Content` is the virtual disk, defined
from the tables alone, and the refinement mapping hands it to `DiskService`.  A byte
of a raw disk is named by its place, and one of an image file by its offset in it, so
that no two places hold the same value.

### QcowWrite
The write path of QCOW 2.  A call runs under `q->mutex`; a step of it goes up to its
next write to the image, or looks for one table, and `crash` may come between any two.
`disk` is the image, `rft`, `l1`, `rbs` and `l2s` are the tables in memory and their
caches, and `free` is `free_clust_idx`.  Any read of a table that is not cached, and any
allocation, may fail.  The nested calls of the code are in three
variables: `pc` is where the innermost one is, `chain` are the clusters being counted,
each a new block of counts for the one before it (the recursion of
`update_cluster_refcount` through `qcow_grow_refcount_block`), and `use` is what the first
of them is for: a level 2 table, data, or the old table whose count is lowered.

| `pc` | code |
|---|---|
| `start`, `data` | `get_cluster_table`, `qcow_write_cluster` |
| `search` | one turn of the loop of `qcow_alloc_clusters` |
| `count`, `add` | `update_cluster_refcount` before and after its block is there |
| `grow`, `refer` | `qcow_grow_refcount_block`: the new block, then the refcount table |
| `copy`, `l1` | the rest of `get_cluster_table` for a table that is not the disk's own |
| `freed` | `recover_rft` has freed a block that is cached (`qcow.c:709-712`); only the death of the process follows |
| `hung` | a flush over a list whose last node is its own next does not end |

Both tests of an allocation's result (`qcow.c:918` and `1007`) are modelled as they
stand, the wrong way round: a write that gets its cluster fails, and one that does not
goes on with the place -1.  For a level 2 table that exists this means that the table is
written to its own place, put into the cache a second time (`qcow.c:938`), its count
lowered, and -1 entered in the level 1 table.  It is the last of the cache's list by then,
so that the second `list_add_tail` makes it its own next (`looped`): a flush does not end
(`qcow.c:1141`), and a close frees it twice, so that it is another process that opens the
image.  Once another table follows, the list ends again but the node is in it wrongly: the
model lists the table twice and evicts it twice, and knows what follows from a freed node
only as the death of the process, which may come at any step of a call.

## 3. Runs

| run | question | expected |
|---|---|---|
| `blk_event` | with the event index, batches, failing requests, acknowledges of 0 and resets at any moment: is every head owned once, every kick delivered, no interrupt lost but to an acknowledge of 0 that overtakes it, nothing mapped but what the disk failed, and a reset device quiet? | pass |
| `blk_live` | with the flags and requests that may fail: does the data path implement the abstract service, liveness included, and serve or drop every request? | pass |
| `blk_seg_max` | is a driver without the event index interrupted unless it asked not to be? | violation |
| `demu` | whatever step fails and a signal on top of any step, a release and the join included: do the handles agree with `seq` but for what the interrupted step was about, in use order, is every vCPU answered and a lost guest let go? | pass |
| `disk` | raw, private and QCOW disks, also larger than a `u32` counts, through short transfers, host errors and evictions: do they implement the abstract disk, and does every request return or end the process? | pass |
| `disk_qcow` | is what a read reports the amount that was read? | violation |
| `qcow_write` | through clusters allocated, reads and allocations of memory that fail and a crash between any two writes: do counts cover references, caches agree with the image, and snapshots stay? | pass |
| `devices` | every kind of image, any host call failing: is a device whole or gone, the disk what the driver was told, and every open descriptor the disk's or one the code leaves open? | pass |
| `mmio` | through drivers that probe, fail, go and come: one thread per queue, a fresh queue and the registers the driver wrote, the join ends and a kick is served? | pass |
| `memory` | whatever mapping fails: do pointers reach the driver's bytes, and is every mapping undone once? | pass |
| `memory_two_drivers` | do the drivers of a guest ever trip the assertions on address kinds? | violation |
| `xenstore` | guests that come and go at any time: kept while there, let go when gone, a connection ends, and the newest is found if its nodes are there by the end of the delay? | pass |

### Bounds and why they are enough

**Data path.** Two heads and indices modulo 4 make slots collide and indices wrap every
four requests, and let one request be in service while another is added; a batch of 2
makes the event index skip an entry.  `blk_event` gives the driver the feature bits
{2, 9, 28, 29} of Linux with the event index, `blk_live` bit 9 only, so that
`avail->flags` rules, with batches of 1 and no reset, which keeps the liveness check
small.  `AckZero` is set in `blk_event`, as Linux acknowledges a status it has read as 0;
`blk_live` leaves it out (see the table below).  The proofs of section 5 cover every
size.

**Demu.** Two vCPUs are enough for one to raise a request while the other is served.
The run takes one signal, on top of any step; the theorems any number of them, on top of
each other.  Signals are taken by the main thread.  What a handler may not call (`printf`,
`free` inside a `malloc`) is not modelled.

**Disk.** Sectors of 2 bytes, iovecs of 2 and 6 and clusters of 4 make a request start
and end inside clusters and iovecs, and short transfers end inside an iovec; two
iovecs of 6 are the longest request (`MaxSize`).  Four
tables of two clusters, one missing, overflow a cache of two; one cluster is compressed.
`HostErrors` fails reads, writes, table reads and cluster reads.  `Width` 16 stands for
2^32 and the QCOW disk has 34 bytes, as if it had more than 8 GiB: in its second half the
-1 that becomes a length moves the sector past the end of the disk, as it does anywhere on
a disk below 4 GiB, and in the first half it moves the buffer past the iovecs and the
sector to another place of the disk.

**QCOW writes.** Clusters of 2 sectors and caches of 2: three level 2 tables (places 1, 3
and 4) and up to two blocks of 8 counts are evicted and read again.  One image has its
first block full and room for a second, the other has no room, and a cluster with as
many references as can be counted (`CountMod` 8 stands for 2^16); in both, table 3 and
the data of cluster 5 are a snapshot's too.  Three writes of up to 12 sectors make a new
block, an allocation that fails, the copy of a shared table and an eviction in one
behaviour.

**Devices.** Each image is raw or QCOW, in a file or on a device, mounted or not,
read-only or not; two rounds let the second find what the first has left; four
descriptors are enough for both.

**VirtioMmio.** Words of 4 instead of 2^32 and ring addresses 6 and 11 make all halves
differ, so that a half written to the wrong register shows.  Two descriptors are
enough for the queue of one driver to overlap with the one being given up.

**GuestMemory.** Pages of 4 bytes; RAM banks at pages 1 to 6 and from 8, so that an
address may lie in either and between them; a request whose data spans parts of three
pages and one without data, which with three descriptors are in flight together when
one of them is indirect; the kernel takes the first free place (`FirstFit`), so that a
place just given up is used again; two guests, so that one finds what the other has left.
The proofs of section 5 cover every size, chain and placement.

**Xenstore.** Guest 2 may come before, while and after guest 1 is found, connected, let
go and removed, and each may be looked at before its nodes are written.  Domain ids do
not wrap.

Deadlock is checked in `blk_event`, `disk`, `disk_qcow` and `qcow_write`.  The others may
stop: a driver that has nothing to submit or is not bound again, a process that has
exited or waits for a guest when all of them have been there, an image whose rounds
are over.

### Behaviours the constants leave out

The code has no protection in these places.  A constant keeps the drivers and the
kernel away from them; giving it the other value refutes the property named.

| constant | what it leaves out | source | refuted otherwise |
|---|---|---|---|
| `AckZero` (in `blk_live` only) | an acknowledge of 0, whose read-modify-write of `interrupt_state` on the main thread can erase the bit the I/O thread sets | `virtio/mmio-modern.c:110` | `RequestServed`, `ImplementsService` |
| `FeatureSets` | two drivers of one device with different features; features are only ever added | `virtio/core.c:314` | `InterruptUnlessTold` |
| `WrapMax` | a full circle of the used index between two interrupts, 65536 completions | `virtio/core.c:299` | `NoLostInterrupt` |
| `DieEarly` | a driver that dies between QUEUE_READY and DRIVER_OK, which the next one finds with its queue | `virtio/core.c:330` | `FreshQueue` |
| `SameModel` | a guest whose second driver uses the other kind of address | `demu.c:902` | `AddressesOfOneKind`, a finding |
| `HostErrors` | a short read of a level 2 table ("short"), which is cached with zeros | `disk/qcow.c:239` | `CacheSound` |

Three properties say themselves what the code does not promise, so that no constant is
needed: `NoLostInterrupt` exempts an interrupt that `erased` accounts for,
`HandlesMatchSeq` what a signal made a handler forget or release twice, and
`ImplementsDisk` allows a request to report success, and to write astray, after a read of
the image that failed.

### Findings

* `blk_seg_max`: `virtio/core.c:203` tests a feature bit number as a mask, so that a
  driver with seg_max (bit 2) and without the event index is treated as one with it.
* `disk_qcow`: `disk/qcow.c:492` tests an unsigned result for an error, so that a
  cluster that cannot be read counts as read.  The run needs no host error: in the
  build without zlib every compressed cluster fails this way.
* `memory_two_drivers`: `demu.c:902` is the only place that forgets `use_gnttab`, so a
  guest whose second driver uses the other kind of address trips a `BUG_ON`.

Other behaviours the models keep, without a run of their own:

* The ring size a driver writes to QUEUE_NUM is ignored (`virtio/blk.c:288`).
* The result of a cluster allocation is tested the wrong way round
  (`disk/qcow.c:918`, `1007`).  A write that needs a cluster fails when it gets one, and
  leaves a cluster counted that nothing refers to: `CountsCover` allows that, it forbids
  the reverse.  When none was to be had, `get_cluster_table` makes the level 1 table refer
  to (u64)-1, and the disk has lost that table, where the comment at `disk/qcow.c:881`
  has it copied to a new cluster.  `TypeOK` of `QcowWrite` allows for
  that place.
* A table that is put into the cache a second time (`disk/qcow.c:938`) may have its node
  linked to itself, so that the next flush does not end and a close frees it twice
  (`looped`, section 2).
* An acknowledge of 0 may erase the interrupt that the I/O thread is just raising
  (`virtio/mmio-modern.c:110`, `virtio/mmio.c:76`), and nothing raises it again unless
  more requests complete.
* A signal between a step and the count of it makes the handler forget a handle or
  release it twice (`demu.c:606`); one that interrupts a teardown before or in the join
  (`virtio/blk.c:253`) has the handler release guest memory, server and disk under the
  I/O thread.
* The requests that the disk failed are never unmapped, not by a reset either
  (`virtio/blk.c:223`).
* The error of `disk/qcow.c:492` writes beyond the buffers of a request where the disk
  has 4 GiB or more behind the sector that failed.
* Block devices are opened for writing unless the disk is configured read-only, where the
  comment at `disk/blk.c:52-54` says "Open it readonly since we do not want to break
  user's data on disk".  `ReadOnlyTold` follows the code: what is offered for writing is
  written.
* `blkdev__probe` does not close its descriptor when `disk_image__new` fails, and
  `qcow1_probe` tests that function's ERR_PTR for NULL and writes through it
  (`disk/qcow.c:1473`).
* `raw_image__close` unmaps a disk that has no mapping at address 0 (`disk/raw.c:54`),
  which does nothing.
* An image with an unusable QCOW header is served as a raw disk, and a mounted block
  device as an empty file (`disk/core.c:126`).
* The close operations of read-only and QCOW disks do not close the descriptor.
* `disk/qcow.c:1148` compares a function pointer instead of calling it.
* The dirty flag of a refcount block read into the cache is not initialised
  (`disk/qcow.c:615`): the model lets a flush write any of the cached blocks.
* `qcow_grow_refcount_block` frees a block that is in the cache when counting it fails
  (`disk/qcow.c:709-712`).  The model has that as `freed`; theorem `GrowthEnds` says that
  it is not reached as long as writes to the host succeed, whatever reads and allocations
  fail, because a new block counts itself.

## 4. Fairness

* `VirtioBlk`: the I/O thread is scheduled, the main thread serves each access the
  guest has made, and the guest finishes a kick and runs its interrupt handler.
  Nothing forces the guest to submit, reset or bind.  No strong fairness is needed: no
  action of one thread is disabled again and again by another.
* `Demu`: the main thread runs, an I/O thread that is told to end does (which is
  `JoinReturns` of `VirtioMmio`), and Xen finishes what a vCPU began; guests, failures,
  signals and watch events come or do not.
* `DiskImage`: the thread runs; and the host does not forever transfer less than it
  was asked for (strong fairness of the whole transfer), without which
  `preadv_in_full` may take up the same iovec without end.  A request also ends when the
  process has written past its memory and died.
* `VirtioMmio`: each I/O thread and the main thread are scheduled, and a driver goes
  on with a probe it has begun.
* `Xenstore`: virtio-disk runs while it lives; the toolstack finishes what it has begun, the nodes of
  a new guest and the removal of a disk being detached.
* `BlkService` promises that a request is served and an answer reaches the driver.
* `Devices`, `GuestMemory` and `QcowWrite` are checked for safety only: their calls
  are sequential and end, and what they must not do is what matters.

## 5. Proofs

Every theorem holds for all values of the constants that satisfy the named
assumptions of the modules (`RingAssumption`, `BlkAssumption`, `DemuAssumption`,
`DevicesAssumption`, `XenstoreAssumption`, `MmioAssumption`, `GuestMemoryAssumption`,
`QcowAssumption`, `ImageAssumption`, `QcowWriteAssumption`) and the hypothesis in the theorem.

| module | theorem | states |
|---|---|---|
| `VirtioBlkProofs` | `TypeCorrect` | `TypeOK` |
| | `ResetIsQuiet` | `QuietAfterReset` |
| | `KicksNotLost` | `NoLostKick`, under `FeaturesAgree` |
| | `HeadsOwned` | `HeadOwnership` |
| | `BuffersUnmapped` | `NoAccessAfterReturn` |
| | `InterruptsNotLost` | `NoLostInterrupt`, under `InterruptsKept` |
| | `ServiceImplemented` | `Safety => Service!Safety` |
| `DemuProofs` | `TypeCorrect` | `TypeOK` |
| | `TeardownComplete` | `HandlesMatchSeq` |
| | `NothingUsedIsReleased` | `NothingDangles` |
| `DevicesProofs` | `TypeCorrect` | `TypeOK` |
| | `DevicesComplete` | `DeviceComplete` |
| | `DiskAsTold` | `ReadOnlyTold` |
| | `NoDescriptorLeft` | `DescriptorsGivenBack` |
| `XenstoreProofs` | `TypeCorrect` | `TypeOK` |
| | `GuestKept` | `KeptWhileThere` |
| `VirtioMmioProofs` | `TypeCorrect` | `TypeOK` |
| | `OneThread` | `QueueHasOneThread` |
| | `FreshQueues` | `FreshQueue`, under `~DieEarly` |
| | `DriversTold` | `DriverTold` |
| | `OwnRings` | the second half of `FreshQueue`, whenever drivers die |
| `GuestMemoryProofs` | `TypeCorrect` | `TypeOK` |
| | `PointersReach` | `PointersReachGuest` |
| | `UndoneOnce` | `MappingsUndone` |
| | `OneKind` | `AddressesOfOneKind`, under `SameModel` |
| `DiskImageProofs` | `TypeCorrect` | `TypeOK` |
| | `CacheIsSound` | `CacheSound`, without "short" reads of tables |
| | `AmountIsRead` | `AmountRead` |
| | `DiskImplemented` | `ImplementsDisk`, under `WholeReads` |
| `QcowWriteProofs` | `TypeCorrect` | `TypeOK` |
| | `CountsAlwaysCover` | `CountsCover` |
| | `CachesAlwaysAgree` | `CachesAgree` |
| | `SnapshotsKept` | `SharedKept` |
| | `GrowthEnds` | counting a cluster needs at most one new block, which is a place of the image and counts itself, and none is freed while it is cached |

**Kicks** (`VirtioBlkProofs`).  `LifeInv`: the queue is enabled exactly from bind to
reset, and the I/O thread exists only meanwhile, which rests on the join before the
queue is cleared.  `KickInv`: a thread on its way to sleep has published how far it
got, and what it has not seen was added since the driver last decided whether to kick.
The decision itself is modular arithmetic on `vring_need_event`, in lemma `NeedEvent`.
`FeaturesAgree` says that the device reads the features as the driver meant them;
without it the mask of `virtio/core.c:203` breaks the property.

**Heads** (`VirtioBlkProofs`).  `BoundInv` counts the heads: free ones, those in
the rings and the one in service are at most `Num`, so a ring has room for what is
written to it and no slot in a window is overwritten.  It also bounds the completions
without an interrupt by `WrapMax`.  `OwnInv` says that the five owners of heads are
disjoint, that a head is in a ring once, and that of the requests of this binding only
those in the device's hands are mapped; `PastInv`, that those of earlier bindings that
are still mapped are there exactly when the disk has failed some.  The window lemmas (`WindowWrite`, `WindowGrow`,
`WindowShrink`) carry sequences over ring writes and index moves; they rest on
`SlotApart`: two indices less than `Num` apart have different slots, also where they
wrap, because `Num` divides 2^16.

**Interrupts** (`VirtioBlkProofs`).  `AckInv`: between the load and the store of an
acknowledge its handler waits, and a bit the load saw is still there, so that only an
acknowledge of 0 whose load did not see the bit erases it.  `ArmedInv`: a handler that rests has asked for the next
entry.  `DecidedInv`: what `should_signal` has decided about while it rests was decided
with an interrupt.  `ToldInv`: that interrupt is pending, in `interrupt_state` or in
the handler, on its way, or `erased`.  `InterruptsKept` is the conjunction of
`FeaturesAgree` and `WrapMax < IdxMod`; both are needed, and nothing is asked of what the
driver acknowledges.

**Refinement** (`VirtioBlkProofs`).  The windows of the two rings are the
sequences of the service.  Each step is a Submit, Answer, Drop, Reap, Bind or Reset of
`BlkService` or changes none of its variables; `StatusInv` says that a request on its
way to the used ring has its status already.

**Ladder** (`DemuProofs`).  `At(pc, seq)` are the handles that the control point and
`seq` account for; they differ from `HeldAt(seq)`, what `seq` alone says, between a step
and the count of it.  A handler starts from `HeldAt` of the `seq` it finds, so what is
held is what its own place says, less what the interrupted steps had already given back
(`Released`) and with what they had taken and not counted (`Forgotten`).  `PlaceInv` and
`DevInv` say where an interrupted thread can have been and how far the device was;
`UseInv` orders the handles by use; `DeadInv` is about the process that has died of a
second release.  Nothing is asked of the signals: any number, each blocked while its own
handler runs, as `sigaction` has it.

**Devices** (`DevicesProofs`).  `PlaceInv` ties the init item counted to the control
point, `DeviceInv` says at each point which parts of the device are there, and
`DiskInv` which descriptors are open and how the disk was opened: those of the guests
before and the one `blkdev__probe` forgot (`Base`), the disk's own, and after a guest
exactly what its image leaves open (`Left`).  `OpenTypeOK` has the types of what an open
is told.

**Guests** (`XenstoreProofs`).  `GuestInv`: the guest being served is one the toolstack
has made.  `StateInv`: the backend of a guest with nodes is only missing once virtio-disk
has finished with it.

**Queue and registers** (`VirtioMmioProofs`).  `QueueInv`: an enabled queue has one
thread, and that thread's eventfd is the only one open; `io_done` is set exactly while
somebody waits for the thread.  It needs nothing of the driver, so `OneThread` holds
for one that dies anywhere.  `ScriptInv` says, for every stage of the driver, that
what is left of its list of accesses is the end of that list, and what the accesses
behind it have left in selectors, windows and halves: `SetUpInv(a)` has the halves of
address `a` arrive one by one, and lemma `Division` puts them together.  `RingsInv`:
the queue of a driver that has set it up is its own.  `IdleInv`: a queue left enabled
by the driver before belongs to a started device, so that the status of 0 stops it,
which is what a driver that dies between QUEUE_READY and DRIVER_OK breaks (`DieEarly`).

**Guest memory** (`GuestMemoryProofs`).  `MapInv` is one statement of ownership: the
ranges the process holds (`Held`: banks, rings, segments, the indirect table), with the
pages of dropped requests, partition the pages that are mapped (`Parted`), and each is
mapped as its address says; when memory is mapped in advance the other ranges lie in a
bank (`ThroughBank`).  Lemmas `MapStep` and `UnmapStep` say that a mapping adds one range
to the partition and an unmapping removes one, whatever the offsets in the pages; they
rest on `SameOffset` (a pointer and its address need the same number of pages, which is
why unmapping from the pointer undoes what was mapped from the address) and
`PagesOfNull`.  One lemma per action then says which range comes or goes.  `LoopInv`
relates loops to what has been mapped so far; `ChainInv` says that the descriptors of
each request hold its chain and that requests share none; `WalkInv` that the walk is at
the descriptor the length of the iovec says.  `KindInv` is what `OneKind` needs besides,
and what a second driver of the other kind breaks: run `memory_two_drivers` shows that
`SameModel` cannot be left out.  `GuestMemoryAssumption` asks of a
driver that a buffer does not reach over the end of a bank and is not larger than
`FirstPage`; the banks themselves may be anywhere, apart from each other.

**Disk** (`DiskImageProofs`).  `RawInv`: between two host calls the iovecs counted in
`total` end where iovec `el` starts, `offset` is as far into the disk, and the bytes up
to there have moved; lemma `ShiftStep` is one `shift_iovec`.  `CacheInv`: a cached table
is the file's and is cached once; `SearchMoves` and `CachingDrops` say what a hit and an
insertion with eviction do to the list.  `PosInv`: the sector being read is the one the
buffer is at.  It holds while all iovecs and clusters are whole sectors, which
virtio-blk requests and QCOW images are, and no table is read short (`WholeReads`);
`qcow_read_sector` divides lengths by the sector size and would lose the remainder.
It also says what the error of `disk/qcow.c:492` does: the place in the buffer is then
past its end, which `failed` remembers the reason of; what is read there changes no byte
of the request, and `astray` is only set with `failed`.  Nothing is asked of the size of
the disk.  `ReadStep` names each byte of a cluster by
`Content`, with the lemmas on `\div` and `%` (`Division`, `SameCluster`,
`TableOfCluster`); `ReadRefines` and `WriteRefines` then turn a step into one of
`DiskService`.  The constants of run `disk` satisfy `WholeReads`.

**QCOW writes** (`QcowWriteProofs`).  None of the properties is inductive.  That counts
cover references after a step depends on what the call in progress knows of the image,
and that it knows from memory, so the invariant says first what memory is worth.
`MemoryInv`: the tables in memory are those of the disk but for the one entry about to
be written; a cached block or table is as in the image and is one that its table or a
snapshot refers to, so that what is written to a place leaves no cache behind
(`WrittenElsewhere`).  `Image` has what is where: blocks each for one part, and
entries marked as copied that refer to data outside every snapshot, which is why a
write in place spares them.  `CallInv` lists the stages of a call.  `SearchInv`: in a
part of the image without a block a search stands at an even cluster, as it enters
such a part at its first cluster, and an allocation there, also one that fails, uses up
two: a cluster and its block.  `NewInv`: the clusters being allocated have
no count yet, and a new block is the one after an even cluster; as a block has an even
number of counts, that is in the part it counts, which is `GrowthEnds`.  `AddInv`: until the refcount table refers to it on the disk, a new block
has no count but its own, and that before it is referred to.  `OldInv`: from the
moment the level 1 table on the disk has -1, the old table counts one more than what
refers to it, so that its count can be lowered.

The lemmas on edits of an image, `CountWritten`, `BlockWritten`, `DataWritten`,
`RftWritten` and `L1Written`, say what each of the five kinds of write does to `Count` and
`Referred` and when the image stays arranged and covered; the last two count, with
`Cardinality`, the references one entry more or less makes.  One lemma per action
combines them, and `NextKeeps` is all of them.  `QcowWriteAssumption` asks of the images
that they are arranged as an image is and that their counts cover their references, an
even number of counts in a block (the code has a power of two) and caches of more than
one table (`MAX_CACHE_NODES` is 32).  Nothing is asked of which reads and allocations
fail; writes to the host succeed.

### Only model-checked

* All liveness (`RequestServed`, `IoreqAnswered`, `GuestLetGo`, `RequestReturns`,
  `JoinReturns`, `KickServed`, `GuestLeft`, `ConnectEnds`, `NewestFound` and the
  liveness half of `ImplementsService`), because fairness and ENABLED are out of the
  prover's reach.

Every other property of the passing runs is stated by a theorem, some under the
hypotheses named in the table.

## 6. Not modelled

* Asynchronous I/O (`disk/aio.c`) is not compiled in.  The red-black tree, the lists
  and the Linux headers are not this program's logic: the modules model what their
  users see.
* `init_vq` that fails after the queue is marked enabled (`virtio/mmio-modern.c:101`):
  the later `exit_vq` then joins a thread that was never created.
* Several devices per guest (each has its own queue and thread and they share nothing
  but the main thread), and more than one process.
* Register reads that return constants, access widths, and flushing a raw disk.
* Writes to QCOW 1 images, writes to the host that fail within `qcow.c` (the cached entry
  is changed before them, `qcow.c:805`), and image files that end inside a table or block,
  whose short read is taken for a whole one (`qcow.c:740`).  The whole
  write path of QCOW is compiled and cannot be reached, as `qcow_probe` is called
  read-only; `QcowWrite` models it from the code.
* Memory ordering weaker than sequential consistency: the barriers of the code are
  taken to separate the accesses they stand between.
* Chains a driver would not build: the drivers of the models follow the virtio rules.
* Parsing of options and of Xenstore values.
* What the process does after it has used freed memory or written past it, but that it may
  die.

The hazards without a property are listed in `PROJECT.json`, each with the reason.
