------------------------------- MODULE Devices -------------------------------
(***************************************************************************)
(* device_initialize and device_teardown (device.c, util/init.c): opening  *)
(* the disk image of a guest (disk/core.c, disk/blk.c, disk/raw.c and the  *)
(* probes of disk/qcow.c), putting a virtio-blk device on it               *)
(* (virtio/blk.c, virtio/core.c, virtio/mmio.c) and claiming its memory    *)
(* space (demu.c), for one guest after another.  Every call of the host    *)
(* may fail.  There is one disk per guest: demu_read_xenstore_config reads *)
(* one.                                                                    *)
(*                                                                         *)
(* External: the host's files and their descriptors, the ranges Xen sends  *)
(* to the IOREQ server.                                                    *)
(***************************************************************************)
EXTENDS SequencesExt

CONSTANTS
    Images,         \* images tried: [isblk, mounted, format, size, ro]
    Start, Size,    \* the device's registers in guest memory
    FailAt,         \* host calls that may fail
    MaxFds,         \* bound: descriptors open at a time
    Rounds          \* bound: guests

ASSUME DevicesAssumption ==
    /\ Start \in Nat /\ Size \in Nat \ {0}
    /\ \A i \in Images : i.mounted => i.isblk
    /\ MaxFds \in Nat /\ Rounds \in Nat

VARIABLES
    pc, item,       \* where the main thread is; the init or exit item it is in
    image,          \* what the guest's configuration names
    fds,            \* open descriptors, each with its access mode
    fd,             \* the descriptor disk_image__open or blkdev__probe has in hand
    disk,           \* kvm->disks[0]
    bdevs,          \* the devices on the list bdevs, [capacity, callback]
    memory,         \* demu_state.memory, [start, end]
    ranges,         \* external: the ranges mapped to the IOREQ server
    io_thread,      \* the I/O thread of an enabled queue is running
    before,         \* history: descriptors open when the round began
    forgotten,      \* history: the descriptor blkdev__probe has not closed in this round
    up,             \* history: the device came into service in this round
    round

vars == <<pc, item, image, fds, fd, disk, bdevs, memory, ranges, io_thread, before, forgotten, up,
          round>>
openVars == <<image, fds, fd, disk>>
devVars == <<bdevs, memory, ranges, io_thread>>
historyVars == <<before, up, round>>
roundVars == <<historyVars, forgotten>>

NoFd == 0
NoDisk == [fd |-> NoFd, size |-> 0, ops |-> "none", readonly |-> FALSE]
NoImage == [isblk |-> FALSE, mounted |-> FALSE, format |-> "raw", size |-> 0, ro |-> FALSE]

\* The operations a disk may have, and those among them with a write.
RegularOps == {"blk_dev_ops", "raw_image_regular_ops"}
CloseOps == {"ro_ops", "qcow_disk_readonly_ops"}
Ops == RegularOps \cup CloseOps \cup {"ro_ops_nowrite"}
WriteOps == RegularOps \cup {"ro_ops"}

\* init_lists by priority, and exit_lists by priority from the last: the disk
\* images are at dev_base (4), virtio-blk at virtio_dev (6).
InitItems == <<"disk_image__init", "virtio_blk__init">>

ExitItems == Reverse(InitItems)

Init ==
    /\ pc = "idle" /\ item = 0
    /\ image = NoImage /\ fds = <<>> /\ fd = NoFd /\ disk = NoDisk
    /\ bdevs = <<>> /\ memory = {} /\ ranges = {} /\ io_thread = FALSE
    /\ before = {} /\ forgotten = NoFd /\ up = FALSE /\ round = 0

MayFail(call) == call \in FailAt
Go(next) == pc' = next

\* device_initialize for the next guest.
device_initialize(img) ==
    /\ pc = "idle" /\ round < Rounds
    /\ image' = img /\ disk' = NoDisk /\ fd' = NoFd
    /\ round' = round + 1 /\ before' = DOMAIN fds /\ forgotten' = NoFd /\ up' = FALSE
    /\ item' = 1 /\ Go("init")
    /\ UNCHANGED <<fds, devVars>>

\* init_list__init: the next item, or all are done.
init_list__init ==
    /\ pc = "init"
    /\ up' = (item > Len(InitItems))
    /\ Go(IF up' THEN "ready" ELSE InitItems[item])
    /\ UNCHANGED <<item, openVars, devVars, before, forgotten, round>>

\* An item has ended well.
ItemDone == item' = item + 1 /\ Go("init")

\* An item has failed: kvm is freed, what it pointed to is not.
ItemFailed == item' = 0 /\ Go("idle")

-----------------------------------------------------------------------------
(* disk_image__init                                                        *)

Flags == IF image.ro THEN "rdonly" ELSE "rdwr"

\* disk_image__open_all has memory for its list, and stat finds the image.
disk_image__open ==
    /\ pc = "disk_image__init"
    /\ \/ Go("blkdev__probe") /\ UNCHANGED item
       \/ (MayFail("malloc") \/ MayFail("stat")) /\ ItemFailed
    /\ UNCHANGED <<openVars, devVars, roundVars>>

\* open gives the lowest descriptor that is free.
Open(next) ==
    \E f \in 1 .. MaxFds \ DOMAIN fds :
        /\ \A g \in 1 .. MaxFds \ DOMAIN fds : f <= g
        /\ fds' = [g \in DOMAIN fds \cup {f} |-> IF g = f THEN Flags ELSE fds[g]]
        /\ fd' = f
        /\ Go(next)

Close(f) == fds' = [g \in DOMAIN fds \ {f} |-> fds[g]]

\* blkdev__probe: only a block device nobody has mounted.
blkdev__probe ==
    /\ pc = "blkdev__probe"
    /\ LET mine == image.isblk /\ ~image.mounted
       IN \/ mine /\ Open("blk_size")
          \/ (~mine \/ MayFail("open")) /\ Go("open") /\ UNCHANGED <<fds, fd>>
    /\ UNCHANGED <<item, image, disk, devVars, roundVars>>

\* mutant: a QCOW image stays writable
disk_image__new_ro(ops, size) ==
    disk' = [fd |-> fd, size |-> size, ops |-> ops, readonly |-> image.ro]

\* disk_image__new succeeded, and disk_image__open says whether the disk is
\* read-only; a QCOW image always is.
disk_image__new(ops, size) ==
    disk' = [fd |-> fd, size |-> size, ops |-> ops,
             readonly |-> image.ro \/ ops = "qcow_disk_readonly_ops"]

\* BLKGETSIZE64, then disk_image__new; when that has no memory the descriptor
\* stays open.
blkdev_size ==
    /\ pc = "blk_size"
    /\ \/ /\ disk_image__new("blk_dev_ops", image.size) /\ ItemDone
          /\ UNCHANGED <<fds, forgotten>>
       \/ MayFail("ioctl") /\ Close(fd) /\ Go("open") /\ UNCHANGED <<disk, item, forgotten>>
       \/ MayFail("malloc") /\ forgotten' = fd /\ Go("open") /\ UNCHANGED <<fds, disk, item>>
    /\ UNCHANGED <<image, fd, devVars, historyVars>>

open ==
    /\ pc = "open"
    /\ \/ Open("qcow_probe") /\ UNCHANGED item
       \/ MayFail("open") /\ ItemFailed /\ UNCHANGED <<fds, fd>>
    /\ UNCHANGED <<image, disk, devVars, roundVars>>

\* qcow_probe: the header says QCOW 1 or 2, and header and tables can be read
\* and kept; anything else is left to raw_image__probe.  qcow1_probe takes the
\* error disk_image__new returns for a disk and writes to it, which ends the process.
qcow_probe ==
    /\ pc = "qcow_probe"
    /\ \/ /\ image.format \in {"qcow1", "qcow2"}
          /\ disk_image__new("qcow_disk_readonly_ops", image.size) /\ ItemDone
       \/ /\ image.format = "raw" \/ MayFail("pread") \/ MayFail("malloc")
          /\ Go("raw_image__probe")
          /\ UNCHANGED <<disk, item>>
       \/ image.format = "qcow1" /\ MayFail("malloc") /\ Go("dead") /\ UNCHANGED <<disk, item>>
    /\ UNCHANGED <<image, fds, fd, devVars, roundVars>>

\* stat's st_size, which is 0 for a device.
StSize == IF image.isblk THEN 0 ELSE image.size

\* raw_image__probe: a read-only image is mapped privately, or, if that fails,
\* read and never written.
raw_image__probe ==
    /\ pc = "raw_image__probe"
    /\ \/ ~image.ro /\ disk_image__new("raw_image_regular_ops", StSize) /\ ItemDone
       \/ image.ro /\ StSize > 0 /\ disk_image__new("ro_ops", StSize) /\ ItemDone
       \/ /\ image.ro /\ (StSize = 0 \/ MayFail("mmap") \/ MayFail("malloc"))
          /\ disk_image__new("ro_ops_nowrite", StSize) /\ ItemDone
       \/ MayFail("malloc") /\ Go("close") /\ UNCHANGED <<disk, item>>
    /\ UNCHANGED <<image, fds, fd, devVars, roundVars>>

\* mutant: the descriptor is kept
close_forgotten ==
    /\ pc = "close"
    /\ ItemFailed
    /\ UNCHANGED <<image, fds, fd, disk, devVars, roundVars>>

\* Nobody wants the image; open_all closes nothing else, there is one disk.
close ==
    /\ pc = "close"
    /\ Close(fd)
    /\ ItemFailed
    /\ UNCHANGED <<image, fd, disk, devVars, roundVars>>

-----------------------------------------------------------------------------
(* virtio_blk__init                                                        *)

\* virtio_blk__init_one: the device goes on the list, with the capacity of its
\* disk, ...
virtio_blk__init_one ==
    /\ pc = "virtio_blk__init"
    /\ \/ /\ bdevs' = Append(bdevs, [capacity |-> disk.size, callback |-> FALSE])
          /\ Go("demu_register_space") /\ UNCHANGED item
       \/ MayFail("malloc") /\ ItemFailed /\ UNCHANGED bdevs
    /\ UNCHANGED <<openVars, memory, ranges, io_thread, roundVars>>

Space == [start |-> Start, end |-> Start + Size - 1]

demu_find_space(addr) == {s \in memory : addr \in s.start .. s.end}

\* ... virtio_mmio_init registers its registers, ...
demu_register_space ==
    /\ pc = "demu_register_space"
    /\ \/ /\ demu_find_space(Space.start) \cup demu_find_space(Space.end) = {}
          /\ memory' = memory \cup {Space}
          /\ Go("demu_map_io_range")
       \/ /\ MayFail("malloc") \/ demu_find_space(Space.start) \cup demu_find_space(Space.end) # {}
          /\ Go("virtio_blk__exit") /\ UNCHANGED memory
    /\ item' = IF pc' = "virtio_blk__exit" THEN 0 ELSE item
    /\ UNCHANGED <<openVars, bdevs, ranges, io_thread, roundVars>>

demu_deregister_space == memory' = {s \in memory : s.start # Start}

\* mutant: the space stays when Xen refuses the range, and so does the device
demu_map_io_range_kept ==
    /\ pc = "demu_map_io_range"
    /\ \/ /\ ranges' = ranges \cup {Space}
          /\ bdevs' = [b \in DOMAIN bdevs |-> [bdevs[b] EXCEPT !.callback = TRUE]]
          /\ ItemDone
          /\ UNCHANGED memory
       \/ /\ MayFail("map_io_range")
          /\ ItemFailed
          /\ UNCHANGED <<bdevs, memory, ranges>>
    /\ UNCHANGED <<openVars, io_thread, roundVars>>

\* ... and Xen sends their accesses here; virtio_blk_complete becomes the
\* callback of the disk.
demu_map_io_range ==
    /\ pc = "demu_map_io_range"
    /\ \/ /\ ranges' = ranges \cup {Space}
          /\ bdevs' = [b \in DOMAIN bdevs |-> [bdevs[b] EXCEPT !.callback = TRUE]]
          /\ ItemDone
          /\ UNCHANGED memory
       \/ /\ MayFail("map_io_range")
          /\ demu_deregister_space
          /\ item' = 0 /\ Go("virtio_blk__exit")
          /\ UNCHANGED <<bdevs, ranges>>
    /\ UNCHANGED <<openVars, io_thread, roundVars>>

-----------------------------------------------------------------------------
(* Serving, and device_teardown                                            *)

\* The driver starts or resets the device: demu_handle_io finds the space of its
\* access.
mmio_access ==
    /\ pc = "ready"
    /\ ranges # {} /\ demu_find_space(Start) # {}
    /\ io_thread' = ~io_thread
    /\ UNCHANGED <<pc, item, openVars, bdevs, memory, ranges, roundVars>>

device_teardown ==
    /\ pc = "ready"
    /\ item' = 1 /\ Go("exit")
    /\ UNCHANGED <<openVars, devVars, roundVars>>

\* init_list__exit: the next item, or all are done and kvm is freed.
init_list__exit ==
    /\ pc = "exit"
    /\ IF item > Len(ExitItems)
       THEN item' = 0 /\ Go("idle")
       ELSE /\ Go(IF ExitItems[item] = "virtio_blk__init" THEN "virtio_blk__exit" ELSE "disk_image__exit")
            /\ UNCHANGED item
    /\ UNCHANGED <<openVars, devVars, roundVars>>

\* virtio_mmio_reset: an enabled queue's thread is joined; not the queue of a
\* device that failed to come up.
virtio_mmio_reset ==
    /\ pc = "virtio_blk__exit"
    /\ io_thread' = FALSE
    /\ Go("demu_deregister_space")
    /\ UNCHANGED <<item, openVars, bdevs, memory, ranges, roundVars>>

\* mutant: the device stays on the list
virtio_blk__exit_listed ==
    /\ pc = "demu_deregister_space"
    /\ demu_deregister_space
    /\ ranges' = ranges \ {s \in memory : s.start = Start}
    /\ IF item = 0 THEN Go("idle") /\ UNCHANGED item ELSE item' = item + 1 /\ Go("exit")
    /\ UNCHANGED <<openVars, bdevs, io_thread, roundVars>>

\* virtio_mmio_exit and virtio_blk__exit_one: the space, Xen's range (from the
\* start to the end the space had, 0 when there was none), the device.  The
\* cleanup of virtio_blk__init ends here with its error.
virtio_blk__exit ==
    /\ pc = "demu_deregister_space"
    /\ demu_deregister_space
    /\ ranges' = ranges \ {s \in memory : s.start = Start}
    /\ bdevs' = Tail(bdevs)
    /\ IF item = 0 THEN Go("idle") /\ UNCHANGED item ELSE item' = item + 1 /\ Go("exit")
    /\ UNCHANGED <<openVars, io_thread, roundVars>>

\* disk_image__close: operations with a close of their own do only that, and the
\* descriptor stays open.
disk_image__exit ==
    /\ pc = "disk_image__exit"
    /\ IF disk.ops \in CloseOps THEN UNCHANGED fds ELSE Close(disk.fd)
    /\ item' = item + 1 /\ Go("exit")
    /\ UNCHANGED <<image, fd, disk, devVars, roundVars>>

-----------------------------------------------------------------------------
DiskInit == disk_image__open \/ blkdev__probe \/ blkdev_size \/ open \/ qcow_probe
                \/ raw_image__probe \/ close
BlkInit == virtio_blk__init_one \/ demu_register_space \/ demu_map_io_range
Exit == init_list__exit \/ virtio_mmio_reset \/ virtio_blk__exit \/ disk_image__exit

Next ==
    \/ \E img \in Images : device_initialize(img)
    \/ init_list__init \/ DiskInit \/ BlkInit
    \/ mmio_access \/ device_teardown \/ Exit

Spec == Init /\ [][Next]_vars
-----------------------------------------------------------------------------
(* Properties                                                              *)

TypeOK ==
    /\ item \in 0 .. Len(InitItems) + 1
    /\ image \in Images \cup {NoImage}
    /\ DOMAIN fds \subseteq 1 .. MaxFds /\ \A f \in DOMAIN fds : fds[f] \in {"rdonly", "rdwr"}
    /\ fd \in {NoFd} \cup 1 .. MaxFds
    /\ disk.ops \in Ops \cup {"none"}
    /\ Len(bdevs) <= 1 /\ memory \subseteq {Space} /\ ranges \subseteq {Space}
    /\ forgotten \in {NoFd} \cup 1 .. MaxFds
    /\ io_thread \in BOOLEAN /\ up \in BOOLEAN /\ round \in 0 .. Rounds

\* What a write of the guest to the disk in service does to the image.
WritesLand == disk.ops \in WriteOps /\ disk.ops # "ro_ops" /\ fds[disk.fd] = "rdwr"

\* VIRTIO_BLK_F_RO says what the disk is: a disk offered as read-only never
\* changes the image, through every way it can have been opened, and one offered
\* for writing does; an image the configuration calls read-only is not open for
\* writing anywhere.  A block device is opened like a file, for writing when the
\* configuration says so, although the comment of blkdev__probe has it "readonly
\* since we do not want to break user's data on disk" (disk/blk.c:53).
ReadOnlyTold ==
    /\ pc = "ready" => (disk.readonly <=> ~WritesLand)
    /\ image.ro => \A f \in DOMAIN fds \ before : fds[f] = "rdonly"

\* A device in service has its registers claimed and registered, one place in
\* the list and its callback; a failed or ended round has left nothing of the
\* device, and no thread.
DeviceComplete ==
    /\ pc = "ready" =>
           memory = {Space} /\ ranges = {Space} /\ Len(bdevs) = 1 /\ bdevs[1].callback
    /\ pc = "idle" => memory = {} /\ ranges = {} /\ bdevs = <<>> /\ ~io_thread

\* What is open besides a disk: the descriptors of earlier guests and the one
\* blkdev__probe has opened and not closed when disk_image__new had no memory.
Base == before \cup ({forgotten} \ {NoFd})

\* What becomes of descriptors, for every image and failure.  The disk in service
\* has one of its own.  A guest leaves behind exactly that of a disk whose close
\* does not close it (QCOW, private mappings), that of a disk whose device did not
\* come up, as kvm is freed without disk_image__exit, and the forgotten one.
DescriptorsGivenBack ==
    /\ pc = "ready" => DOMAIN fds = Base \cup {disk.fd} /\ disk.fd \notin Base
    /\ pc = "idle" =>
           DOMAIN fds = IF disk # NoDisk /\ (~up \/ disk.ops \in CloseOps)
                        THEN Base \cup {disk.fd} ELSE Base
=============================================================================
