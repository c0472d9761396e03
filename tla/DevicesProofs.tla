---------------------------- MODULE DevicesProofs ----------------------------
(***************************************************************************)
(* Theorems about Devices, for every set of images, whatever host call     *)
(* fails and for any number of guests: a device is wholly there or wholly  *)
(* gone, VIRTIO_BLK_F_RO says what the disk is, and every open descriptor  *)
(* is accounted for.                                                       *)
(***************************************************************************)
EXTENDS Devices, SequenceTheorems, TLAPS

(***************************************************************************)
(* Where the main thread is                                                *)
(***************************************************************************)

\* The steps of disk_image__init and of virtio_blk__init.
InDiskInit == {"disk_image__init", "blkdev__probe", "blk_size", "open", "qcow_probe",
               "raw_image__probe", "close"}
InBlkInit == {"virtio_blk__init", "demu_register_space", "demu_map_io_range"}

\* The item that is counted is the one the thread is in, or, in a cleanup of
\* virtio_blk__init, none.
PlaceInv ==
    \/ pc = "idle" /\ item = 0
    \/ pc = "init" /\ item \in 1 .. 3
    \/ pc \in InDiskInit /\ item = 1
    \/ pc \in InBlkInit /\ item = 2
    \/ pc = "ready" /\ item = 3
    \/ pc = "exit" /\ item \in 1 .. 3
    \/ pc \in {"virtio_blk__exit", "demu_deregister_space"} /\ item \in 0 .. 1
    \/ pc = "disk_image__exit" /\ item = 2
    \/ pc = "dead" /\ item = 1

LEMMA Items ==
    /\ Len(InitItems) = 2 /\ Len(ExitItems) = 2
    /\ InitItems[1] = "disk_image__init" /\ InitItems[2] = "virtio_blk__init"
    /\ ExitItems[1] = "virtio_blk__init" /\ ExitItems[2] = "disk_image__init"
  <1>1. /\ InitItems \in Seq({"disk_image__init", "virtio_blk__init"})
        /\ InitItems[1] = "disk_image__init" /\ InitItems[2] = "virtio_blk__init"
    BY DEF InitItems
  <1>2. Len(InitItems) = 2
    BY DEF InitItems
  <1>3. ExitItems = [i \in 1 .. 2 |-> InitItems[(2 - i) + 1]]
    BY <1>2 DEF ExitItems, Reverse
  <1>4. ExitItems[1] = InitItems[2] /\ ExitItems[2] = InitItems[1]
    BY <1>3
  <1>5. ExitItems \in Seq({"disk_image__init", "virtio_blk__init"})
    <2>1. ExitItems \in [1 .. 2 -> {"disk_image__init", "virtio_blk__init"}]
      BY <1>1, <1>3, SMT
    <2> QED
      BY <2>1, SeqDef
  <1>6. Len(ExitItems) = 2
    BY <1>3, <1>5, LenProperties
  <1> QED
    BY <1>1, <1>2, <1>4, <1>6

\* A call of open goes on to the next step.
LEMMA OpenGoes == \A next : Open(next) => pc' = next
  BY Zenon DEF Open, Go

LEMMA InitPlaceInv == Init => PlaceInv
  BY DEF Init, PlaceInv

LEMMA NextPlaceInv == PlaceInv /\ [Next]_vars => PlaceInv'
  <1> SUFFICES ASSUME PlaceInv, [Next]_vars PROVE PlaceInv'
    OBVIOUS
  <1> USE DEF PlaceInv, InDiskInit, InBlkInit, Go, ItemDone, ItemFailed
  <1>1. ASSUME NEW img \in Images, device_initialize(img) PROVE PlaceInv'
    BY <1>1, SMT DEF device_initialize
  <1>2. CASE init_list__init
    <2>1. /\ pc = "init" /\ item' = item
          /\ pc' = IF item > 2 THEN "ready" ELSE InitItems[item]
      BY <1>2, Items, Zenon DEF init_list__init
    <2> QED
      BY <2>1, Items, SMT
  <1>3. CASE disk_image__open
    BY <1>3, SMT DEF disk_image__open, openVars
  <1>4. CASE blkdev__probe
    BY <1>4, OpenGoes, SMT DEF blkdev__probe
  <1>5. CASE blkdev_size
    BY <1>5, SMT DEF blkdev_size
  <1>6. CASE open
    BY <1>6, OpenGoes, SMT DEF open
  <1>7. CASE qcow_probe
    BY <1>7, SMT DEF qcow_probe
  <1>8. CASE raw_image__probe
    BY <1>8, SMT DEF raw_image__probe
  <1>9. CASE close
    BY <1>9, SMT DEF close
  <1>10. CASE virtio_blk__init_one
    BY <1>10, SMT DEF virtio_blk__init_one
  <1>11. CASE demu_register_space
    BY <1>11, SMT DEF demu_register_space
  <1>12. CASE demu_map_io_range
    BY <1>12, SMT DEF demu_map_io_range
  <1>13. CASE mmio_access
    BY <1>13, SMT DEF mmio_access
  <1>14. CASE device_teardown
    BY <1>14, SMT DEF device_teardown
  <1>15. CASE init_list__exit
    BY <1>15, Items, SMT DEF init_list__exit
  <1>16. CASE virtio_mmio_reset
    BY <1>16, SMT DEF virtio_mmio_reset
  <1>17. CASE virtio_blk__exit
    BY <1>17, SMT DEF virtio_blk__exit
  <1>18. CASE disk_image__exit
    BY <1>18, SMT DEF disk_image__exit
  <1>19. CASE UNCHANGED vars
    BY <1>19, SMT DEF vars
  <1> QED
    BY <1>1, <1>2, <1>3, <1>4, <1>5, <1>6, <1>7, <1>8, <1>9, <1>10, <1>11, <1>12, <1>13, <1>14,
       <1>15, <1>16, <1>17, <1>18, <1>19, Zenon DEF Next, DiskInit, BlkInit, Exit

(***************************************************************************)
(* Wholly there or wholly gone                                             *)
(***************************************************************************)

Device(capacity, callback) == [capacity |-> capacity, callback |-> callback]

\* The one device on the list has no callback yet, or has it.
Listed == \E c : bdevs = <<Device(c, FALSE)>>
Called == \E c : bdevs = <<Device(c, TRUE)>>

\* A list of one element.
LEMMA Singleton ==
    \A x : /\ <<x>> \in Seq({x}) /\ Len(<<x>>) = 1 /\ <<x>>[1] = x /\ DOMAIN <<x>> = 1 .. 1
           /\ Append(<<>>, x) = <<x>> /\ Tail(<<x>>) = <<>>
  OBVIOUS

LEMMA OneElement == ASSUME NEW y PROVE [i \in 1 .. 1 |-> y] = <<y>>
  <1> DEFINE f == [i \in 1 .. 1 |-> y]
  <1>1. f \in Seq({y})
    <2>1. f \in [1 .. 1 -> {y}]
      OBVIOUS
    <2> QED
      BY <2>1, SeqDef
  <1>2. Len(f) = 1
    BY <1>1, LenProperties
  <1>3. \A i \in 1 .. 1 : f[i] = <<y>>[i]
    BY Singleton
  <1> QED
    BY <1>1, <1>2, <1>3, Singleton, SeqEqual

\* The field EXCEPT names has the new value.
LEMMA FieldSet ==
    \A c, t, u : [[capacity |-> c, callback |-> t] EXCEPT !.callback = u]
                     = [capacity |-> c, callback |-> u]
  OBVIOUS

\* virtio_blk__init sets the callback of each device on the list.
LEMMA CallbackSet ==
    Listed /\ bdevs' = [b \in DOMAIN bdevs |-> [bdevs[b] EXCEPT !.callback = TRUE]] => Called'
  <1> SUFFICES ASSUME NEW c, bdevs = <<Device(c, FALSE)>>,
                      bdevs' = [b \in DOMAIN bdevs |-> [bdevs[b] EXCEPT !.callback = TRUE]]
               PROVE  Called'
    BY Zenon DEF Listed
  <1>1. DOMAIN bdevs = 1 .. 1 /\ bdevs[1] = Device(c, FALSE)
    BY Singleton
  <1>2. [Device(c, FALSE) EXCEPT !.callback = TRUE] = Device(c, TRUE)
    BY FieldSet, Zenon DEF Device
  <1>3. bdevs' = [b \in 1 .. 1 |-> Device(c, TRUE)]
    <2>1. \A b \in 1 .. 1 : b = 1
      OBVIOUS
    <2>2. \A b \in 1 .. 1 : [bdevs[b] EXCEPT !.callback = TRUE] = Device(c, TRUE)
      BY <1>1, <1>2, <2>1, Zenon
    <2> QED
      BY <1>1, <2>2, Zenon
  <1>4. bdevs' = <<Device(c, TRUE)>>
    BY <1>3, OneElement
  <1> QED
    BY <1>4 DEF Called

\* How much of the device there is at each step: nothing outside its life, its
\* place on the list first and last, then its space, then Xen's range, then its
\* callback; its thread only while it serves, and until virtio_mmio_reset.
Nothing == bdevs = <<>> /\ memory = {} /\ ranges = {} /\ ~io_thread
Whole == Called /\ memory = {Space} /\ ranges = {Space}
Partial ==
    /\ Called \/ Listed
    /\ memory \subseteq {Space} /\ ranges \subseteq memory

DeviceInv ==
    /\ io_thread \in BOOLEAN
    /\ pc \in {"idle", "disk_image__exit", "virtio_blk__init", "dead"} \cup InDiskInit => Nothing
    /\ (pc = "init" /\ item # 3) \/ (pc = "exit" /\ item # 1) => Nothing
    /\ pc = "demu_register_space" =>
            Listed /\ memory = {} /\ ranges = {} /\ ~io_thread
    /\ pc = "demu_map_io_range" =>
            Listed /\ memory = {Space} /\ ranges = {} /\ ~io_thread
    /\ (pc = "init" /\ item = 3) \/ pc = "ready" \/ (pc = "exit" /\ item = 1) => Whole
    /\ pc = "virtio_blk__exit" => Partial
    /\ pc = "demu_deregister_space" => Partial /\ ~io_thread

LEMMA InitDeviceInv == Init => DeviceInv
  BY DEF Init, DeviceInv, InDiskInit, Nothing

\* No step that leaves the device alone moves between these groups.
LEMMA NextDeviceInv == PlaceInv /\ DeviceInv /\ [Next]_vars => DeviceInv'
  <1> SUFFICES ASSUME PlaceInv, DeviceInv, [Next]_vars PROVE DeviceInv'
    OBVIOUS
  <1> USE DEF PlaceInv, InDiskInit, InBlkInit, Go, ItemDone, ItemFailed, devVars
  <1>0. bdevs' = bdevs => (Called' <=> Called) /\ (Listed' <=> Listed)
    BY DEF Called, Listed
  <1>1. ASSUME \/ \E img \in Images : device_initialize(img)
               \/ DiskInit \/ disk_image__exit
        PROVE  DeviceInv'
    <2>1. UNCHANGED devVars
      BY <1>1, Zenon DEF device_initialize, DiskInit, disk_image__open, blkdev__probe, blkdev_size,
         open, qcow_probe, raw_image__probe, close, disk_image__exit
    <2>2. pc \in {"idle", "disk_image__exit"} \cup InDiskInit
      BY <1>1, Zenon DEF device_initialize, DiskInit, disk_image__open, blkdev__probe, blkdev_size,
         open, qcow_probe, raw_image__probe, close, disk_image__exit
    <2>3. \/ pc' \in {"idle", "dead"} \cup InDiskInit
          \/ pc' = "init" /\ item' # 3
          \/ pc' = "exit" /\ item' # 1
      BY <1>1, OpenGoes, SMT DEF device_initialize, DiskInit, disk_image__open, blkdev__probe,
         blkdev_size, open, qcow_probe, raw_image__probe, close, disk_image__exit
    <2> QED
      BY <1>0, <2>1, <2>2, <2>3, SMT DEF DeviceInv, Nothing, Whole, Partial
  <1>2. CASE init_list__init
    <2>1. /\ UNCHANGED devVars /\ pc = "init" /\ item' = item
          /\ pc' = IF item > 2 THEN "ready" ELSE InitItems[item]
      BY <1>2, Items, Zenon DEF init_list__init
    <2>2. \/ item = 3 /\ pc' = "ready"
          \/ item # 3 /\ pc' \in {"disk_image__init", "virtio_blk__init"}
      BY <2>1, Items, SMT
    <2>3. CASE item = 3
      <3>1. Whole /\ io_thread \in BOOLEAN
        BY <2>1, <2>3, SMT DEF DeviceInv
      <3>2. Whole' /\ io_thread' \in BOOLEAN
        BY <1>0, <2>1, <3>1 DEF Whole
      <3> QED
        BY <2>2, <2>3, <3>2, SMT DEF DeviceInv
    <2>4. CASE item # 3
      <3>1. Nothing /\ io_thread \in BOOLEAN
        BY <2>1, <2>4, SMT DEF DeviceInv
      <3>2. Nothing' /\ io_thread' \in BOOLEAN
        BY <2>1, <3>1 DEF Nothing
      <3> QED
        BY <2>2, <2>4, <3>2, SMT DEF DeviceInv
    <2> QED
      BY <2>3, <2>4
  <1>3. CASE virtio_blk__init_one
    <2>1. /\ pc = "virtio_blk__init" /\ UNCHANGED <<memory, ranges, io_thread>>
          /\ \/ pc' = "demu_register_space" /\ bdevs' = Append(bdevs, Device(disk.size, FALSE))
             \/ pc' = "idle" /\ bdevs' = bdevs
      BY <1>3, Zenon DEF virtio_blk__init_one, Device
    <2>2. Nothing
      BY <2>1, Zenon DEF DeviceInv
    <2>3. pc' = "demu_register_space" => Listed'
      BY <2>1, <2>2, Singleton DEF Nothing, Listed
    <2>4. CASE pc' = "demu_register_space"
      BY <2>1, <2>2, <2>3, <2>4, SMT DEF DeviceInv, Nothing
    <2>5. CASE pc' = "idle"
      <3>1. Nothing'
        BY <2>1, <2>2, <2>5, Zenon DEF Nothing
      <3> QED
        BY <2>1, <2>5, <3>1, SMT DEF DeviceInv
    <2> QED
      BY <2>1, <2>4, <2>5, Zenon
  <1>4. CASE demu_register_space
    <2>1. /\ pc = "demu_register_space" /\ UNCHANGED <<bdevs, ranges, io_thread>>
          /\ \/ pc' = "demu_map_io_range" /\ memory' = memory \cup {Space}
             \/ pc' = "virtio_blk__exit" /\ memory' = memory
      BY <1>4, Zenon DEF demu_register_space
    <2> QED
      BY <1>0, <2>1, SMT DEF DeviceInv, Nothing, Whole, Partial
  <1>5. CASE demu_map_io_range
    <2>1. /\ pc = "demu_map_io_range" /\ UNCHANGED io_thread
          /\ Listed /\ memory = {Space} /\ ranges = {} /\ ~io_thread
      BY <1>5, SMT DEF demu_map_io_range, DeviceInv
    <2>2. CASE pc' = "init"
      <3>1. /\ item' = 3 /\ memory' = memory /\ ranges' = {Space}
            /\ bdevs' = [b \in DOMAIN bdevs |-> [bdevs[b] EXCEPT !.callback = TRUE]]
        BY <1>5, <2>1, <2>2, SMT DEF demu_map_io_range
      <3>2. Called'
        BY <2>1, <3>1, CallbackSet
      <3> QED
        BY <2>1, <2>2, <3>1, <3>2, SMT DEF DeviceInv, Whole, Nothing
    <2>3. CASE pc' # "init"
      <3>1. pc' = "virtio_blk__exit" /\ demu_deregister_space /\ UNCHANGED <<bdevs, ranges>>
        BY <1>5, <2>3, Zenon DEF demu_map_io_range
      <3> QED
        BY <1>0, <2>1, <3>1, SMT DEF DeviceInv, Partial, demu_deregister_space
    <2> QED
      BY <2>2, <2>3
  <1>6. CASE mmio_access
    BY <1>0, <1>6, SMT DEF mmio_access, DeviceInv, Whole, openVars, roundVars
  <1>7. CASE device_teardown
    <2>1. pc = "ready" /\ pc' = "exit" /\ item' = 1 /\ UNCHANGED devVars
      BY <1>7, Zenon DEF device_teardown
    <2>2. Whole /\ io_thread \in BOOLEAN
      BY <2>1, SMT DEF DeviceInv
    <2>3. Whole' /\ io_thread' \in BOOLEAN
      BY <1>0, <2>1, <2>2 DEF Whole
    <2> QED
      BY <2>1, <2>3, SMT DEF DeviceInv
  <1>8. CASE init_list__exit
    <2>1. /\ UNCHANGED devVars /\ pc = "exit"
          /\ \/ item = 1 /\ pc' = "virtio_blk__exit"
             \/ item = 2 /\ pc' = "disk_image__exit"
             \/ item = 3 /\ pc' = "idle"
      BY <1>8, Items, SMT DEF init_list__exit
    <2> QED
      BY <1>0, <2>1, SMT DEF DeviceInv, Nothing, Whole, Partial
  <1>9. CASE virtio_mmio_reset
    <2>1. /\ pc = "virtio_blk__exit" /\ pc' = "demu_deregister_space" /\ io_thread' = FALSE
          /\ UNCHANGED <<bdevs, memory, ranges>>
      BY <1>9, Zenon DEF virtio_mmio_reset
    <2>2. Partial'
      BY <1>0, <2>1, Zenon DEF DeviceInv, Partial
    <2>3. ~io_thread' /\ io_thread' \in BOOLEAN
      BY <2>1, Zenon
    <2> QED
      BY <2>1, <2>2, <2>3, SMT DEF DeviceInv
  <1>10. CASE virtio_blk__exit
    <2>1. /\ pc = "demu_deregister_space" /\ Partial /\ ~io_thread /\ io_thread' = io_thread
          /\ memory' = {s \in memory : s.start # Start}
          /\ ranges' = ranges \ {s \in memory : s.start = Start}
          /\ bdevs' = Tail(bdevs)
          /\ \/ pc' = "idle"
             \/ pc' = "exit" /\ item' # 1
      BY <1>10, SMT DEF virtio_blk__exit, demu_deregister_space, DeviceInv
    <2>2. bdevs' = <<>>
      BY <2>1, Singleton DEF Partial, Called, Listed
    <2>3. memory' = {} /\ ranges' = {}
      BY <2>1 DEF Partial, Space
    <2> QED
      BY <2>1, <2>2, <2>3, SMT DEF DeviceInv, Nothing
  <1>11. CASE UNCHANGED vars
    BY <1>0, <1>11, SMT DEF vars, DeviceInv, Nothing, Whole, Partial
  <1> QED
    BY <1>1, <1>2, <1>3, <1>4, <1>5, <1>6, <1>7, <1>8, <1>9, <1>10, <1>11, Zenon
       DEF Next, BlkInit, Exit

\* Whatever fails while a guest's device is set up, and in whichever round, a
\* device in service is complete and nothing is left of one that is not.
THEOREM DevicesComplete == Spec => []DeviceComplete
  <1>1. DeviceInv => DeviceComplete
    <2> SUFFICES ASSUME DeviceInv PROVE DeviceComplete
      OBVIOUS
    <2>1. Called => Len(bdevs) = 1 /\ bdevs[1].callback
      BY Singleton DEF Called, Device
    <2>2. pc = "ready" => Whole
      BY SMT DEF DeviceInv
    <2>3. pc = "idle" => Nothing
      BY SMT DEF DeviceInv
    <2> QED
      BY <2>1, <2>2, <2>3, Zenon DEF DeviceComplete, Whole, Nothing
  <1> QED
    BY <1>1, InitPlaceInv, NextPlaceInv, InitDeviceInv, NextDeviceInv, PTL DEF Spec

(***************************************************************************)
(* The disk and its descriptor                                             *)
(***************************************************************************)

\* Descriptor f is the one that has been opened in this round, as the image
\* allows.
OpenedNow(f) ==
    /\ f # NoFd /\ f \in DOMAIN fds /\ fds[f] = Flags
    /\ DOMAIN fds = Base \cup {f} /\ f \notin Base

InHand == OpenedNow(fd)
OnDisk == OpenedNow(disk.fd)

\* The operations a disk got say whether the image is read-only.
DiskKind ==
    /\ disk.ops \in Ops
    /\ disk.readonly <=> image.ro \/ disk.ops = "qcow_disk_readonly_ops"
    /\ disk.ops = "raw_image_regular_ops" => ~image.ro
    /\ disk.ops \in {"ro_ops", "ro_ops_nowrite"} => image.ro

WithDisk ==
    \/ pc = "init" /\ item \in 2 .. 3
    \/ pc \in InBlkInit \cup {"ready", "virtio_blk__exit", "demu_deregister_space", "disk_image__exit"}
    \/ pc = "exit" /\ item \in 1 .. 2

\* What a close of the disk leaves open.
Left == IF disk.ops \in CloseOps THEN Base \cup {disk.fd} ELSE Base

\* The steps before an image is open, with a descriptor in hand, with a disk, and
\* after its descriptor may have been closed.
DiskInv ==
    /\ (pc = "init" /\ item = 1) \/ pc \in {"disk_image__init", "blkdev__probe", "open"} =>
            DOMAIN fds = Base /\ disk = NoDisk
    /\ pc \in {"blk_size", "qcow_probe", "raw_image__probe", "close"} => InHand /\ disk = NoDisk
    /\ (pc = "init" /\ item = 1) \/ pc \in {"disk_image__init", "blkdev__probe", "blk_size"} =>
            forgotten = NoFd
    /\ WithDisk => OnDisk /\ DiskKind
    /\ pc = "exit" /\ item = 3 => disk.fd # NoFd /\ DOMAIN fds = Left
    /\ pc = "idle" => DescriptorsGivenBack
    /\ (pc = "init" /\ item # 3) \/ pc \in InDiskInit \cup InBlkInit => ~up
    /\ pc \in {"virtio_blk__exit", "demu_deregister_space"} /\ item = 0 => ~up
    /\ pc \in {"virtio_blk__exit", "demu_deregister_space"} /\ item # 0 => up
    /\ pc \in {"ready", "exit", "disk_image__exit"} => up

LEMMA InitDiskInv == Init => DiskInv
  <1> SUFFICES ASSUME Init PROVE DiskInv
    OBVIOUS
  <1>1. DOMAIN fds = Base
    BY DEF Init, Base
  <1>2. DescriptorsGivenBack
    BY <1>1, Zenon DEF DescriptorsGivenBack, Init
  <1> QED
    BY <1>2, SMT DEF Init, DiskInv, WithDisk, InDiskInit, InBlkInit

LEMMA OpenOpens ==
    ASSUME NEW next, Open(next), UNCHANGED <<image, before, forgotten>>, DOMAIN fds = Base
    PROVE  InHand'
  <1>1. PICK f \in 1 .. MaxFds \ DOMAIN fds :
            /\ fds' = [g \in DOMAIN fds \cup {f} |-> IF g = f THEN Flags ELSE fds[g]]
            /\ fd' = f
    BY Zenon DEF Open
  <1>2. f # NoFd
    BY DevicesAssumption DEF NoFd
  <1>3. DOMAIN fds' = DOMAIN fds \cup {f} /\ fds'[f] = Flags
    BY <1>1
  <1>4. Flags' = Flags /\ Base' = Base
    BY DEF Flags, Base
  <1> QED
    BY <1>1, <1>2, <1>3, <1>4 DEF InHand, OpenedNow

LEMMA DiskMade ==
    ASSUME NEW ops \in Ops, NEW size, disk_image__new(ops, size), InHand,
           UNCHANGED <<image, fds, before, forgotten>>,
           ops = "raw_image_regular_ops" => ~image.ro,
           ops \in {"ro_ops", "ro_ops_nowrite"} => image.ro
    PROVE  OnDisk' /\ DiskKind'
  <1>1. disk' = [fd |-> fd, size |-> size, ops |-> ops,
                 readonly |-> image.ro \/ ops = "qcow_disk_readonly_ops"]
    BY Zenon DEF disk_image__new
  <1>2. disk'.fd = fd /\ disk'.ops = ops
    BY <1>1
  <1>3. disk'.readonly = (image.ro \/ ops = "qcow_disk_readonly_ops")
    BY <1>1
  <1>4. Flags' = Flags /\ Base' = Base
    BY DEF Flags, Base
  <1>5. OnDisk'
    BY <1>2, <1>4, Zenon DEF OnDisk, InHand, OpenedNow
  <1>6. DiskKind'
    BY <1>2, <1>3, Zenon DEF DiskKind
  <1> QED
    BY <1>5, <1>6

LEMMA DiskClosed ==
    ASSUME NEW f \in DOMAIN fds, OpenedNow(f), Close(f), UNCHANGED <<before, forgotten>>
    PROVE  DOMAIN fds' = Base'
  <1>1. DOMAIN fds' = DOMAIN fds \ {f}
    BY DEF Close
  <1>2. Base' = Base
    BY DEF Base
  <1> QED
    BY <1>1, <1>2 DEF OpenedNow

\* A descriptor in hand that is forgotten is one more of those left open.
LEMMA Forgotten ==
    ASSUME InHand, forgotten = NoFd, forgotten' = fd, UNCHANGED <<fds, before>>
    PROVE  DOMAIN fds' = Base'
  BY DEF InHand, OpenedNow, Base

LEMMA NoDiskFd == NoDisk.fd = NoFd
  BY DEF NoDisk

LEMMA NextDiskInv == PlaceInv /\ DiskInv /\ [Next]_vars => DiskInv'
  <1> SUFFICES ASSUME PlaceInv, DiskInv, [Next]_vars PROVE DiskInv'
    OBVIOUS
  <1> USE DEF PlaceInv, InDiskInit, InBlkInit, WithDisk, Go, ItemDone, ItemFailed, openVars, roundVars,
             historyVars
  <1>0. UNCHANGED <<openVars, before, forgotten>> =>
            /\ Base' = Base /\ Left' = Left /\ (InHand' <=> InHand) /\ (OnDisk' <=> OnDisk)
            /\ (DiskKind' <=> DiskKind)
    BY Zenon DEF Base, Left, InHand, OnDisk, OpenedNow, Flags, DiskKind
  \* The disk stays, and only a disk of a device that is not up is in virtio_blk__init.
  <1>d. WithDisk /\ WithDisk' /\ UNCHANGED <<openVars, roundVars>>
            /\ ((pc' = "init" /\ item' # 3) \/ pc' \in InBlkInit => ~up)
            /\ (pc' \in {"virtio_blk__exit", "demu_deregister_space"} /\ item' = 0 => ~up)
            /\ (pc' \in {"virtio_blk__exit", "demu_deregister_space"} /\ item' # 0 => up)
            /\ (pc' \in {"ready", "exit", "disk_image__exit"} => up)
        => DiskInv'
    <2> SUFFICES ASSUME WithDisk, WithDisk', UNCHANGED <<openVars, roundVars>>,
                        (pc' = "init" /\ item' # 3) \/ pc' \in InBlkInit => ~up,
                        pc' \in {"virtio_blk__exit", "demu_deregister_space"} /\ item' = 0 => ~up,
                        pc' \in {"virtio_blk__exit", "demu_deregister_space"} /\ item' # 0 => up,
                        pc' \in {"ready", "exit", "disk_image__exit"} => up
                 PROVE  DiskInv'
      OBVIOUS
    <2>1. OnDisk /\ DiskKind
      BY SMT DEF DiskInv
    <2>2. OnDisk' /\ DiskKind'
      BY <1>0, <2>1, Zenon
    <2> QED
      BY <2>2, SMT DEF DiskInv
  <1>b. WithDisk /\ WithDisk' /\ ~up /\ UNCHANGED <<openVars, roundVars>>
            /\ pc' \notin {"ready", "exit", "disk_image__exit"}
            /\ (pc' \in {"virtio_blk__exit", "demu_deregister_space"} => item' = 0)
        => DiskInv'
    BY <1>d, Zenon
  <1>c. WithDisk /\ ~up /\ pc' = "idle" /\ UNCHANGED <<openVars, roundVars>> => DiskInv'
    <2> SUFFICES ASSUME WithDisk, ~up, pc' = "idle", UNCHANGED <<openVars, roundVars>> PROVE DiskInv'
      OBVIOUS
    <2>1. disk # NoDisk
      BY NoDiskFd, SMT DEF DiskInv, OnDisk, OpenedNow
    <2>2. DOMAIN fds' = Base' \cup {disk'.fd}
      BY <1>0, SMT DEF DiskInv, OnDisk, OpenedNow
    <2>3. disk' # NoDisk /\ ~up'
      BY <2>1, Zenon
    <2>4. DescriptorsGivenBack'
      BY <2>2, <2>3, Zenon DEF DescriptorsGivenBack
    <2> QED
      BY <2>4, SMT DEF DiskInv
  <1>1. ASSUME NEW img \in Images, device_initialize(img) PROVE DiskInv'
    <2>1. pc' = "init" /\ item' = 1 /\ disk' = NoDisk /\ before' = DOMAIN fds /\ fds' = fds /\ ~up'
          /\ forgotten' = NoFd
      BY <1>1, Zenon DEF device_initialize
    <2>2. DOMAIN fds' = Base'
      BY <2>1 DEF Base
    <2> QED
      BY <2>1, <2>2, SMT DEF DiskInv
  <1>2. CASE init_list__init
    <2>1. /\ pc = "init" /\ item' = item /\ UNCHANGED <<openVars, before, forgotten>>
          /\ up' <=> item > 2
          /\ pc' = IF item > 2 THEN "ready" ELSE InitItems[item]
      BY <1>2, Items, Zenon DEF init_list__init
    <2>2. \/ item = 1 /\ pc' = "disk_image__init" /\ ~up'
          \/ item = 2 /\ pc' = "virtio_blk__init" /\ ~up'
          \/ item = 3 /\ pc' = "ready" /\ up'
      BY <2>1, Items, SMT
    <2> QED
      BY <1>0, <2>1, <2>2, SMT DEF DiskInv
  <1>3. CASE disk_image__open
    <2>1. /\ pc = "disk_image__init" /\ UNCHANGED <<openVars, roundVars>>
          /\ pc' \in {"blkdev__probe", "idle"}
      BY <1>3, Zenon DEF disk_image__open
    <2>2. DOMAIN fds' = Base' /\ disk' = NoDisk /\ ~up' /\ forgotten' = NoFd
      BY <1>0, <2>1, SMT DEF DiskInv
    <2>3. pc' = "idle" => DescriptorsGivenBack'
      BY <2>2, Zenon DEF DescriptorsGivenBack
    <2> QED
      BY <2>1, <2>2, <2>3, SMT DEF DiskInv
  <1>4. CASE blkdev__probe
    <2>1. /\ pc = "blkdev__probe" /\ UNCHANGED <<item, image, disk, before, forgotten, up>>
          /\ \/ Open("blk_size")
             \/ pc' = "open" /\ fds' = fds
      BY <1>4, Zenon DEF blkdev__probe
    <2>2. DOMAIN fds = Base /\ disk = NoDisk /\ ~up /\ forgotten = NoFd /\ Base' = Base
      BY <2>1, SMT DEF DiskInv, Base
    <2>3. CASE Open("blk_size")
      BY <2>1, <2>2, <2>3, OpenGoes, OpenOpens, SMT DEF DiskInv
    <2>4. CASE pc' = "open" /\ fds' = fds
      BY <2>1, <2>2, <2>4, SMT DEF DiskInv
    <2> QED
      BY <2>1, <2>3, <2>4
  <1>5. CASE blkdev_size
    <2>1. /\ pc = "blk_size" /\ UNCHANGED <<image, fd, before, up>>
          /\ \/ /\ disk_image__new("blk_dev_ops", image.size) /\ pc' = "init" /\ item' = item + 1
                /\ UNCHANGED <<fds, forgotten>>
             \/ Close(fd) /\ pc' = "open" /\ UNCHANGED <<disk, item, forgotten>>
             \/ forgotten' = fd /\ pc' = "open" /\ UNCHANGED <<fds, disk, item>>
      BY <1>5, Zenon DEF blkdev_size
    <2>2. InHand /\ disk = NoDisk /\ ~up /\ forgotten = NoFd
      BY <2>1, SMT DEF DiskInv
    <2>3. CASE disk_image__new("blk_dev_ops", image.size) /\ pc' = "init" /\ item' = item + 1
               /\ UNCHANGED <<fds, forgotten>>
      <3>1. OnDisk' /\ DiskKind'
        BY <2>1, <2>2, <2>3, DiskMade DEF Ops, RegularOps
      <3> QED
        BY <2>1, <2>2, <2>3, <3>1, SMT DEF DiskInv
    <2>4. CASE Close(fd) /\ pc' = "open" /\ UNCHANGED <<disk, item, forgotten>>
      <3>1. DOMAIN fds' = Base'
        BY <2>1, <2>2, <2>4, DiskClosed, Zenon DEF InHand, OpenedNow
      <3> QED
        BY <2>1, <2>2, <2>4, <3>1, SMT DEF DiskInv
    <2>5. CASE forgotten' = fd /\ pc' = "open" /\ UNCHANGED <<fds, disk, item>>
      <3>1. DOMAIN fds' = Base'
        BY <2>1, <2>2, <2>5, Forgotten, Zenon
      <3> QED
        BY <2>1, <2>2, <2>5, <3>1, SMT DEF DiskInv
    <2> QED
      BY <2>1, <2>3, <2>4, <2>5
  <1>6. CASE open
    <2>1. /\ pc = "open" /\ UNCHANGED <<image, disk, before, forgotten, up>>
          /\ \/ Open("qcow_probe") /\ item' = item
             \/ pc' = "idle" /\ UNCHANGED <<fds, fd>>
      BY <1>6, Zenon DEF open
    <2>2. DOMAIN fds = Base /\ disk = NoDisk /\ ~up /\ Base' = Base
      BY <2>1, SMT DEF DiskInv, Base
    <2>3. CASE Open("qcow_probe") /\ item' = item
      BY <2>1, <2>2, <2>3, OpenGoes, OpenOpens, SMT DEF DiskInv
    <2>4. CASE pc' = "idle" /\ UNCHANGED <<fds, fd>>
      <3>1. DOMAIN fds' = Base' /\ disk' = NoDisk
        BY <2>1, <2>2, <2>4, Zenon
      <3>2. DescriptorsGivenBack'
        BY <2>4, <3>1, Zenon DEF DescriptorsGivenBack
      <3> QED
        BY <2>4, <3>2, SMT DEF DiskInv
    <2> QED
      BY <2>1, <2>3, <2>4
  <1>7. CASE qcow_probe
    <2>1. /\ pc = "qcow_probe" /\ UNCHANGED <<image, fds, fd, before, forgotten, up>>
          /\ \/ disk_image__new("qcow_disk_readonly_ops", image.size) /\ pc' = "init" /\ item' = item + 1
             \/ pc' \in {"raw_image__probe", "dead"} /\ UNCHANGED <<disk, item>>
      BY <1>7, Zenon DEF qcow_probe
    <2>2. InHand /\ disk = NoDisk /\ ~up
      BY <2>1, SMT DEF DiskInv
    <2>3. CASE disk_image__new("qcow_disk_readonly_ops", image.size) /\ pc' = "init" /\ item' = item + 1
      <3>1. OnDisk' /\ DiskKind'
        BY <2>1, <2>2, <2>3, DiskMade DEF Ops, CloseOps
      <3> QED
        BY <2>1, <2>2, <2>3, <3>1, SMT DEF DiskInv
    <2>4. CASE pc' \in {"raw_image__probe", "dead"} /\ UNCHANGED <<disk, item>>
      BY <1>0, <2>1, <2>2, <2>4, SMT DEF DiskInv
    <2> QED
      BY <2>1, <2>3, <2>4
  <1>8. CASE raw_image__probe
    <2>1. /\ pc = "raw_image__probe" /\ UNCHANGED <<image, fds, fd, before, forgotten, up>>
          /\ \/ /\ \E ops \in Ops : \E size :
                      /\ disk_image__new(ops, size)
                      /\ ops = "raw_image_regular_ops" => ~image.ro
                      /\ ops \in {"ro_ops", "ro_ops_nowrite"} => image.ro
                /\ pc' = "init" /\ item' = item + 1
             \/ pc' = "close" /\ UNCHANGED <<disk, item>>
      <3>1. /\ {"raw_image_regular_ops", "ro_ops", "ro_ops_nowrite"} \subseteq Ops
        BY DEF Ops, RegularOps, CloseOps
      <3> QED
        BY <1>8, <3>1, SMT DEF raw_image__probe
    <2>2. InHand /\ disk = NoDisk /\ ~up
      BY <2>1, SMT DEF DiskInv
    <2>3. ASSUME NEW ops \in Ops, NEW size, disk_image__new(ops, size),
                 ops = "raw_image_regular_ops" => ~image.ro,
                 ops \in {"ro_ops", "ro_ops_nowrite"} => image.ro,
                 pc' = "init", item' = item + 1
          PROVE  DiskInv'
      <3>1. OnDisk' /\ DiskKind'
        BY <2>1, <2>2, <2>3, DiskMade
      <3> QED
        BY <2>1, <2>2, <2>3, <3>1, SMT DEF DiskInv
    <2>4. CASE pc' = "close" /\ UNCHANGED <<disk, item>>
      BY <1>0, <2>1, <2>2, <2>4, SMT DEF DiskInv
    <2> QED
      BY <2>1, <2>3, <2>4, Zenon
  <1>9. CASE close
    <2>1. pc = "close" /\ Close(fd) /\ pc' = "idle" /\ UNCHANGED <<image, disk, before, forgotten, up>>
      BY <1>9, Zenon DEF close
    <2>2. InHand /\ disk = NoDisk
      BY <2>1, SMT DEF DiskInv
    <2>3. DOMAIN fds' = Base' /\ disk' = NoDisk
      BY <2>1, <2>2, DiskClosed, Zenon DEF InHand, OpenedNow
    <2>4. DescriptorsGivenBack'
      BY <2>1, <2>3, Zenon DEF DescriptorsGivenBack
    <2> QED
      BY <2>1, <2>4, SMT DEF DiskInv
  <1>10. CASE virtio_blk__init_one
    <2>1. /\ pc = "virtio_blk__init" /\ UNCHANGED <<openVars, roundVars>>
          /\ (pc' = "demu_register_space" /\ item' = item) \/ pc' = "idle"
      BY <1>10, Zenon DEF virtio_blk__init_one
    <2>2. WithDisk /\ ~up /\ (WithDisk' \/ pc' = "idle")
      BY <2>1, SMT DEF DiskInv
    <2> QED
      BY <1>b, <1>c, <2>1, <2>2, Zenon
  <1>11. CASE demu_register_space
    <2>1. /\ pc = "demu_register_space" /\ UNCHANGED <<openVars, roundVars>>
          /\ (pc' = "demu_map_io_range" /\ item' = item) \/ (pc' = "virtio_blk__exit" /\ item' = 0)
      BY <1>11, SMT DEF demu_register_space
    <2>2. WithDisk /\ ~up /\ WithDisk'
      BY <2>1, SMT DEF DiskInv
    <2> QED
      BY <1>b, <2>1, <2>2, Zenon
  <1>12. CASE demu_map_io_range
    <2>1. /\ pc = "demu_map_io_range" /\ UNCHANGED <<openVars, roundVars>>
          /\ (pc' = "init" /\ item' = item + 1) \/ (pc' = "virtio_blk__exit" /\ item' = 0)
      BY <1>12, Zenon DEF demu_map_io_range
    <2>2. WithDisk /\ ~up /\ WithDisk'
      BY <2>1, SMT DEF DiskInv
    <2> QED
      BY <1>b, <2>1, <2>2, Zenon
  <1>13. CASE mmio_access \/ device_teardown
    <2>1. /\ pc = "ready" /\ UNCHANGED <<openVars, roundVars>>
          /\ (pc' = "ready" /\ item' = item) \/ (pc' = "exit" /\ item' = 1)
      BY <1>13, Zenon DEF mmio_access, device_teardown
    <2>2. WithDisk /\ WithDisk' /\ up
      BY <2>1, SMT DEF DiskInv
    <2> QED
      BY <1>d, <2>1, <2>2, SMT
  <1>14. CASE init_list__exit
    <2>1. /\ pc = "exit" /\ UNCHANGED <<openVars, roundVars>>
          /\ \/ item = 1 /\ pc' = "virtio_blk__exit" /\ item' = 1
             \/ item = 2 /\ pc' = "disk_image__exit"
             \/ item = 3 /\ pc' = "idle"
      BY <1>14, Items, SMT DEF init_list__exit
    <2>2. CASE item # 3
      <3>1. WithDisk /\ WithDisk' /\ up
        BY <2>1, <2>2, SMT DEF DiskInv
      <3> QED
        BY <1>d, <2>1, <2>2, <3>1, SMT
    <2>3. CASE item = 3
      <3>1. disk'.fd # NoFd /\ DOMAIN fds' = Left' /\ up' /\ pc' = "idle"
        BY <1>0, <2>1, <2>3, SMT DEF DiskInv
      <3>2. disk' # NoDisk
        BY <3>1, NoDiskFd, Zenon
      <3>3. DescriptorsGivenBack'
        BY <3>1, <3>2, Zenon DEF DescriptorsGivenBack, Left
      <3> QED
        BY <2>1, <2>3, <3>3, SMT DEF DiskInv
    <2> QED
      BY <2>2, <2>3
  <1>15. CASE virtio_mmio_reset
    <2>1. /\ pc = "virtio_blk__exit" /\ pc' = "demu_deregister_space" /\ item' = item
          /\ UNCHANGED <<openVars, roundVars>>
      BY <1>15, Zenon DEF virtio_mmio_reset
    <2>2. WithDisk /\ WithDisk' /\ (item = 0 => ~up) /\ (item # 0 => up)
      BY <2>1, SMT DEF DiskInv
    <2> QED
      BY <1>d, <2>1, <2>2, SMT
  <1>16. CASE virtio_blk__exit
    <2>1. /\ pc = "demu_deregister_space" /\ UNCHANGED <<openVars, roundVars>>
          /\ (item = 0 /\ pc' = "idle") \/ (item # 0 /\ item' = item + 1 /\ pc' = "exit")
      BY <1>16, Zenon DEF virtio_blk__exit
    <2>2. WithDisk /\ (item = 0 => ~up) /\ (item # 0 => up) /\ (pc' = "exit" => WithDisk')
      BY <2>1, SMT DEF DiskInv
    <2>3. CASE item = 0
      BY <1>c, <2>1, <2>2, <2>3, Zenon
    <2>4. CASE item # 0
      BY <1>d, <2>1, <2>2, <2>4, SMT
    <2> QED
      BY <2>3, <2>4
  <1>17. CASE disk_image__exit
    <2>1. /\ pc = "disk_image__exit" /\ pc' = "exit" /\ item' = 3
          /\ UNCHANGED <<image, fd, disk, before, forgotten, up>>
          /\ IF disk.ops \in CloseOps THEN fds' = fds ELSE Close(disk.fd)
      BY <1>17, SMT DEF disk_image__exit
    <2>2. OnDisk /\ up
      BY <2>1, SMT DEF DiskInv
    <2>3. Base' = Base /\ disk'.fd # NoFd
      BY <2>1, <2>2, Zenon DEF Base, OnDisk, OpenedNow
    <2>4. CASE disk.ops \in CloseOps
      <3>1. DOMAIN fds' = Base' \cup {disk'.fd}
        BY <2>1, <2>2, <2>3, <2>4, Zenon DEF OnDisk, OpenedNow
      <3>2. DOMAIN fds' = Left'
        BY <2>1, <2>4, <3>1, Zenon DEF Left
      <3> QED
        BY <2>1, <2>2, <2>3, <3>2, SMT DEF DiskInv
    <2>5. CASE disk.ops \notin CloseOps
      <3>1. DOMAIN fds' = Base'
        BY <2>1, <2>2, <2>5, DiskClosed, Zenon DEF OnDisk, OpenedNow
      <3>2. DOMAIN fds' = Left'
        BY <2>1, <2>5, <3>1, Zenon DEF Left
      <3> QED
        BY <2>1, <2>2, <2>3, <3>2, SMT DEF DiskInv
    <2> QED
      BY <2>4, <2>5
  <1>18. CASE UNCHANGED vars
    <2>1. UNCHANGED <<pc, item, image, fds, fd, disk, before, forgotten, up>>
      BY <1>18, Zenon DEF vars
    <2>2. DescriptorsGivenBack' <=> DescriptorsGivenBack
      BY <2>1, Zenon DEF DescriptorsGivenBack, Base
    <2> QED
      BY <1>0, <2>1, <2>2, SMT DEF DiskInv
  <1> QED
    BY <1>1, <1>2, <1>3, <1>4, <1>5, <1>6, <1>7, <1>8, <1>9, <1>10, <1>11, <1>12, <1>13, <1>14,
       <1>15, <1>16, <1>17, <1>18, Zenon DEF Next, DiskInit, BlkInit, Exit

\* What a read-only image of this round has been opened with.
OpenedReadOnly == image.ro => \A f \in DOMAIN fds \ before : fds[f] = "rdonly"

LEMMA NextOpenedReadOnly == OpenedReadOnly /\ [Next]_vars => OpenedReadOnly'
  <1> SUFFICES ASSUME OpenedReadOnly, [Next]_vars PROVE OpenedReadOnly'
    OBVIOUS
  <1>1. ASSUME NEW img \in Images, device_initialize(img) PROVE OpenedReadOnly'
    <2>1. before' = DOMAIN fds /\ fds' = fds
      BY <1>1, Zenon DEF device_initialize
    <2> QED
      BY <2>1 DEF OpenedReadOnly
  <1>2. ASSUME UNCHANGED <<image, before>>,
               UNCHANGED fds \/ (\E next : Open(next)) \/ (\E c : Close(c))
        PROVE  OpenedReadOnly'
    <2>1. CASE UNCHANGED fds
      BY <1>2, <2>1, Zenon DEF OpenedReadOnly
    <2>2. ASSUME NEW next, Open(next) PROVE OpenedReadOnly'
      <3>1. PICK f : fds' = [g \in DOMAIN fds \cup {f} |-> IF g = f THEN Flags ELSE fds[g]]
        BY <2>2, Zenon DEF Open
      <3> QED
        BY <1>2, <3>1 DEF OpenedReadOnly, Flags
    <2>3. ASSUME NEW c, Close(c) PROVE OpenedReadOnly'
      BY <1>2, <2>3 DEF OpenedReadOnly, Close
    <2> QED
      BY <1>2, <2>1, <2>2, <2>3, Zenon
  <1>3. ASSUME \/ init_list__init \/ BlkInit \/ mmio_access \/ device_teardown
               \/ DiskInit \/ Exit
        PROVE  OpenedReadOnly'
    <2>1. UNCHANGED <<image, before>>
      BY <1>3, Zenon DEF init_list__init, BlkInit, virtio_blk__init_one, demu_register_space,
         demu_map_io_range, mmio_access, device_teardown, Exit, init_list__exit,
         virtio_mmio_reset, virtio_blk__exit, disk_image__exit, DiskInit, disk_image__open,
         blkdev__probe, blkdev_size, open, qcow_probe, raw_image__probe, close, openVars,
         roundVars, historyVars
    <2>2. UNCHANGED fds \/ (\E next : Open(next)) \/ (\E c : Close(c))
      BY <1>3, Zenon DEF init_list__init, BlkInit, virtio_blk__init_one, demu_register_space,
         demu_map_io_range, mmio_access, device_teardown, Exit, init_list__exit,
         virtio_mmio_reset, virtio_blk__exit, disk_image__exit, DiskInit, disk_image__open,
         blkdev__probe, blkdev_size, open, qcow_probe, raw_image__probe, close, openVars
    <2> QED
      BY <1>2, <2>1, <2>2, Zenon
  <1>4. CASE UNCHANGED vars
    <2>1. UNCHANGED <<image, before, fds>>
      BY <1>4, Zenon DEF vars
    <2> QED
      BY <1>2, <2>1, Zenon
  <1> QED
    BY <1>1, <1>3, <1>4, Zenon DEF Next

\* For every kind of image and every way it can have been opened, whatever call
\* fails, what the driver is told by VIRTIO_BLK_F_RO is what happens to its writes,
\* and an image the configuration calls read-only is open for writing nowhere.
THEOREM DiskAsTold == Spec => []ReadOnlyTold
  <1>1. PlaceInv /\ DiskInv /\ OpenedReadOnly => ReadOnlyTold
    <2> SUFFICES ASSUME DiskInv, pc = "ready" PROVE disk.readonly <=> ~WritesLand
      BY Zenon DEF ReadOnlyTold, OpenedReadOnly
    <2>1. OnDisk /\ DiskKind
      BY Zenon DEF DiskInv, WithDisk
    <2>2. fds[disk.fd] = IF image.ro THEN "rdonly" ELSE "rdwr"
      BY <2>1, Zenon DEF OnDisk, OpenedNow, Flags
    <2>3. disk.ops \in {"blk_dev_ops", "raw_image_regular_ops", "ro_ops",
                        "qcow_disk_readonly_ops", "ro_ops_nowrite"}
      BY <2>1, SMT DEF DiskKind, Ops, RegularOps, CloseOps
    <2>4. CASE image.ro
      BY <2>1, <2>2, <2>3, <2>4, SMT DEF DiskKind, WritesLand
    <2>5. CASE ~image.ro
      BY <2>1, <2>2, <2>3, <2>5, SMT DEF DiskKind, WritesLand, WriteOps, RegularOps
    <2> QED
      BY <2>4, <2>5
  <1>2. Init => OpenedReadOnly
    BY DEF Init, OpenedReadOnly
  <1> QED
    BY <1>1, <1>2, InitPlaceInv, NextPlaceInv, InitDiskInv, NextDiskInv, NextOpenedReadOnly, PTL
       DEF Spec

\* For every image, whatever call fails and in whichever round: the disk in service
\* has a descriptor of its own, and a guest leaves behind exactly the descriptor of
\* a disk whose close does not close it, of a disk whose device did not come up,
\* and the one blkdev__probe forgets when disk_image__new has no memory.
THEOREM NoDescriptorLeft == Spec => []DescriptorsGivenBack
  <1>1. DiskInv => DescriptorsGivenBack
    <2> SUFFICES ASSUME DiskInv PROVE DescriptorsGivenBack
      OBVIOUS
    <2>1. CASE pc = "ready"
      <3>1. OnDisk
        BY <2>1, Zenon DEF DiskInv, WithDisk
      <3> QED
        BY <2>1, <3>1, SMT DEF OnDisk, OpenedNow, DescriptorsGivenBack
    <2>2. CASE pc = "idle"
      BY <2>2, Zenon DEF DiskInv
    <2>3. CASE pc \notin {"ready", "idle"}
      BY <2>3, Zenon DEF DescriptorsGivenBack
    <2> QED
      BY <2>1, <2>2, <2>3
  <1> QED
    BY <1>1, InitPlaceInv, NextPlaceInv, InitDiskInv, NextDiskInv, PTL DEF Spec

(***************************************************************************)
(* Type correctness                                                        *)
(***************************************************************************)

\* What opens and closes descriptors, and the rest that DeviceInv does not type.
OpenTypeOK ==
    /\ image \in Images \cup {NoImage}
    /\ DOMAIN fds \subseteq 1 .. MaxFds /\ \A f \in DOMAIN fds : fds[f] \in {"rdonly", "rdwr"}
    /\ fd \in {NoFd} \cup 1 .. MaxFds
    /\ disk.ops \in Ops \cup {"none"}
    /\ forgotten \in {NoFd} \cup 1 .. MaxFds
    /\ up \in BOOLEAN /\ round \in 0 .. Rounds

LEMMA InitOpenTypeOK == Init => OpenTypeOK
  <1> SUFFICES ASSUME Init PROVE OpenTypeOK
    OBVIOUS
  <1>1. DOMAIN <<>> = {}
    OBVIOUS
  <1>2. 0 \in 0 .. Rounds
    BY DevicesAssumption
  <1> QED
    BY <1>1, <1>2 DEF Init, OpenTypeOK, NoDisk

\* The calls on descriptors.
LEMMA OpenTypes ==
    ASSUME OpenTypeOK
    PROVE  /\ \A next : Open(next) => /\ DOMAIN fds' \subseteq 1 .. MaxFds /\ fd' \in 1 .. MaxFds
                                     /\ \A f \in DOMAIN fds' : fds'[f] \in {"rdonly", "rdwr"}
           /\ \A c : Close(c) => /\ DOMAIN fds' \subseteq 1 .. MaxFds
                               /\ \A f \in DOMAIN fds' : fds'[f] \in {"rdonly", "rdwr"}
  BY DEF OpenTypeOK, Open, Close, Flags

LEMMA NextOpenTypeOK == OpenTypeOK /\ [Next]_vars => OpenTypeOK'
  <1> SUFFICES ASSUME OpenTypeOK, [Next]_vars PROVE OpenTypeOK'
    OBVIOUS
  <1>1. ASSUME NEW img \in Images, device_initialize(img) PROVE OpenTypeOK'
    <2>1. /\ image' = img /\ disk' = NoDisk /\ fd' = NoFd /\ round' = round + 1 /\ up' = FALSE
          /\ forgotten' = NoFd /\ round < Rounds /\ UNCHANGED fds
      BY <1>1, Zenon DEF device_initialize
    <2>2. round' \in 0 .. Rounds
      BY <2>1, DevicesAssumption DEF OpenTypeOK
    <2>3. disk'.ops \in Ops \cup {"none"}
      BY <2>1 DEF NoDisk
    <2> QED
      BY <2>1, <2>2, <2>3, Zenon DEF OpenTypeOK
  <1>2. ASSUME init_list__init \/ BlkInit \/ mmio_access \/ device_teardown
                  \/ init_list__exit \/ virtio_mmio_reset \/ virtio_blk__exit
        PROVE  OpenTypeOK'
    <2>1. UNCHANGED <<image, fds, fd, disk, forgotten, round>> /\ up' \in BOOLEAN
      <3>1. UNCHANGED up \/ up' = (item > Len(InitItems))
        BY <1>2, Zenon DEF init_list__init, BlkInit, virtio_blk__init_one, demu_register_space,
           demu_map_io_range, mmio_access, device_teardown, init_list__exit, virtio_mmio_reset,
           virtio_blk__exit, roundVars, historyVars
      <3>2. up' \in BOOLEAN
        <4>1. up \in BOOLEAN
          BY DEF OpenTypeOK
        <4>2. (item > Len(InitItems)) \in BOOLEAN
          OBVIOUS
        <4> QED
          BY <3>1, <4>1, <4>2
      <3>3. UNCHANGED <<image, fds, fd, disk, forgotten, round>>
        BY <1>2, Zenon DEF init_list__init, BlkInit, virtio_blk__init_one, demu_register_space,
           demu_map_io_range, mmio_access, device_teardown, init_list__exit, virtio_mmio_reset,
           virtio_blk__exit, openVars, roundVars, historyVars
      <3> QED
        BY <3>2, <3>3
    <2> QED
      BY <2>1 DEF OpenTypeOK
  <1>3. ASSUME DiskInit \/ disk_image__exit PROVE OpenTypeOK'
    <2>1. UNCHANGED <<image, up, round>>
      BY <1>3, Zenon DEF DiskInit, disk_image__open, blkdev__probe, blkdev_size, open, qcow_probe,
         raw_image__probe, close, disk_image__exit, openVars, roundVars, historyVars
    <2>2. DOMAIN fds' \subseteq 1 .. MaxFds /\ \A f \in DOMAIN fds' : fds'[f] \in {"rdonly", "rdwr"}
      <3>1. UNCHANGED fds \/ (\E next : Open(next)) \/ (\E c : Close(c))
        BY <1>3, Zenon DEF DiskInit, disk_image__open, blkdev__probe, blkdev_size, open, qcow_probe,
           raw_image__probe, close, disk_image__exit, openVars
      <3>2. CASE UNCHANGED fds
        BY <3>2 DEF OpenTypeOK
      <3> QED
        BY <3>1, <3>2, OpenTypes, Zenon
    <2>3. fd' \in {NoFd} \cup 1 .. MaxFds
      <3>1. UNCHANGED fd \/ (\E next : Open(next))
        BY <1>3, Zenon DEF DiskInit, disk_image__open, blkdev__probe, blkdev_size, open, qcow_probe,
           raw_image__probe, close, disk_image__exit, openVars
      <3>2. fd' = fd \/ fd' \in 1 .. MaxFds
        BY <3>1, OpenTypes, Zenon
      <3> QED
        BY <3>2 DEF OpenTypeOK
    <2>4. disk'.ops \in Ops \cup {"none"}
      <3>1. UNCHANGED disk \/ \E ops \in Ops : \E size : disk_image__new(ops, size)
        BY <1>3, Zenon DEF DiskInit, disk_image__open, blkdev__probe, blkdev_size, open, qcow_probe,
           raw_image__probe, close, disk_image__exit, openVars, Ops, RegularOps, CloseOps
      <3> QED
        BY <3>1 DEF OpenTypeOK, disk_image__new
    <2>5. forgotten' \in {NoFd} \cup 1 .. MaxFds
      <3>1. UNCHANGED forgotten \/ forgotten' = fd
        BY <1>3, Zenon DEF DiskInit, disk_image__open, blkdev__probe, blkdev_size, open, qcow_probe,
           raw_image__probe, close, disk_image__exit, roundVars
      <3> QED
        BY <3>1 DEF OpenTypeOK
    <2> QED
      BY <2>1, <2>2, <2>3, <2>4, <2>5 DEF OpenTypeOK
  <1>4. CASE UNCHANGED vars
    BY <1>4 DEF vars, OpenTypeOK
  <1> QED
    BY <1>1, <1>2, <1>3, <1>4, Zenon DEF Next, Exit

\* For every set of images and any number of guests and descriptors, the variables
\* stay in their ranges: the init and exit items are run one after another and no
\* further than the last.
THEOREM TypeCorrect == Spec => []TypeOK
  <1>1. PlaceInv /\ DeviceInv /\ OpenTypeOK => TypeOK
    <2> SUFFICES ASSUME PlaceInv, DeviceInv, OpenTypeOK PROVE TypeOK
      OBVIOUS
    <2>1. item \in 0 .. Len(InitItems) + 1
      BY Items, SMT DEF PlaceInv
    <2>2. io_thread \in BOOLEAN
      BY Zenon DEF DeviceInv
    <2>3. Nothing \/ Partial \/ Whole \/ (Listed /\ memory \subseteq {Space} /\ ranges = {})
      BY SMT DEF PlaceInv, DeviceInv, InBlkInit, InDiskInit
    <2>4. Len(bdevs) <= 1
      <3>1. bdevs = <<>> \/ Listed \/ Called
        BY <2>3, Zenon DEF Nothing, Partial, Whole
      <3>2. Listed \/ Called => Len(bdevs) = 1
        BY Singleton DEF Listed, Called
      <3>3. bdevs = <<>> => Len(bdevs) = 0
        OBVIOUS
      <3>4. Len(bdevs) \in {0, 1}
        BY <3>1, <3>2, <3>3, Zenon
      <3>5. \A n \in {0, 1} : n <= 1
        OBVIOUS
      <3> QED
        BY <3>4, <3>5, Zenon
    <2>5. memory \subseteq {Space} /\ ranges \subseteq {Space}
      BY <2>3 DEF Nothing, Partial, Whole
    <2> QED
      BY <2>1, <2>2, <2>4, <2>5, Zenon DEF OpenTypeOK, TypeOK
  <1> QED
    BY <1>1, InitPlaceInv, NextPlaceInv, InitDeviceInv, NextDeviceInv, InitOpenTypeOK,
       NextOpenTypeOK, PTL DEF Spec
=============================================================================
