----------------------------- MODULE VirtioMmio -----------------------------
(***************************************************************************)
(* The MMIO transport of a virtio-blk device and the life of its queue: the *)
(* registers of virtio/mmio-modern.c and virtio/mmio-legacy.c, one access  *)
(* at a time; the status protocol of virtio/core.c; init_vq and exit_vq of *)
(* virtio/blk.c with the I/O thread they start and join; the removal of    *)
(* the device.  VirtioBlk has the data path and the interrupt registers.   *)
(*                                                                         *)
(* External: the driver, Linux's virtio_mmio.  It may be unbound and bound *)
(* again, fail its probe, or die, after which another one probes.          *)
(***************************************************************************)
EXTENDS FiniteSetsExt, Sequences, Integers

CONSTANTS
    Addrs,          \* where a driver may put its rings, in pages when legacy
    Word,           \* 2^32, scaled down: what a register holds
    PageSize,       \* the guest's
    QueueSize,      \* VIRTIO_BLK_QUEUE_SIZE
    Capacity,       \* of the disk
    HostFeatures,   \* the feature bits get_host_features offers
    DieEarly,       \* the driver may die between QUEUE_READY and DRIVER_OK
    MaxFds          \* bound: eventfds open at a time

ASSUME MmioAssumption ==
    /\ Addrs \subseteq Nat \ {0} /\ Word \in Nat \ {0} /\ PageSize \in Nat \ {0}
    /\ Capacity \in Nat
    /\ DieEarly \in BOOLEAN /\ MaxFds \in Nat

VARIABLES
    \* virtio_mmio_hdr: the registers that only keep what is written, and status
    hdr, status,
    \* virtio_device: legacy, VIRTIO__STATUS_START, features
    legacy, start, features,
    \* virt_queue: vring_addr, the rings mapped at init, enabled
    vringAddr, vring, enabled,
    \* blk_dev: io_done, io_efd and io_thread
    ioDone, ioEfd, ioThread,
    \* the process: open eventfds, the ones that are not 0, and what each I/O
    \* thread reads; 0 while it is at work
    fds, pending, reads,
    \* the main thread: in a join, and what follows it; the registered space
    main, registered,
    \* the driver: its stage, the accesses left of it, what it has read in it,
    \* the features it accepted, its rings; work in the ring
    drv, todo, seen, drvFeatures, drvRings, work

hdrVars == <<hdr, status, legacy, start, features>>
vqVars == <<vringAddr, vring, enabled>>
blkVars == <<ioDone, ioEfd, ioThread, fds, pending, reads>>
devVars == <<hdrVars, vqVars, blkVars, main, registered>>
drvVars == <<drv, todo, seen, drvFeatures, drvRings, work>>
vars == <<devVars, drvVars>>

StatusBits == {"ACKNOWLEDGE", "DRIVER", "FEATURES_OK", "DRIVER_OK", "FAILED"}
Fds == 1 .. MaxFds
Threads == DOMAIN reads

\* Registers that are only stored.
StoredRegs == {"DEVICE_FEATURES_SEL", "DRIVER_FEATURES_SEL", "QUEUE_SEL", "QUEUE_NUM"}
                  \cup (IF legacy THEN {"GUEST_PAGE_SIZE"} ELSE {})

\* vring_addr, by the registers that write it.
AddrRegs == IF legacy THEN {"QUEUE_ALIGN"}
            ELSE {"DESC_LOW", "DESC_HIGH", "AVAIL_LOW", "AVAIL_HIGH", "USED_LOW", "USED_HIGH"}
ZeroAddr == [r \in AddrRegs \cup (IF legacy THEN {"pfn", "pgsize"} ELSE {}) |-> 0]

NoRings == <<>>

Init ==
    /\ legacy \in BOOLEAN
    /\ hdr = [r \in StoredRegs |-> 0] /\ status = {} /\ start = FALSE /\ features = {}
    /\ vringAddr = ZeroAddr /\ vring = NoRings /\ enabled = FALSE
    /\ ioDone = FALSE /\ ioEfd = 0 /\ ioThread = 0
    /\ fds = {} /\ pending = {} /\ reads = <<>>
    /\ main = "idle" /\ registered = TRUE
    /\ drv = "off" /\ todo = <<>> /\ seen = <<>> /\ drvFeatures = {} /\ drvRings = NoRings
    /\ work = FALSE

-----------------------------------------------------------------------------
(* The queue                                                               *)

\* The rings that virtio_init_device_vq finds at vring_addr va: the number of
\* entries, then the place and alignment of a legacy driver's, or the three
\* places, each from its two halves.
RingsAt(va) ==
    IF legacy THEN <<QueueSize, va.pfn * va.pgsize, va.QUEUE_ALIGN>>
    ELSE <<QueueSize, va.DESC_HIGH * Word + va.DESC_LOW, va.AVAIL_HIGH * Word + va.AVAIL_LOW,
           va.USED_HIGH * Word + va.USED_LOW>>

\* The rings are mapped; init_vq makes a new eventfd and a thread that reads it.
init_vq ==
    LET fd == Min(Fds \ fds)
        t == Min(Fds \ Threads)
    IN /\ Fds \ fds # {} /\ Fds \ Threads # {}
       /\ enabled' = TRUE /\ vring' = RingsAt(vringAddr')
       /\ ioDone' = FALSE /\ ioEfd' = fd /\ ioThread' = t
       /\ fds' = fds \cup {fd} /\ pending' = pending \ {fd}
       /\ reads' = [u \in Threads \cup {t} |-> IF u = t THEN fd ELSE reads[u]]

\* What memset leaves of the queue.
Zeroed == vringAddr' = ZeroAddr /\ vring' = NoRings /\ enabled' = FALSE

\* mutant: nobody wakes the thread
exit_vq_silent(next) ==
    IF enabled
    THEN /\ ioDone' = TRUE
         /\ main' = next
         /\ UNCHANGED <<vqVars, ioEfd, ioThread, fds, pending, reads>>
    ELSE Zeroed /\ main' = "idle" /\ UNCHANGED blkVars

\* virtio_exit_vq and exit_vq up to pthread_join: a queue that is not enabled
\* is only cleared.
exit_vq(next) ==
    IF enabled
    THEN /\ ioDone' = TRUE /\ pending' = pending \cup {ioEfd}
         /\ main' = next
         /\ UNCHANGED <<vqVars, ioEfd, ioThread, fds, reads>>
    ELSE Zeroed /\ main' = "idle" /\ UNCHANGED blkVars

\* mutant: the join is not waited for
joined_early ==
    /\ main \in {"join", "join_exit"}
    /\ main' = "idle"
    /\ fds' = fds \ {ioEfd}
    /\ Zeroed
    /\ registered' = (main = "join")
    /\ UNCHANGED <<hdrVars, ioDone, ioEfd, ioThread, pending, reads, drvVars>>

\* mutant: the queue is not cleared
joined_kept ==
    /\ main \in {"join", "join_exit"}
    /\ ioThread \notin Threads
    /\ main' = "idle"
    /\ fds' = fds \ {ioEfd}
    /\ vring' = NoRings /\ UNCHANGED <<vringAddr, enabled>>
    /\ registered' = (main = "join")
    /\ UNCHANGED <<hdrVars, ioDone, ioEfd, ioThread, pending, reads, drvVars>>

\* The thread has ended: close the eventfd, unmap the rings, clear the queue;
\* virtio_mmio_exit goes on to deregister the space.
joined ==
    /\ main \in {"join", "join_exit"}
    /\ ioThread \notin Threads
    /\ main' = "idle"
    /\ fds' = fds \ {ioEfd}
    /\ Zeroed
    /\ registered' = (main = "join")
    /\ UNCHANGED <<hdrVars, ioDone, ioEfd, ioThread, pending, reads, drvVars>>

\* virtio_mmio_exit, from device_teardown: reset, then deregister.
virtio_mmio_exit ==
    /\ main = "idle" /\ registered
    /\ exit_vq("join_exit")
    /\ registered' = enabled
    /\ UNCHANGED <<hdrVars, drvVars>>

-----------------------------------------------------------------------------
(* virtio_blk_thread                                                       *)

\* read of the eventfd returns.
io_read(t) ==
    /\ reads[t] \in pending
    /\ pending' = pending \ {reads[t]}
    /\ reads' = [reads EXCEPT ![t] = 0]
    /\ UNCHANGED <<hdrVars, vqVars, ioDone, ioEfd, ioThread, fds, main, registered, drvVars>>

\* virtio_blk_do_io, unless io_done is set; the loop of virtio_blk_thread ends
\* by the same flag, or reads the eventfd of the device again.
io_work(t) ==
    /\ reads[t] = 0
    /\ IF ioDone
       THEN /\ reads' = [u \in Threads \ {t} |-> reads[u]]
            /\ UNCHANGED work
       ELSE /\ reads' = [reads EXCEPT ![t] = ioEfd]
            /\ work' = FALSE
    /\ UNCHANGED <<hdrVars, vqVars, ioDone, ioEfd, ioThread, fds, pending, main, registered, drv,
                   todo, seen, drvFeatures, drvRings>>

-----------------------------------------------------------------------------
(* Registers                                                               *)

\* mutant: the low window whatever is selected
DeviceFeatures_low(high) == HostFeatures

\* DEVICE_FEATURES: the window of 32 bits that is selected.
DeviceFeatures(high) ==
    CASE hdr.DEVICE_FEATURES_SEL = 0 -> HostFeatures
      [] hdr.DEVICE_FEATURES_SEL = 1 -> high
      [] OTHER -> {}

\* virtio_mmio_config_in of a modern device, which offers two more features.
config_in_modern(reg) ==
    CASE reg = "VERSION" -> 2
      [] reg = "STATUS" -> status
      [] reg = "DEVICE_FEATURES" -> DeviceFeatures({"VERSION_1", "ACCESS_PLATFORM"})
      [] reg = "QUEUE_NUM_MAX" -> QueueSize
      [] reg = "QUEUE_READY" -> IF enabled THEN 1 ELSE 0

\* virtio_mmio_config_in of a legacy device.
config_in_legacy(reg) ==
    CASE reg = "VERSION" -> 1
      [] reg = "STATUS" -> status
      [] reg = "DEVICE_FEATURES" -> DeviceFeatures({})
      [] reg = "QUEUE_NUM_MAX" -> QueueSize
      [] reg = "QUEUE_PFN" -> vringAddr.pfn

\* virtio_read_config, for the capacity.
virtio_read_config(reg) ==
    IF reg = "CONFIG_LOW" THEN Capacity % Word ELSE Capacity \div Word

config_in(reg) ==
    IF reg \in {"CONFIG_LOW", "CONFIG_HIGH"} THEN virtio_read_config(reg)
    ELSE IF legacy THEN config_in_legacy(reg) ELSE config_in_modern(reg)

\* mutant: STOP is only a hint
virtio_notify_status_no_reset(v) ==
    /\ status' = v
    /\ start' = IF "DRIVER_OK" \in v THEN TRUE ELSE IF v = {} THEN FALSE ELSE start
    /\ UNCHANGED <<main, vqVars, blkVars>>

\* virtio_notify_status: DRIVER_OK starts the device; a status of 0 stops a
\* started one and resets its queue.  virtio-blk does nothing for START and
\* STOP; swapping its configuration for SWAB changes nothing between equal byte
\* orders.
virtio_notify_status(v) ==
    /\ status' = v
    /\ \/ /\ "DRIVER_OK" \in v
          /\ start' = TRUE
          /\ UNCHANGED <<main, vqVars, blkVars>>
       \/ /\ v = {} /\ start
          /\ start' = FALSE
          /\ exit_vq("join")
       \/ /\ IF v = {} THEN ~start ELSE "DRIVER_OK" \notin v
          /\ UNCHANGED <<start, main, vqVars, blkVars>>

\* virtio_set_guest_features keeps what it has; the high window is only looked at.
virtio_set_guest_features(v) ==
    features' = IF hdr.DRIVER_FEATURES_SEL = 0 THEN features \cup v ELSE features

\* A half of the address of a ring, or the alignment of a legacy driver's.
set_vring_addr(reg, v) == vringAddr' = [vringAddr EXCEPT ![reg] = v]

\* mutant: the eventfd is not written
notify_vq_lost == UNCHANGED pending
\* A driver's kick wakes the I/O thread.
notify_vq == pending' = pending \cup {ioEfd}

\* The queue is enabled where vring_addr says, or disabled.
set_queue(v) ==
    \/ v # 0 /\ init_vq /\ UNCHANGED main
    \/ v = 0 /\ exit_vq("join")

\* Registers that both kinds of device have; INTERRUPT_ACK is in VirtioBlk.
config_out_both(reg, v) ==
    \/ /\ reg \in StoredRegs
       /\ hdr' = [hdr EXCEPT ![reg] = v]
       /\ UNCHANGED <<status, start, features, vqVars, blkVars, main>>
    \/ /\ reg = "STATUS"
       /\ virtio_notify_status(v)
       /\ UNCHANGED <<hdr, features>>
    \/ /\ reg = "DRIVER_FEATURES"
       /\ virtio_set_guest_features(v)
       /\ UNCHANGED <<hdr, status, start, vqVars, blkVars, main>>
    \/ /\ reg \in AddrRegs
       /\ set_vring_addr(reg, v)
       /\ UNCHANGED <<hdr, status, start, features, vring, enabled, blkVars, main>>
    \/ /\ reg = "QUEUE_NOTIFY"
       /\ notify_vq
       /\ UNCHANGED <<hdr, status, start, features, vqVars, ioDone, ioEfd, ioThread, fds, reads,
                      main>>

\* virtio_mmio_config_out of a modern device.
config_out_modern(reg, v) ==
    \/ config_out_both(reg, v)
    \/ /\ reg = "QUEUE_READY"
       /\ v # 0 => UNCHANGED vringAddr
       /\ set_queue(v)
       /\ UNCHANGED <<hdr, status, start, features>>

\* virtio_mmio_config_out of a legacy device, whose QUEUE_PFN takes the page size
\* along.
config_out_legacy(reg, v) ==
    \/ config_out_both(reg, v)
    \/ /\ reg = "QUEUE_PFN"
       /\ v # 0 => vringAddr' = [vringAddr EXCEPT !.pfn = v, !.pgsize = hdr.GUEST_PAGE_SIZE]
       /\ set_queue(v)
       /\ UNCHANGED <<hdr, status, start, features>>

config_out(reg, v) ==
    /\ \/ legacy /\ config_out_legacy(reg, v)
       \/ ~legacy /\ config_out_modern(reg, v)
    /\ UNCHANGED <<legacy, registered>>

\* The next access of the driver, which the main thread handles when it is not in
\* another and finds the device's memory space.
access ==
    /\ todo # <<>> /\ main = "idle" /\ registered
    /\ todo' = Tail(todo)
    /\ LET a == Head(todo)
       IN \/ a.write /\ config_out(a.reg, a.val) /\ UNCHANGED seen
          \/ ~a.write /\ seen' = Append(seen, config_in(a.reg)) /\ UNCHANGED devVars
    /\ UNCHANGED <<drv, drvFeatures, drvRings, work>>

-----------------------------------------------------------------------------
(* The driver                                                              *)

Write(reg, v) == [write |-> TRUE, reg |-> reg, val |-> v]
Read(reg) == [write |-> FALSE, reg |-> reg]
QueueReg == IF legacy THEN "QUEUE_PFN" ELSE "QUEUE_READY"

\* The next stage, with nothing read yet.
Stage(next, accesses) == drv' = next /\ todo' = accesses /\ seen' = <<>>

\* The stage before is over.
Ended(stage) == drv = stage /\ todo = <<>>

\* The accesses of a driver that says how large its pages are, and resets the
\* device, ...
Identify ==
    IF legacy
    THEN <<Read("VERSION"), Write("GUEST_PAGE_SIZE", PageSize),
           Write("STATUS", {}), Write("STATUS", {"ACKNOWLEDGE"})>>
    ELSE <<Read("VERSION"), Write("STATUS", {}), Write("STATUS", {"ACKNOWLEDGE"})>>

\* ... reads both windows of the features offered, ...
Negotiate ==
    <<Write("STATUS", {"ACKNOWLEDGE", "DRIVER"}),
      Write("DEVICE_FEATURES_SEL", 1), Read("DEVICE_FEATURES"),
      Write("DEVICE_FEATURES_SEL", 0), Read("DEVICE_FEATURES")>>

\* ... accepts fs of them, and all of the high window, ...
Accept(high, fs) ==
    IF legacy
    THEN <<Write("DRIVER_FEATURES_SEL", 1), Write("DRIVER_FEATURES", high),
           Write("DRIVER_FEATURES_SEL", 0), Write("DRIVER_FEATURES", fs)>>
    ELSE <<Write("DRIVER_FEATURES_SEL", 1), Write("DRIVER_FEATURES", high),
           Write("DRIVER_FEATURES_SEL", 0), Write("DRIVER_FEATURES", fs),
           Write("STATUS", {"ACKNOWLEDGE", "DRIVER", "FEATURES_OK"}), Read("STATUS")>>

\* ... looks for the queue, ...
FindQueue == <<Write("QUEUE_SEL", 0), Read(QueueReg)>>

\* ... and sets it up with rings at a.
SetUp(a) ==
    IF legacy
    THEN <<Read("CONFIG_LOW"), Read("CONFIG_HIGH"), Read("QUEUE_NUM_MAX"),
           Write("QUEUE_NUM", QueueSize), Write("QUEUE_ALIGN", PageSize), Write("QUEUE_PFN", a)>>
    ELSE <<Read("CONFIG_LOW"), Read("CONFIG_HIGH"), Read("QUEUE_NUM_MAX"),
           Write("QUEUE_NUM", QueueSize),
           Write("DESC_LOW", a % Word), Write("DESC_HIGH", a \div Word),
           Write("AVAIL_LOW", (a + 1) % Word), Write("AVAIL_HIGH", (a + 1) \div Word),
           Write("USED_LOW", (a + 2) % Word), Write("USED_HIGH", (a + 2) \div Word),
           Write("QUEUE_READY", 1)>>

\* A driver whose probe fails deletes the queue and sets FAILED; ...
Ok == {"ACKNOWLEDGE", "DRIVER"} \cup (IF legacy THEN {} ELSE {"FEATURES_OK"})
GiveUp == <<Write("QUEUE_SEL", 0), Write(QueueReg, 0), Write("STATUS", Ok \cup {"FAILED"})>>

\* ... one that is unbound resets the device and deletes the queue.
Unbind == <<Write("STATUS", {}), Write("QUEUE_SEL", 0), Write(QueueReg, 0),
            Write("STATUS", {"ACKNOWLEDGE"})>>

\* The driver is loaded.
probe ==
    /\ drv = "off"
    /\ Stage("probe", Identify)
    /\ drvFeatures' = {} /\ drvRings' = NoRings
    /\ UNCHANGED <<devVars, work>>

bind ==
    /\ Ended("probe") \/ Ended("removed")
    /\ Stage("negotiate", Negotiate)
    /\ UNCHANGED <<devVars, drvFeatures, drvRings, work>>

\* It accepts some of them; a modern one all of the high window.
accept(fs) ==
    /\ Ended("negotiate") /\ fs \subseteq seen[2]
    /\ ~legacy => "VERSION_1" \in seen[1]
    /\ drvFeatures' = fs
    /\ Stage("features", Accept(seen[1], fs))
    /\ UNCHANGED <<devVars, drvRings, work>>

find_vq ==
    /\ Ended("features")
    /\ ~legacy => "FEATURES_OK" \in seen[1]
    /\ Stage("queue", FindQueue)
    /\ UNCHANGED <<devVars, drvFeatures, drvRings, work>>

\* The rings begin at a.  A queue that is in use is not the driver's: it gives up.
setup_vq(a) ==
    /\ Ended("queue") /\ seen[1] = 0
    /\ drvRings' = IF legacy THEN <<QueueSize, a * PageSize, PageSize>>
                   ELSE <<QueueSize, a, a + 1, a + 2>>
    /\ Stage("ready", SetUp(a))
    /\ UNCHANGED <<devVars, drvFeatures, work>>

driver_ok ==
    /\ Ended("ready")
    /\ drv' = "bound" /\ todo' = <<Write("STATUS", Ok \cup {"DRIVER_OK"})>>
    /\ UNCHANGED <<devVars, seen, drvFeatures, drvRings, work>>

\* The rest of the probe fails.
probe_fails ==
    /\ Ended("ready")
    /\ Stage("failed", GiveUp)
    /\ UNCHANGED <<devVars, drvFeatures, drvRings, work>>

\* Something new in the ring.
kick ==
    /\ Ended("bound")
    /\ work' = TRUE
    /\ todo' = <<Write("QUEUE_NOTIFY", 0)>>
    /\ UNCHANGED <<devVars, drv, seen, drvFeatures, drvRings>>

\* The driver is unbound.
remove ==
    /\ Ended("bound")
    /\ work' = FALSE
    /\ Stage("removed", Unbind)
    /\ UNCHANGED <<devVars, drvFeatures, drvRings>>

\* The driver goes, or dies without a word.
gone ==
    /\ \/ Ended("removed") \/ Ended("failed")
       \/ drv # "off" /\ (DieEarly \/ ~enabled \/ start \/ main # "idle")
    /\ Stage("off", <<>>)
    /\ work' = FALSE
    /\ UNCHANGED <<devVars, drvFeatures, drvRings>>

-----------------------------------------------------------------------------
Probe ==
    \/ bind \/ find_vq \/ driver_ok
    \/ (\E fs \in SUBSET HostFeatures : accept(fs))
    \/ (\E a \in Addrs : setup_vq(a))

IoThread(t) == io_read(t) \/ io_work(t)

Next ==
    \/ access \/ probe \/ Probe \/ probe_fails \/ kick \/ remove \/ gone
    \/ joined \/ virtio_mmio_exit
    \/ \E t \in Threads : IoThread(t)

\* The threads run, and a driver that probes goes on with it.
Fairness ==
    /\ WF_vars(joined)
    /\ \A t \in Fds : WF_vars(t \in Threads /\ IoThread(t))
    /\ WF_vars(access) /\ WF_vars(Probe)

Safety == Init /\ [][Next]_vars
Spec == Safety /\ Fairness
-----------------------------------------------------------------------------
(* Properties                                                              *)

TypeOK ==
    /\ legacy \in BOOLEAN /\ status \in SUBSET StatusBits
    /\ DOMAIN hdr = StoredRegs /\ DOMAIN vringAddr = DOMAIN ZeroAddr
    /\ start \in BOOLEAN /\ features \in SUBSET HostFeatures
    /\ enabled \in BOOLEAN /\ ioDone \in BOOLEAN
    /\ ioEfd \in {0} \cup Fds /\ ioThread \in {0} \cup Fds
    /\ fds \in SUBSET Fds /\ pending \in SUBSET Fds
    /\ Threads \subseteq Fds /\ \A t \in Threads : reads[t] \in {0} \cup fds
    /\ main \in {"idle", "join", "join_exit"} /\ registered \in BOOLEAN
    /\ drvFeatures \in SUBSET HostFeatures /\ work \in BOOLEAN

\* Between two accesses an enabled queue has one I/O thread, one eventfd, which
\* that thread reads, and rings; a queue that is not enabled, the one of a removed
\* device too, has left nothing behind: no thread, no eventfd, no mapping.
QueueHasOneThread ==
    main = "idle" =>
        IF enabled
        THEN /\ Threads = {ioThread} /\ fds = {ioEfd} /\ reads[ioThread] \in {0, ioEfd}
             /\ ~ioDone /\ registered
             /\ vring # NoRings
        ELSE Threads = {} /\ fds = {} /\ vring = NoRings

\* Whatever the drivers before it have left in the registers, a driver finds the
\* queue idle once it has reset the device, and the rings the device uses are its
\* own: each at the place of its two halves, or of its page.
FreshQueue ==
    /\ drv \in {"negotiate", "features", "queue"} /\ main = "idle" => ~enabled
    /\ drv = "bound" /\ main = "idle" /\ registered => vring = drvRings

\* What a driver reads through the windows and the halves is what the device has,
\* and what it accepts the device works with.
DriverTold ==
    /\ Ended("negotiate") =>
           seen = <<IF legacy THEN {} ELSE {"VERSION_1", "ACCESS_PLATFORM"}, HostFeatures>>
    /\ drv = "bound" => drvFeatures \subseteq features /\ seen[2] * Word + seen[1] = Capacity

\* A reset, a queue being disabled and the removal of the device all end.
JoinReturns == main # "idle" ~> main = "idle"

\* What a driver has told the device of is served, unless the queue goes away.
KickServed == work ~> ~work \/ drv # "bound" \/ ~registered
=============================================================================
