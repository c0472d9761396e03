----------------------------- MODULE VirtioBlk -----------------------------
(***************************************************************************)
(* The virtio-blk data path: the request queue shared with the guest, the  *)
(* I/O thread (virtio_blk_thread), the main thread that serves the guest's *)
(* MMIO accesses, and a conforming guest driver.                           *)
(*                                                                         *)
(* Each action is one step of one thread between two accesses to state     *)
(* another thread or the guest can see.  The interrupt_state register is   *)
(* updated by both threads with plain |= and &=, so the update that clears  *)
(* it is a load and a store.  Ring accesses are sequentially consistent: the xen_mb,    *)
(* xen_wmb and xen_rmb calls of the code separate them.                    *)
(*                                                                         *)
(* The driver is not part of the repository.  It is modelled from the      *)
(* protocol the code serves and from the way Linux's virtio_ring,          *)
(* virtio_mmio and virtio_blk drivers use it: a submitting context and an  *)
(* interrupt handler, running concurrently.                                *)
(***************************************************************************)
EXTENDS Vring, Sequences, FiniteSets

CONSTANTS
    Types,          \* request types the driver submits
    Outcomes,       \* what the disk image may answer: "ok", "err"
    FeatureSets,    \* the feature sets (bit numbers) a driver may accept
    AckZero,        \* the driver writes INTERRUPT_ACK even after reading 0
    BatchMax,       \* requests added between two kicks
    WrapMax,        \* used entries the device may publish without an interrupt
    MayReset        \* the driver may reset the device

VIRTIO_BLK_F_SEG_MAX == 2
VIRTIO_BLK_F_RO == 5
VIRTIO_BLK_F_FLUSH == 9
VIRTIO_RING_F_INDIRECT_DESC == 28
VIRTIO_RING_F_EVENT_IDX == 29

\* What the device offers; RO only for a read-only disk.
get_host_features == {VIRTIO_BLK_F_SEG_MAX, VIRTIO_BLK_F_FLUSH, VIRTIO_BLK_F_RO,
                      VIRTIO_RING_F_EVENT_IDX, VIRTIO_RING_F_INDIRECT_DESC}

\* The bits that are set in the number 29: what features &
\* VIRTIO_RING_F_EVENT_IDX tests, as the constant is a bit number.
EventIdxMask == {0, 2, 3, 4}

RequestTypes == {"IN", "OUT", "FLUSH", "GET_ID", "OTHER"}

ASSUME BlkAssumption ==
    /\ Types # {} /\ Types \subseteq RequestTypes
    /\ Outcomes # {} /\ Outcomes \subseteq {"ok", "err"}
    /\ FeatureSets # {} /\ FeatureSets \subseteq SUBSET get_host_features
    /\ AckZero \in BOOLEAN
    /\ MayReset \in BOOLEAN
    /\ BatchMax \in 1 .. IdxMod - 1
    /\ WrapMax \in 1 .. IdxMod

VARIABLES
    \* guest memory shared with the device
    availRing,          \* avail->ring
    availIdx,           \* avail->idx
    noInterrupt,        \* avail->flags & VRING_AVAIL_F_NO_INTERRUPT
    usedEvent,          \* vring_used_event
    usedRing,           \* used->ring (ids)
    usedIdx,            \* used->idx
    availEvent,         \* vring_avail_event
    reqType,            \* type field of the request header of a head
    reqStatus,          \* status byte of the request of a head
    \* guest driver
    drvFeatures,        \* features it accepted
    free,               \* heads it may use
    numAdded,           \* requests added since the last kick decision
    lastUsed,           \* next used entry it will look at
    subPc,              \* submitting context
    irqPc, irqStatus,   \* interrupt handler and the status it read
    \* struct virtio_device, struct virt_queue
    features, enabled, useEventIdx, lastAvail, lastSignalled,
    \* struct blk_dev and its I/O thread
    ioDone, efd, ioPc, ioHead, mapped, lost,
    \* struct virtio_mmio, the main thread, the interrupt line
    intState, mainPc, mainIsr, irq,
    \* what the past has left: a request of an earlier binding still has its buffers
    \* mapped, the disk has failed one of an earlier binding; an acknowledge of 0
    \* has erased the VRING bit and the driver has not looked at its ring since
    stale, dropped, erased

ringVars == <<availRing, availIdx, noInterrupt, usedEvent, usedRing, usedIdx,
              availEvent, reqType, reqStatus>>
subVars == <<drvFeatures, free, numAdded, subPc>>
irqVars == <<lastUsed, irqPc, irqStatus>>
vqVars == <<features, enabled, useEventIdx, lastAvail, lastSignalled>>
ioVars == <<ioDone, efd, ioPc, ioHead, mapped, lost>>
mmioVars == <<intState, mainPc, mainIsr, irq>>
pastVars == <<stale, dropped, erased>>
vars == <<ringVars, subVars, irqVars, vqVars, ioVars, mmioVars, pastVars>>

\* the driver negotiated the event index
DrvEventIdx == VIRTIO_RING_F_EVENT_IDX \in drvFeatures

IoPcs == {"none", "loop", "read", "avail_event", "avail_idx", "request",
          "used_elem", "used_idx", "should_signal", "signal", "irq",
          "exited"}
SubPcs == {"down", "idle", "added", "notify", "reset"}
IrqPcs == {"off", "status", "ack", "more_used", "drain", "enable", "recheck"}

\* The process has started, the device is registered and no driver bound yet.
Init ==
    /\ availRing = [s \in Heads |-> 0]
    /\ usedRing = [s \in Heads |-> 0]
    /\ availIdx = 0 /\ usedIdx = 0 /\ usedEvent = 0 /\ availEvent = 0
    /\ noInterrupt = FALSE
    /\ reqType \in [Heads -> {CHOOSE t \in Types : TRUE}]
    /\ reqStatus = [h \in Heads |-> "none"]
    /\ drvFeatures = {} /\ free = Heads /\ numAdded = 0 /\ lastUsed = 0
    /\ subPc = "down" /\ irqPc = "off" /\ irqStatus = FALSE
    /\ features = {} /\ enabled = FALSE /\ useEventIdx = FALSE
    /\ lastAvail = 0 /\ lastSignalled = 0
    /\ ioDone = FALSE /\ efd = FALSE /\ ioPc = "none" /\ ioHead = 0
    /\ mapped = {} /\ lost = {}
    /\ intState = FALSE /\ mainPc = "idle" /\ mainIsr = FALSE /\ irq = FALSE
    /\ stale = FALSE /\ dropped = FALSE /\ erased = FALSE

-----------------------------------------------------------------------------
(* The guest driver: submitting context                                    *)

\* popped and neither returned nor dropped
InService == IF ioPc \in {"request", "used_elem", "used_idx"} THEN {ioHead} ELSE {}

\* Bound on the workload: the device publishes at most WrapMax used entries
\* between two interrupts.  (lastSignalled is only moved by an interrupt; when
\* the used index goes all the way round without one, should_signal cannot
\* tell a full circle from nothing.)
WithinWrap ==
    useEventIdx => IdxSub(usedIdx, lastSignalled) + IdxSub(availIdx, lastAvail)
                     + Cardinality(InService) < WrapMax

\* virtqueue_add: the ring entry, then the index, under the driver's lock.
virtqueue_add(h, t) ==
    /\ subPc \in {"idle", "added"}
    /\ h \in free
    /\ numAdded < BatchMax
    /\ WithinWrap
    /\ free' = free \ {h}
    /\ reqType' = [reqType EXCEPT ![h] = t]
    /\ reqStatus' = [reqStatus EXCEPT ![h] = "none"]
    /\ availRing' = [availRing EXCEPT ![Slot(availIdx)] = h]
    /\ availIdx' = IdxInc(availIdx)
    /\ numAdded' = numAdded + 1
    /\ subPc' = "added"
    /\ UNCHANGED <<noInterrupt, usedEvent, usedRing, usedIdx, availEvent, drvFeatures,
                   irqVars, vqVars, ioVars, mmioVars, pastVars>>

\* virtqueue_kick_prepare: the driver notifies when the device asked for it.
\* The device never sets VRING_USED_F_NO_NOTIFY.
virtqueue_kick_prepare ==
    /\ subPc = "added"
    /\ numAdded' = 0
    /\ LET old == IdxSub(availIdx, numAdded)
       IN subPc' = IF DrvEventIdx => vring_need_event(availEvent, availIdx, old)
                   THEN "notify" ELSE "idle"
    /\ UNCHANGED <<ringVars, drvFeatures, free, irqVars, vqVars, ioVars, mmioVars, pastVars>>

-----------------------------------------------------------------------------
(* The guest driver: interrupt handler                                     *)

\* The interrupt line is edge-triggered: taking it clears the latch.
vm_interrupt ==
    /\ irqPc = "off" /\ irq
    /\ irq' = FALSE
    /\ irqPc' = "status"
    /\ UNCHANGED <<ringVars, subVars, lastUsed, irqStatus, vqVars, ioVars, intState,
                   mainPc, mainIsr, pastVars>>

\* vring_interrupt: the callback runs, and disables callbacks, only when the
\* used ring has something new.
vring_interrupt ==
    /\ irqPc = "more_used"
    /\ \/ /\ usedIdx = lastUsed
          /\ irqPc' = "off" /\ UNCHANGED noInterrupt
       \/ /\ usedIdx # lastUsed
          /\ irqPc' = "drain" /\ noInterrupt' = ~DrvEventIdx
    /\ UNCHANGED <<availRing, availIdx, usedEvent, usedRing, usedIdx, availEvent, reqType,
                   reqStatus, subVars, lastUsed, irqStatus, vqVars, ioVars, mmioVars, pastVars>>

\* virtqueue_get_buf until the used ring is empty.
virtqueue_get_buf ==
    /\ irqPc = "drain"
    /\ \/ /\ usedIdx # lastUsed
          /\ free' = free \cup {usedRing[Slot(lastUsed)]}
          /\ lastUsed' = IdxInc(lastUsed)
          /\ UNCHANGED irqPc
       \/ /\ usedIdx = lastUsed
          /\ irqPc' = "enable"
          /\ UNCHANGED <<free, lastUsed>>
    /\ UNCHANGED <<ringVars, drvFeatures, numAdded, subPc, irqStatus, vqVars, ioVars,
                   mmioVars, pastVars>>

\* virtqueue_enable_cb: ask for an interrupt at the next entry ...
virtqueue_enable_cb ==
    /\ irqPc = "enable"
    /\ usedEvent' = IF DrvEventIdx THEN lastUsed ELSE usedEvent
    /\ noInterrupt' = FALSE
    /\ irqPc' = "recheck"
    /\ UNCHANGED <<availRing, availIdx, usedRing, usedIdx, availEvent, reqType, reqStatus,
                   subVars, lastUsed, irqStatus, vqVars, ioVars, mmioVars, pastVars>>

\* ... then look again, in case an entry came before the request was seen.
virtqueue_poll ==
    /\ irqPc = "recheck"
    /\ \/ /\ usedIdx = lastUsed
          /\ irqPc' = "off" /\ UNCHANGED noInterrupt
       \/ /\ usedIdx # lastUsed
          /\ irqPc' = "drain" /\ noInterrupt' = ~DrvEventIdx
    /\ UNCHANGED <<availRing, availIdx, usedEvent, usedRing, usedIdx, availEvent, reqType,
                   reqStatus, subVars, lastUsed, irqStatus, vqVars, ioVars, mmioVars, pastVars>>

-----------------------------------------------------------------------------
(* The main thread: MMIO accesses of the guest, one at a time              *)

\* VIRTIO_MMIO_QUEUE_NOTIFY -> notify_vq: add 1 to the eventfd.
notify_vq ==
    /\ mainPc = "idle"
    /\ subPc = "notify"
    /\ efd' = TRUE
    /\ subPc' = "idle"
    /\ UNCHANGED <<ringVars, drvFeatures, free, numAdded, irqVars, vqVars, ioDone,
                   ioPc, ioHead, mapped, lost, mmioVars, pastVars>>

\* VIRTIO_MMIO_INTERRUPT_STATUS
interrupt_status ==
    /\ mainPc = "idle"
    /\ irqPc = "status"
    /\ irqStatus' = intState
    /\ irqPc' = IF intState \/ AckZero THEN "ack" ELSE "off"
    /\ UNCHANGED <<ringVars, subVars, lastUsed, vqVars, ioVars, mmioVars, pastVars>>

\* VIRTIO_MMIO_INTERRUPT_ACK: interrupt_state &= ~val, the load
interrupt_ack_load ==
    /\ mainPc = "idle"
    /\ irqPc = "ack"
    /\ mainIsr' = intState
    /\ mainPc' = "ack_store"
    /\ UNCHANGED <<ringVars, subVars, irqVars, vqVars, ioVars, intState, irq, pastVars>>

\* ... and the store; the access completes and the handler goes on.
interrupt_ack_store ==
    /\ mainPc = "ack_store"
    /\ intState' = (mainIsr /\ ~irqStatus)
    /\ erased' = (~irqStatus /\ (erased \/ (intState /\ ~mainIsr)))
    /\ mainPc' = "idle" /\ mainIsr' = FALSE
    /\ irqPc' = IF irqStatus THEN "more_used" ELSE "off"
    /\ irqStatus' = FALSE
    /\ UNCHANGED <<ringVars, subVars, lastUsed, vqVars, ioVars, irq, stale, dropped>>

\* The driver binds: it clears its rings, accepts features (DRIVER_FEATURES),
\* and makes the queue ready (QUEUE_READY or QUEUE_PFN), which runs
\* virtio_init_device_vq and init_vq; then DRIVER_OK.  init_vq clears reqs[], so
\* that nothing unmaps any more what requests of an earlier binding left mapped.
init_vq(fs) ==
    /\ mainPc = "idle"
    /\ subPc = "down" /\ irqPc = "off"
    /\ availIdx' = 0 /\ usedIdx' = 0 /\ usedEvent' = 0 /\ availEvent' = 0
    /\ availRing' = [s \in Heads |-> 0] /\ usedRing' = [s \in Heads |-> 0]
    /\ noInterrupt' = FALSE
    /\ reqStatus' = [h \in Heads |-> "none"] /\ UNCHANGED reqType
    /\ drvFeatures' = fs /\ free' = Heads /\ numAdded' = 0 /\ lastUsed' = 0
    /\ subPc' = "idle"
    /\ features' = features \cup fs
    /\ useEventIdx' = (features' \cap EventIdxMask # {})
    /\ enabled' = TRUE
    /\ mapped' = {} /\ stale' = (stale \/ mapped # {})
    /\ lost' = {} /\ dropped' = (dropped \/ lost # {})
    /\ erased' = FALSE
    /\ efd' = FALSE /\ ioDone' = FALSE
    /\ ioPc' = "loop"
    /\ UNCHANGED <<lastAvail, lastSignalled, ioHead, irqPc, irqStatus, mmioVars>>

\* The driver resets the device (STATUS = 0 after DRIVER_OK): virtio_notify_status
\* -> virtio_mmio_reset -> virtio_exit_vq -> exit_vq: io_done, ...
exit_vq ==
    /\ MayReset
    /\ mainPc = "idle"
    /\ subPc = "idle"
    /\ enabled
    /\ subPc' = "reset"
    /\ ioDone' = TRUE
    /\ mainPc' = "exit_notify"
    /\ UNCHANGED <<ringVars, drvFeatures, free, numAdded, irqVars, vqVars, efd, ioPc,
                   ioHead, mapped, lost, intState, mainIsr, irq, pastVars>>

\* ... a last notify_vq, which wakes the I/O thread, ...
exit_vq_notify ==
    /\ mainPc = "exit_notify"
    /\ efd' = TRUE
    /\ mainPc' = "join"
    /\ UNCHANGED <<ringVars, subVars, irqVars, vqVars, ioDone, ioPc, ioHead,
                   mapped, lost, intState, mainIsr, irq, pastVars>>

\* mutant: the queue is not cleared
exit_vq_stale ==
    /\ mainPc = "join" /\ ioPc = "exited"
    /\ ioPc' = "none" /\ efd' = FALSE /\ enabled' = FALSE
    /\ mainPc' = "idle" /\ subPc' = "down"
    /\ UNCHANGED <<ringVars, drvFeatures, free, numAdded, irqVars, features, useEventIdx,
                   lastAvail, lastSignalled, ioDone, ioHead, mapped, lost, intState, mainIsr,
                   irq, pastVars>>

\* mutant: the I/O thread is not joined
exit_vq_no_join ==
    /\ mainPc = "join"
    /\ efd' = FALSE /\ enabled' = FALSE /\ useEventIdx' = FALSE
    /\ lastAvail' = 0 /\ lastSignalled' = 0
    /\ mainPc' = "idle" /\ subPc' = "down"
    /\ UNCHANGED <<ringVars, drvFeatures, free, numAdded, irqVars, features, ioDone, ioPc,
                   ioHead, mapped, lost, intState, mainIsr, irq, pastVars>>

\* ... pthread_join and close; the rings are unmapped and *vq is cleared.
exit_vq_joined ==
    /\ mainPc = "join"
    /\ ioPc = "exited"
    /\ ioPc' = "none"
    /\ efd' = FALSE
    /\ enabled' = FALSE /\ useEventIdx' = FALSE
    /\ lastAvail' = 0 /\ lastSignalled' = 0
    /\ mainPc' = "idle"
    /\ subPc' = "down"
    /\ UNCHANGED <<ringVars, drvFeatures, free, numAdded, irqVars, features, ioDone,
                   ioHead, mapped, lost, intState, mainIsr, irq, pastVars>>

-----------------------------------------------------------------------------
(* The I/O thread                                                          *)

\* while (!bdev->io_done)
io_loop ==
    /\ ioPc = "loop"
    /\ ioPc' = IF ioDone THEN "exited" ELSE "read"
    /\ UNCHANGED <<ringVars, subVars, irqVars, vqVars, ioDone, efd, ioHead,
                   mapped, lost, mmioVars, pastVars>>

\* read(io_efd): blocks while the counter is 0, then takes it to 0.
io_read ==
    /\ ioPc = "read"
    /\ efd
    /\ efd' = FALSE
    /\ ioPc' = "avail_event"
    /\ UNCHANGED <<ringVars, subVars, irqVars, vqVars, ioDone, ioHead, mapped,
                   lost, mmioVars, pastVars>>

\* mutant: the index is published only when there is something to pop
avail_event_skipped ==
    /\ ioPc = "avail_event"
    /\ availEvent' = IF useEventIdx /\ availIdx # lastAvail THEN lastAvail ELSE availEvent
    /\ ioPc' = "avail_idx"
    /\ UNCHANGED <<availRing, availIdx, noInterrupt, usedEvent, usedRing, usedIdx, reqType,
                   reqStatus, subVars, irqVars, vqVars, ioDone, efd, ioHead, mapped, lost,
                   mmioVars, pastVars>>

\* virt_queue__available: publish the index at which to be notified ...
avail_event ==
    /\ ioPc = "avail_event"
    /\ availEvent' = IF useEventIdx THEN lastAvail ELSE availEvent
    /\ ioPc' = "avail_idx"
    /\ UNCHANGED <<availRing, availIdx, noInterrupt, usedEvent, usedRing, usedIdx, reqType,
                   reqStatus, subVars, irqVars, vqVars, ioDone, efd, ioHead,
                   mapped, lost, mmioVars, pastVars>>

\* ... then compare the driver's index: the condition of virtio_blk_do_io's
\* loop, which stops when there is nothing new or the queue is being reset, ...
available == availIdx # lastAvail

no_more ==
    /\ ioPc = "avail_idx"
    /\ ~available \/ ioDone
    /\ ioPc' = "loop"
    /\ UNCHANGED <<ringVars, subVars, irqVars, vqVars, ioDone, efd, ioHead, mapped, lost,
                   mmioVars, pastVars>>

\* ... and else takes the next head (virt_queue__pop) and maps its chain
\* (virt_queue__get_head_iov).
pop ==
    /\ ioPc = "avail_idx"
    /\ available /\ ~ioDone
    /\ ioHead' = availRing[Slot(lastAvail)]
    /\ lastAvail' = IdxInc(lastAvail)
    /\ mapped' = mapped \cup {ioHead'}
    /\ ioPc' = "request"
    /\ UNCHANGED <<ringVars, subVars, irqVars, features, enabled, useEventIdx, lastSignalled,
                   ioDone, efd, lost, mmioVars, pastVars>>

\* The requests that reach virtio_blk_complete: disk_image__read and _write
\* call it only when they succeed, a flush and a get-id always complete,
\* another type never does.
Completes(t, outcome) ==
    \/ t \in {"IN", "OUT"} /\ outcome = "ok"
    \/ t \in {"FLUSH", "GET_ID"}

\* mutant: the buffers stay mapped
complete_no_unmap(outcome) ==
    /\ ioPc = "request"
    /\ Completes(reqType[ioHead], outcome)
    /\ reqStatus' = [reqStatus EXCEPT ![ioHead] =
                        IF outcome = "err" /\ reqType[ioHead] # "GET_ID" THEN "ioerr" ELSE "ok"]
    /\ ioPc' = "used_elem"
    /\ UNCHANGED <<availRing, availIdx, noInterrupt, usedEvent, usedRing, usedIdx, availEvent,
                   reqType, subVars, irqVars, vqVars, ioDone, efd, ioHead, mapped, lost,
                   mmioVars, pastVars>>

\* virtio_blk_do_io_request with the disk image's answer, when it runs
\* virtio_blk_complete: the status byte, then the buffers are unmapped ...
complete(outcome) ==
    /\ ioPc = "request"
    /\ Completes(reqType[ioHead], outcome)
    /\ reqStatus' = [reqStatus EXCEPT ![ioHead] =
                        IF outcome = "err" /\ reqType[ioHead] # "GET_ID" THEN "ioerr" ELSE "ok"]
    /\ mapped' = mapped \ {ioHead}
    /\ ioPc' = "used_elem"
    /\ UNCHANGED <<availRing, availIdx, noInterrupt, usedEvent, usedRing, usedIdx, availEvent,
                   reqType, subVars, irqVars, vqVars, ioDone, efd, ioHead, lost, mmioVars,
                   pastVars>>

\* mutant: a request that failed ends the loop
drop_ends_loop(outcome) ==
    /\ ioPc = "request"
    /\ ~Completes(reqType[ioHead], outcome)
    /\ lost' = lost \cup {ioHead}
    /\ ioPc' = "loop"
    /\ UNCHANGED <<ringVars, subVars, irqVars, vqVars, ioDone, efd, ioHead, mapped, mmioVars,
                   pastVars>>

\* ... and when it does not: the request is dropped, its buffers stay mapped,
\* and virtio_blk_do_io goes on with the next one.
drop(outcome) ==
    /\ ioPc = "request"
    /\ ~Completes(reqType[ioHead], outcome)
    /\ lost' = lost \cup {ioHead}
    /\ ioPc' = "avail_event"
    /\ UNCHANGED <<ringVars, subVars, irqVars, vqVars, ioDone, efd, ioHead, mapped, mmioVars,
                   pastVars>>

\* virt_queue__set_used_elem_no_update
set_used_elem ==
    /\ ioPc = "used_elem"
    /\ usedRing' = [usedRing EXCEPT ![Slot(usedIdx)] = ioHead]
    /\ ioPc' = "used_idx"
    /\ UNCHANGED <<availRing, availIdx, noInterrupt, usedEvent, usedIdx, availEvent, reqType,
                   reqStatus, subVars, irqVars, vqVars, ioDone, efd, ioHead,
                   mapped, lost, mmioVars, pastVars>>

\* virt_queue__used_idx_advance
used_idx_advance ==
    /\ ioPc = "used_idx"
    /\ usedIdx' = IdxInc(usedIdx)
    /\ ioPc' = "should_signal"
    /\ UNCHANGED <<availRing, availIdx, noInterrupt, usedEvent, usedRing, availEvent, reqType,
                   reqStatus, subVars, irqVars, vqVars, ioDone, efd, ioHead,
                   mapped, lost, mmioVars, pastVars>>

\* mutant: the event index is compared without its + 1
WantsSignal_late ==
    IF useEventIdx THEN IdxSub(usedIdx, usedEvent) < IdxSub(usedIdx, lastSignalled)
    ELSE ~noInterrupt

\* virtio_queue__should_signal: whether the guest wants an interrupt
WantsSignal ==
    IF useEventIdx THEN vring_need_event(usedEvent, usedIdx, lastSignalled)
    ELSE ~noInterrupt

should_signal ==
    /\ ioPc = "should_signal"
    /\ lastSignalled' = IF useEventIdx /\ WantsSignal THEN usedIdx ELSE lastSignalled
    /\ ioPc' = IF WantsSignal THEN "signal" ELSE "avail_event"
    /\ UNCHANGED <<ringVars, subVars, irqVars, features, enabled, useEventIdx, lastAvail,
                   ioDone, efd, ioHead, mapped, lost, mmioVars, pastVars>>

\* virtio_mmio_signal_vq: interrupt_state |= VIRTIO_MMIO_INT_VRING.  It is the
\* only bit the program ever sets, so what the load brings does not matter ...
signal_vq ==
    /\ ioPc = "signal"
    /\ intState' = TRUE
    /\ ioPc' = "irq"
    /\ UNCHANGED <<ringVars, subVars, irqVars, vqVars, ioDone, efd, ioHead,
                   mapped, lost, mainPc, mainIsr, irq, pastVars>>

\* mutant: one request per kick
irq_trigger_once ==
    /\ ioPc = "irq"
    /\ irq' = TRUE
    /\ ioPc' = "loop"
    /\ UNCHANGED <<ringVars, subVars, irqVars, vqVars, ioDone, efd, ioHead, mapped, lost,
                   intState, mainPc, mainIsr, pastVars>>

\* ... and kvm__irq_trigger -> demu_set_irq.
irq_trigger ==
    /\ ioPc = "irq"
    /\ irq' = TRUE
    /\ ioPc' = "avail_event"
    /\ UNCHANGED <<ringVars, subVars, irqVars, vqVars, ioDone, efd, ioHead,
                   mapped, lost, intState, mainPc, mainIsr, pastVars>>

-----------------------------------------------------------------------------
IoThread ==
    \/ io_loop \/ io_read \/ avail_event \/ no_more \/ pop
    \/ \E o \in Outcomes : complete(o) \/ drop(o)
    \/ set_used_elem \/ used_idx_advance \/ should_signal
    \/ signal_vq \/ irq_trigger

Handler ==
    \/ vm_interrupt \/ vring_interrupt \/ virtqueue_get_buf
    \/ virtqueue_enable_cb \/ virtqueue_poll

\* What the main thread owes the guest once an access is under way.
MainThread ==
    \/ notify_vq \/ interrupt_status \/ interrupt_ack_load \/ interrupt_ack_store
    \/ exit_vq_notify \/ exit_vq_joined

Next ==
    \/ \E h \in Heads, t \in Types : virtqueue_add(h, t)
    \/ virtqueue_kick_prepare
    \/ Handler
    \/ MainThread
    \/ \E fs \in FeatureSets : init_vq(fs)
    \/ exit_vq
    \/ IoThread

(***************************************************************************)
(* Fairness: the threads are scheduled, every MMIO access of the guest is  *)
(* served, the guest finishes a kick and runs its interrupt handler.       *)
(* Nothing makes it submit, reset or bind again.                           *)
(***************************************************************************)
Fairness ==
    /\ WF_vars(IoThread)
    /\ WF_vars(Handler)
    /\ WF_vars(virtqueue_kick_prepare)
    /\ WF_vars(notify_vq)
    /\ WF_vars(interrupt_status) /\ WF_vars(interrupt_ack_load)
    /\ WF_vars(interrupt_ack_store)
    /\ WF_vars(exit_vq_notify) /\ WF_vars(exit_vq_joined)

Safety == Init /\ [][Next]_vars

Spec == Safety /\ Fairness
-----------------------------------------------------------------------------
(* Who owns each descriptor head                                           *)

\* submitted and not yet popped, oldest first
AvailSeq == [n \in 1 .. IdxSub(availIdx, lastAvail) |-> availRing[Slot(IdxAdd(lastAvail, n - 1))]]
\* returned and not yet seen by the driver, oldest first
UsedSeq == [n \in 1 .. IdxSub(usedIdx, lastUsed) |-> usedRing[Slot(IdxAdd(lastUsed, n - 1))]]

AvailHeads == {AvailSeq[n] : n \in DOMAIN AvailSeq}
UsedHeads == {UsedSeq[n] : n \in DOMAIN UsedSeq}

ServiceSeq == IF InService = {} THEN <<>> ELSE <<ioHead>>

\* The used index moved and virtio_blk_complete has not raised the interrupt yet.
Signalling == ioPc \in {"should_signal", "signal", "irq"}

-----------------------------------------------------------------------------
(* Properties                                                              *)

TypeOK ==
    /\ availRing \in [Heads -> Heads] /\ usedRing \in [Heads -> Heads]
    /\ availIdx \in Idx /\ usedIdx \in Idx /\ usedEvent \in Idx /\ availEvent \in Idx
    /\ noInterrupt \in BOOLEAN
    /\ reqType \in [Heads -> Types]
    /\ reqStatus \in [Heads -> {"none", "ok", "ioerr"}]
    /\ drvFeatures \in SUBSET get_host_features
    /\ free \in SUBSET Heads
    /\ numAdded \in 0 .. BatchMax
    /\ lastUsed \in Idx
    /\ subPc \in SubPcs /\ irqPc \in IrqPcs /\ irqStatus \in BOOLEAN
    /\ features \in SUBSET get_host_features
    /\ enabled \in BOOLEAN /\ useEventIdx \in BOOLEAN
    /\ lastAvail \in Idx /\ lastSignalled \in Idx
    /\ ioDone \in BOOLEAN /\ efd \in BOOLEAN
    /\ ioPc \in IoPcs /\ ioHead \in Heads
    /\ mapped \in SUBSET Heads /\ lost \in SUBSET Heads
    /\ intState \in BOOLEAN /\ mainIsr \in BOOLEAN /\ irq \in BOOLEAN
    /\ mainPc \in {"idle", "ack_store", "exit_notify", "join"}
    /\ stale \in BOOLEAN /\ dropped \in BOOLEAN /\ erased \in BOOLEAN

\* Between bind and reset every descriptor head is in exactly one place: free,
\* in the avail ring, in service, dropped, or in the used ring.  No request is
\* popped twice or returned twice, whatever the index wrap-around and the
\* interleaving of virtio_blk_do_io with the driver.
HeadOwnership ==
    enabled =>
        /\ free \cup AvailHeads \cup InService \cup lost \cup UsedHeads = Heads
        /\ Cardinality(free) + Len(AvailSeq) + Cardinality(InService)
              + Cardinality(lost) + Len(UsedSeq) = Num

\* The I/O thread never sleeps in read(io_efd) on a request the driver is done
\* announcing: avail_event is written before the avail index is read, so either
\* the thread sees the request or the driver sees that a kick is wanted.
NoLostKick ==
    (ioPc = "read" /\ ~efd /\ subPc = "idle") => availIdx = lastAvail

\* What makes NoLostKick inductive: only a resetting driver meets a thread that
\* is told to stop; ...
StopInv == ioDone => subPc \in {"reset", "down"}
AddedInv == subPc \in {"idle", "notify"} => numAdded = 0
FreshInv == subPc = "down" => lastAvail = 0

\* ... a thread that may go to sleep has published how far it got, ...
PublishedInv ==
    (DrvEventIdx /\ ioPc \in {"avail_idx", "loop", "read"}) => availEvent = lastAvail

\* ... and what it has not seen was added since the driver last decided to kick.
AsleepInv ==
    (ioPc \in {"loop", "read"} /\ ~efd /\ subPc \in {"idle", "added"})
        => IdxSub(availIdx, lastAvail) <= numAdded

KickInv == StopInv /\ AddedInv /\ FreshInv /\ PublishedInv /\ AsleepInv

\* The feature sets for which the device's reading of the negotiation, features
\* & VIRTIO_RING_F_EVENT_IDX, agrees with the driver's.
FeaturesAgree ==
    \/ \A fs \in FeatureSets : VIRTIO_BLK_F_SEG_MAX \in fs /\ VIRTIO_RING_F_EVENT_IDX \in fs
    \/ \A fs \in FeatureSets : fs \cap (EventIdxMask \cup {VIRTIO_RING_F_EVENT_IDX}) = {}

\* The device uses the event index exactly when the driver negotiated it.
AgreeInv ==
    /\ features \subseteq UNION FeatureSets
    /\ enabled => /\ drvFeatures \in FeatureSets
                  /\ drvFeatures \subseteq features
                  /\ useEventIdx = (features \cap EventIdxMask # {})

\* A returned request is never left without an interrupt: when the driver's
\* handler is not running and the I/O thread is past virtio_blk_complete, an
\* unseen used entry has the line raised and the VRING bit set.  Both threads
\* update interrupt_state without synchronisation; the one update that loses an
\* interrupt is the acknowledge of a status read as 0 whose load came before the
\* signal_vq of the I/O thread and whose store came after.
NoLostInterrupt ==
    (enabled /\ usedIdx # lastUsed /\ irqPc = "off" /\ ~Signalling)
        => (irq /\ intState) \/ erased

\* A driver that did not negotiate the event index is interrupted for every
\* completion unless it set VRING_AVAIL_F_NO_INTERRUPT (should_signal).
InterruptUnlessTold ==
    [][(ioPc = "should_signal" /\ ~DrvEventIdx /\ ~noInterrupt) => ioPc' = "signal"]_<<ioPc>>

\* What virt_queue__get_head_iov maps is unmapped before the head is returned,
\* and before a reset is over.  Only what the disk failed stays mapped, and after
\* a reset, when the driver has those buffers back, it does so for ever.
NoAccessAfterReturn ==
    /\ enabled => mapped \cap (free \cup AvailHeads \cup UsedHeads) = {}
    /\ stale = dropped

\* Once a reset has disabled the queue the device does not touch guest memory:
\* the I/O thread is joined before the rings are unmapped.
QuietAfterReset ==
    [][(~enabled /\ ~enabled') => UNCHANGED <<usedRing, usedIdx, availEvent, reqStatus>>]_vars

\* A submitted request comes back to the driver, unless the disk image failed
\* it (it is dropped) or the device is reset; a dropped request does not hold
\* up the ones behind it.
RequestServed ==
    \A h \in Heads : (enabled /\ h \in AvailHeads) ~> (h \in free \/ h \in lost \/ ~enabled)

\* The queue is an in-order request service: every step of the threads, the
\* driver and the rings is a step of BlkService or changes nothing it shows.
Service == INSTANCE BlkService WITH
    up    <- enabled,
    free  <- IF enabled THEN free ELSE Heads,
    queue <- IF enabled THEN ServiceSeq \o AvailSeq ELSE <<>>,
    done  <- IF enabled
             THEN [n \in DOMAIN UsedSeq |->
                     [head |-> UsedSeq[n], status |-> reqStatus[UsedSeq[n]]]]
             ELSE <<>>,
    lost  <- IF enabled THEN lost ELSE {}

\* The I/O thread, the driver and the rings implement the in-order service.
ImplementsService == Service!Spec
=============================================================================

