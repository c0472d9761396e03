-------------------------- MODULE VirtioBlkProofs --------------------------
(***************************************************************************)
(* Theorems about VirtioBlk, for every ring size, index width, request mix *)
(* and workload bound: type correctness, the quiet stop of a reset, and    *)
(* that no kick is lost.  Who owns what: whatever the driver negotiated,   *)
(* each descriptor head is in one place, and the device maps no buffer     *)
(* that the driver may use again.  And no interrupt is lost, for every     *)
(* driver whose features the device reads right, which never acknowledges  *)
(* an interrupt it has not read, and which the device cannot leave a whole *)
(* circle of the used index behind.  Last, the data path implements the    *)
(* request service: each step of the threads, the driver and the rings is  *)
(* a step of BlkService, or changes nothing it shows.                      *)
(***************************************************************************)
EXTENDS VirtioBlk, FiniteSetTheorems, SequenceTheorems, TLAPS

(***************************************************************************)
(* Index arithmetic                                                        *)
(***************************************************************************)

\* A ring index selects a slot of the ring (vring.avail->ring[idx % num]).
LEMMA SlotInRing == \A i \in Idx : Slot(i) \in Heads
  BY RingAssumption, SMT DEF Slot, Idx, Heads

\* The free-running index stays a u16.
LEMMA IncInIdx == \A i \in Idx : IdxInc(i) \in Idx
  BY RingAssumption, SMT DEF IdxInc, Idx

\* The distance of two indices is a u16, and zero only when they are equal.
LEMMA SubInIdx ==
    \A a, b \in Idx : IdxSub(a, b) \in Idx /\ (IdxSub(a, b) = 0 <=> a = b)
  BY RingAssumption, SMT DEF IdxSub, Idx

\* Advancing the driver's index adds one to a distance, or wraps it to zero.
LEMMA SubInc ==
    \A a, b \in Idx : IdxSub(IdxInc(a), b) \in {0, IdxSub(a, b) + 1}
  BY RingAssumption, SMT DEF IdxSub, IdxInc, Idx

\* The kick decision: when some of the last n additions, and nothing older, is
\* beyond the event index, vring_need_event says so.
LEMMA NeedEvent ==
    ASSUME NEW new \in Idx, NEW event \in Idx, NEW n \in Idx,
           new # event, IdxSub(new, event) <= n
    PROVE  vring_need_event(event, new, IdxSub(new, n))
  BY RingAssumption, SMT DEF vring_need_event, IdxSub, IdxInc, Idx

(***************************************************************************)
(* Type correctness                                                        *)
(***************************************************************************)

LEMMA InitTypeOK == Init => TypeOK
  <1> SUFFICES ASSUME Init PROVE TypeOK
    OBVIOUS
  <1>1. 0 \in Idx /\ 0 \in Heads
    BY RingAssumption DEF Idx, Heads
  <1>2. (CHOOSE t \in Types : TRUE) \in Types
    BY BlkAssumption
  <1>3. reqType \in [Heads -> Types]
    BY <1>2 DEF Init
  <1>4. 0 \in 0 .. BatchMax
    BY BlkAssumption, RingAssumption
  <1> QED
    BY <1>1, <1>3, <1>4 DEF Init, TypeOK, IoPcs, SubPcs, IrqPcs

LEMMA NextTypeOK == TypeOK /\ [Next]_vars => TypeOK'
  <1> SUFFICES ASSUME TypeOK, [Next]_vars PROVE TypeOK'
    OBVIOUS
  <1>1. 0 \in Idx /\ 0 \in Heads
    BY RingAssumption DEF Idx, Heads
  <1>2. BatchMax \in Nat
    BY RingAssumption, BlkAssumption
  <1> USE <1>1, <1>2 DEF TypeOK, ringVars, subVars, irqVars, vqVars, ioVars, mmioVars, pastVars,
          IoPcs, SubPcs, IrqPcs
  <1>3. ASSUME NEW h \in Heads, NEW t \in Types, virtqueue_add(h, t) PROVE TypeOK'
    <2>1. numAdded + 1 \in 0 .. BatchMax
      BY <1>3 DEF virtqueue_add
    <2>2. availRing' \in [Heads -> Heads] /\ availIdx' \in Idx
      BY <1>3, SlotInRing, IncInIdx DEF virtqueue_add
    <2> QED
      BY <1>3, <2>1, <2>2 DEF virtqueue_add
  <1>4. CASE virtqueue_kick_prepare
    BY <1>4 DEF virtqueue_kick_prepare
  <1>5. CASE Handler
    <2>1. CASE vm_interrupt
      <3>1. irq' \in BOOLEAN /\ irqPc' \in IrqPcs
        BY <2>1, Zenon DEF vm_interrupt
      <3>2. UNCHANGED <<ringVars, subVars, lastUsed, irqStatus, vqVars, ioVars, intState,
                        mainPc, mainIsr, pastVars>>
        BY <2>1 DEF vm_interrupt
      <3> QED
        BY <3>1, <3>2
    <2>2. CASE vring_interrupt
      <3>1. noInterrupt' \in BOOLEAN /\ irqPc' \in IrqPcs
        BY <2>2, Zenon DEF vring_interrupt
      <3>2. UNCHANGED <<availRing, availIdx, usedEvent, usedRing, usedIdx, availEvent, reqType,
                        reqStatus, subVars, lastUsed, irqStatus, vqVars, ioVars, mmioVars,
                        pastVars>>
        BY <2>2 DEF vring_interrupt
      <3> QED
        BY <3>1, <3>2
    <2>3. CASE virtqueue_get_buf
      BY <2>3, SlotInRing, IncInIdx DEF virtqueue_get_buf
    <2>4. CASE virtqueue_enable_cb
      <3>1. noInterrupt' \in BOOLEAN /\ irqPc' \in IrqPcs
        BY <2>4, Zenon DEF virtqueue_enable_cb
      <3>2. usedEvent' \in Idx
        BY <2>4, Zenon DEF virtqueue_enable_cb
      <3>3. UNCHANGED <<availRing, availIdx, usedRing, usedIdx, availEvent, reqType, reqStatus,
                        subVars, lastUsed, irqStatus, vqVars, ioVars, mmioVars, pastVars>>
        BY <2>4 DEF virtqueue_enable_cb
      <3> QED
        BY <3>1, <3>2, <3>3
    <2>5. CASE virtqueue_poll
      <3>1. noInterrupt' \in BOOLEAN /\ irqPc' \in IrqPcs
        BY <2>5, Zenon DEF virtqueue_poll
      <3>2. UNCHANGED <<availRing, availIdx, usedEvent, usedRing, usedIdx, availEvent, reqType,
                        reqStatus, subVars, lastUsed, irqStatus, vqVars, ioVars, mmioVars,
                        pastVars>>
        BY <2>5 DEF virtqueue_poll
      <3> QED
        BY <3>1, <3>2
    <2> QED
      BY <1>5, <2>1, <2>2, <2>3, <2>4, <2>5 DEF Handler
  <1>6. CASE MainThread
    <2>1. CASE notify_vq
      BY <2>1 DEF notify_vq
    <2>2. CASE interrupt_status
      BY <2>2 DEF interrupt_status
    <2>3. CASE interrupt_ack_load
      BY <2>3 DEF interrupt_ack_load
    <2>4. CASE interrupt_ack_store
      <3>1. /\ intState' \in BOOLEAN /\ mainIsr' \in BOOLEAN /\ irqStatus' \in BOOLEAN
            /\ erased' \in BOOLEAN
        BY <2>4, Zenon DEF interrupt_ack_store
      <3>2. irqPc' \in IrqPcs /\ mainPc' = "idle"
        BY <2>4, Zenon DEF interrupt_ack_store
      <3>3. UNCHANGED <<ringVars, subVars, lastUsed, vqVars, ioVars, irq, stale, dropped>>
        BY <2>4 DEF interrupt_ack_store
      <3> QED
        BY <3>1, <3>2, <3>3
    <2>5. CASE exit_vq_notify
      BY <2>5 DEF exit_vq_notify
    <2>6. CASE exit_vq_joined
      <3>1. /\ efd' \in BOOLEAN /\ enabled' \in BOOLEAN /\ useEventIdx' \in BOOLEAN
            /\ stale' \in BOOLEAN /\ dropped' \in BOOLEAN /\ erased' \in BOOLEAN
        BY <2>6, Zenon DEF exit_vq_joined
      <3>2. /\ lastAvail' = 0 /\ lastSignalled' = 0
            /\ ioPc' = "none" /\ mainPc' = "idle" /\ subPc' = "down"
            /\ UNCHANGED <<ringVars, drvFeatures, free, numAdded, irqVars, features, ioDone, ioHead,
                           mapped, lost, intState, mainIsr, irq>>
        BY <2>6, Zenon DEF exit_vq_joined
      <3> QED
        BY <3>1, <3>2
    <2> QED
      BY <1>6, <2>1, <2>2, <2>3, <2>4, <2>5, <2>6 DEF MainThread
  <1>7. ASSUME NEW fs \in FeatureSets, init_vq(fs) PROVE TypeOK'
    <2>1. fs \in SUBSET get_host_features
      BY BlkAssumption
    <2>2. useEventIdx' \in BOOLEAN
      BY <1>7 DEF init_vq
    <2> QED
      <3>1. useEventIdx' \in BOOLEAN /\ noInterrupt' \in BOOLEAN /\ enabled' \in BOOLEAN
            /\ efd' \in BOOLEAN /\ ioDone' \in BOOLEAN
            /\ stale' \in BOOLEAN /\ dropped' \in BOOLEAN /\ erased' \in BOOLEAN
        BY <1>7, <2>2, Zenon DEF init_vq
      <3>2. features' \in SUBSET get_host_features /\ drvFeatures' \in SUBSET get_host_features
        BY <1>7, <2>1, Zenon DEF init_vq
      <3>3. /\ availRing' \in [Heads -> Heads] /\ usedRing' \in [Heads -> Heads]
            /\ reqStatus' \in [Heads -> {"none", "ok", "ioerr"}]
        BY <1>7 DEF init_vq
      <3>4. /\ availIdx' = 0 /\ usedIdx' = 0 /\ usedEvent' = 0 /\ availEvent' = 0
            /\ free' = Heads /\ numAdded' = 0 /\ lastUsed' = 0
            /\ mapped' = {} /\ lost' = {} /\ subPc' = "idle" /\ ioPc' = "loop"
        BY <1>7 DEF init_vq
      <3>5. UNCHANGED <<reqType, lastAvail, lastSignalled, ioHead, irqPc, irqStatus, mmioVars>>
        BY <1>7 DEF init_vq
      <3> QED
        BY <3>1, <3>2, <3>3, <3>4, <3>5
  <1>8. CASE exit_vq
    BY <1>8 DEF exit_vq
  <1>9. CASE IoThread
    <2>1. CASE io_loop
      BY <2>1 DEF io_loop
    <2>2. CASE io_read
      <3>1. efd' \in BOOLEAN /\ ioPc' = "avail_event"
        BY <2>2, Zenon DEF io_read
      <3>2. UNCHANGED <<ringVars, subVars, irqVars, vqVars, ioDone, ioHead, mapped, lost,
                        mmioVars, pastVars>>
        BY <2>2 DEF io_read
      <3> QED
        BY <3>1, <3>2
    <2>3. CASE avail_event
      BY <2>3 DEF avail_event
    <2>4. CASE no_more
      BY <2>4 DEF no_more
    <2>5. CASE pop
      BY <2>5, SlotInRing, IncInIdx DEF pop
    <2>6. ASSUME NEW o \in Outcomes, complete(o) PROVE TypeOK'
      BY <2>6 DEF complete
    <2>7. ASSUME NEW o \in Outcomes, drop(o) PROVE TypeOK'
      BY <2>7 DEF drop
    <2>8. CASE set_used_elem
      BY <2>8, SlotInRing DEF set_used_elem
    <2>9. CASE used_idx_advance
      BY <2>9, IncInIdx DEF used_idx_advance
    <2>10. CASE should_signal
      BY <2>10 DEF should_signal
    <2>11. CASE signal_vq
      BY <2>11 DEF signal_vq
    <2>12. CASE irq_trigger
      BY <2>12 DEF irq_trigger
    <2> QED
      BY <1>9, <2>1, <2>2, <2>3, <2>4, <2>5, <2>6, <2>7, <2>8, <2>9, <2>10, <2>11, <2>12
         DEF IoThread
  <1>10. CASE UNCHANGED vars
    BY <1>10 DEF vars
  <1> QED
    BY <1>3, <1>4, <1>5, <1>6, <1>7, <1>8, <1>9, <1>10 DEF Next

\* Every variable keeps its type, whatever the threads, the driver and the
\* disk image do.
THEOREM TypeCorrect == Safety => []TypeOK
  BY InitTypeOK, NextTypeOK, PTL DEF Safety

(***************************************************************************)
(* The life of the queue                                                   *)
(***************************************************************************)

\* The queue is enabled exactly while the driver is bound, and exactly then
\* there is an I/O thread.
LifeInv ==
    /\ enabled <=> ioPc # "none"
    /\ enabled <=> subPc # "down"

LEMMA InitLifeInv == Init => LifeInv
  BY DEF Init, LifeInv

LEMMA NextLifeInv == LifeInv /\ [Next]_vars => LifeInv'
  <1> SUFFICES ASSUME LifeInv, [Next]_vars PROVE LifeInv'
    OBVIOUS
  <1> USE DEF LifeInv, ringVars, subVars, irqVars, vqVars, ioVars, mmioVars, pastVars
  <1>1. ASSUME NEW h \in Heads, NEW t \in Types, virtqueue_add(h, t) PROVE LifeInv'
    BY <1>1, Zenon DEF virtqueue_add
  <1>2. CASE virtqueue_kick_prepare
    BY <1>2, Zenon DEF virtqueue_kick_prepare
  <1>3. CASE Handler
    <2>1. UNCHANGED <<enabled, ioPc, subPc>>
      BY <1>3, Zenon DEF Handler, vm_interrupt, vring_interrupt, virtqueue_get_buf,
            virtqueue_enable_cb, virtqueue_poll
    <2> QED
      BY <2>1, Zenon
  <1>4. CASE MainThread
    <2>1. CASE notify_vq
      BY <2>1 DEF notify_vq
    <2>2. CASE interrupt_status \/ interrupt_ack_load \/ interrupt_ack_store \/ exit_vq_notify
      <3>1. UNCHANGED <<enabled, ioPc, subPc>>
        BY <2>2, Zenon DEF interrupt_status, interrupt_ack_load, interrupt_ack_store,
              exit_vq_notify
      <3> QED
        BY <3>1, Zenon
    <2>3. CASE exit_vq_joined
      BY <2>3, Zenon DEF exit_vq_joined
    <2> QED
      BY <1>4, <2>1, <2>2, <2>3, Zenon DEF MainThread
  <1>5. ASSUME NEW fs \in FeatureSets, init_vq(fs) PROVE LifeInv'
    BY <1>5, Zenon DEF init_vq
  <1>6. CASE exit_vq
    BY <1>6, Zenon DEF exit_vq
  <1>7. CASE IoThread
    BY <1>7, ZenonT(60) DEF IoThread, io_loop, io_read, avail_event, no_more, pop, complete, drop,
          set_used_elem, used_idx_advance, should_signal, signal_vq, irq_trigger
  <1>8. CASE UNCHANGED vars
    BY <1>8, Zenon DEF vars
  <1> QED
    BY <1>1, <1>2, <1>3, <1>4, <1>5, <1>6, <1>7, <1>8, Zenon DEF Next

\* After a reset the device leaves the used ring, avail_event and the status
\* bytes alone until the driver binds again: exit_vq joins the I/O thread.
THEOREM ResetIsQuiet == Safety => QuietAfterReset
  <1> DEFINE Quiet == (~enabled /\ ~enabled') => UNCHANGED <<usedRing, usedIdx, availEvent, reqStatus>>
  <1>1. LifeInv /\ [Next]_vars => [Quiet]_vars
    <2> SUFFICES ASSUME LifeInv, Next, ~enabled, ~enabled'
                 PROVE  UNCHANGED <<usedRing, usedIdx, availEvent, reqStatus>>
      BY Zenon
    <2> USE DEF ringVars
    <2>1. subPc = "down" /\ ioPc = "none"
      BY DEF LifeInv
    <2>2. ASSUME NEW h \in Heads, NEW t \in Types, virtqueue_add(h, t) PROVE FALSE
      BY <2>1, <2>2 DEF virtqueue_add
    <2>3. CASE virtqueue_kick_prepare
      BY <2>3, Zenon DEF virtqueue_kick_prepare
    <2>4. CASE Handler
      BY <2>4, Zenon DEF Handler, vm_interrupt, vring_interrupt, virtqueue_get_buf,
            virtqueue_enable_cb, virtqueue_poll
    <2>5. CASE MainThread
      BY <2>5, Zenon DEF MainThread, notify_vq, interrupt_status, interrupt_ack_load,
            interrupt_ack_store, exit_vq_notify, exit_vq_joined
    <2>6. ASSUME NEW fs \in FeatureSets, init_vq(fs) PROVE FALSE
      BY <2>6, Zenon DEF init_vq
    <2>7. CASE exit_vq
      BY <2>7, Zenon DEF exit_vq
    <2>8. CASE IoThread
      BY <2>1, <2>8, ZenonT(60) DEF IoThread, io_loop, io_read, avail_event, no_more, pop, complete, drop,
            set_used_elem, used_idx_advance, should_signal, signal_vq, irq_trigger
    <2> QED
      BY <2>2, <2>3, <2>4, <2>5, <2>6, <2>7, <2>8, Zenon DEF Next
  <1> QED
    BY <1>1, InitLifeInv, NextLifeInv, PTL DEF Safety, QuietAfterReset

(***************************************************************************)
(* The device's view of the negotiation                                    *)
(***************************************************************************)

LEMMA InitAgreeInv == Init => AgreeInv
  BY Zenon DEF Init, AgreeInv

LEMMA NextAgreeInv == LifeInv /\ AgreeInv /\ [Next]_vars => AgreeInv'
  <1> SUFFICES ASSUME LifeInv, AgreeInv, [Next]_vars PROVE AgreeInv'
    OBVIOUS
  <1> USE DEF ringVars, subVars, irqVars, vqVars, ioVars, mmioVars, pastVars
  <1> DEFINE Kept == UNCHANGED <<features, enabled, drvFeatures, useEventIdx>>
  <1>0. Kept => AgreeInv'
    BY DEF AgreeInv
  <1>1. ASSUME NEW h \in Heads, NEW t \in Types, virtqueue_add(h, t) PROVE Kept
    BY <1>1, Zenon DEF virtqueue_add
  <1>2. CASE virtqueue_kick_prepare
    BY <1>0, <1>2, Zenon DEF virtqueue_kick_prepare
  <1>3. CASE Handler
    BY <1>0, <1>3, Zenon DEF Handler, vm_interrupt, vring_interrupt, virtqueue_get_buf,
          virtqueue_enable_cb, virtqueue_poll
  <1>4. CASE MainThread
    <2>1. CASE exit_vq_joined
      <3>1. features' = features /\ ~enabled'
        BY <2>1, Zenon DEF exit_vq_joined
      <3> QED
        BY <3>1, Zenon DEF AgreeInv
    <2>2. CASE ~exit_vq_joined
      BY <1>0, <1>4, <2>2, Zenon DEF MainThread, notify_vq, interrupt_status,
            interrupt_ack_load, interrupt_ack_store, exit_vq_notify
    <2> QED
      BY <2>1, <2>2
  <1>5. ASSUME NEW fs \in FeatureSets, init_vq(fs) PROVE AgreeInv'
    <2>1. features' = features \cup fs /\ drvFeatures' = fs
      BY <1>5, Zenon DEF init_vq
    <2>2. useEventIdx' = (features' \cap EventIdxMask # {})
      BY <1>5, Zenon DEF init_vq
    <2>3. features' \subseteq UNION FeatureSets
      BY <2>1, Zenon DEF AgreeInv
    <2>4. drvFeatures' \in FeatureSets /\ drvFeatures' \subseteq features'
      BY <2>1, Zenon
    <2> QED
      BY <2>2, <2>3, <2>4, Zenon DEF AgreeInv
  <1>6. CASE exit_vq
    BY <1>0, <1>6, Zenon DEF exit_vq
  <1>7. CASE IoThread
    BY <1>0, <1>7, ZenonT(60) DEF IoThread, io_loop, io_read, avail_event, no_more, pop, complete,
          drop, set_used_elem, used_idx_advance, should_signal, signal_vq, irq_trigger
  <1>8. CASE UNCHANGED vars
    BY <1>0, <1>8, Zenon DEF vars
  <1> QED
    BY <1>0, <1>1, <1>2, <1>3, <1>4, <1>5, <1>6, <1>7, <1>8, Zenon DEF Next

\* With such drivers, use_event_idx is what the driver negotiated.
LEMMA AgreeOnEventIdx ==
    ASSUME FeaturesAgree, AgreeInv, enabled
    PROVE  useEventIdx <=> DrvEventIdx
  <1>1. /\ features \subseteq UNION FeatureSets
        /\ drvFeatures \in FeatureSets /\ drvFeatures \subseteq features
        /\ useEventIdx = (features \cap EventIdxMask # {})
    BY Zenon DEF AgreeInv
  <1>2. CASE \A fs \in FeatureSets : VIRTIO_BLK_F_SEG_MAX \in fs /\ VIRTIO_RING_F_EVENT_IDX \in fs
    <2>1. VIRTIO_BLK_F_SEG_MAX \in features \cap EventIdxMask
      BY <1>1, <1>2 DEF EventIdxMask, VIRTIO_BLK_F_SEG_MAX
    <2>2. features \cap EventIdxMask # {}
      BY <2>1, Zenon
    <2>3. DrvEventIdx
      BY <1>1, <1>2, Zenon DEF DrvEventIdx
    <2> QED
      BY <1>1, <2>2, <2>3, Zenon
  <1>3. CASE \A fs \in FeatureSets : fs \cap (EventIdxMask \cup {VIRTIO_RING_F_EVENT_IDX}) = {}
    <2>1. features \cap EventIdxMask = {}
      BY <1>1, <1>3, Zenon
    <2>2. ~DrvEventIdx
      BY <1>1, <1>3, Zenon DEF DrvEventIdx
    <2> QED
      BY <1>1, <2>1, <2>2, Zenon
  <1> QED
    BY <1>2, <1>3 DEF FeaturesAgree

(***************************************************************************)
(* No kick is lost                                                         *)
(***************************************************************************)

LEMMA InitKickInv == Init => KickInv
  <1> SUFFICES ASSUME Init PROVE KickInv
    OBVIOUS
  <1>1. ~ioDone /\ subPc = "down" /\ lastAvail = 0 /\ ioPc = "none"
    BY Zenon DEF Init
  <1> QED
    BY <1>1 DEF KickInv, StopInv, AddedInv, FreshInv, PublishedInv, AsleepInv

LEMMA NextKickInv ==
    ASSUME FeaturesAgree, TypeOK, LifeInv, AgreeInv, KickInv, [Next]_vars
    PROVE  KickInv'
  <1> DEFINE Kept == UNCHANGED <<ioDone, subPc, numAdded, lastAvail, drvFeatures, ioPc,
                                 availEvent, efd, availIdx>>
             Control == UNCHANGED <<ioDone, subPc, numAdded, drvFeatures, availIdx>>
  <1> USE DEF ringVars, subVars, irqVars, vqVars, ioVars, mmioVars, pastVars
  <1>a. StopInv /\ AddedInv /\ FreshInv /\ PublishedInv /\ AsleepInv
    BY DEF KickInv
  <1>0. Kept => KickInv'
    BY DEF KickInv, StopInv, AddedInv, FreshInv, PublishedInv, AsleepInv, DrvEventIdx
  <1>b. ASSUME Control, subPc # "down", ioPc' \notin {"avail_idx", "loop", "read"}
        PROVE  KickInv'
    BY <1>a, <1>b DEF KickInv, StopInv, AddedInv, FreshInv, PublishedInv, AsleepInv
  <1>1. ASSUME NEW h \in Heads, NEW t \in Types, virtqueue_add(h, t) PROVE KickInv'
    <2>1. /\ subPc \in {"idle", "added"} /\ subPc' = "added"
          /\ numAdded' = numAdded + 1 /\ availIdx' = IdxInc(availIdx)
      BY <1>1, Zenon DEF virtqueue_add
    <2>2. UNCHANGED <<ioDone, lastAvail, drvFeatures, ioPc, availEvent, efd>>
      BY <1>1, Zenon DEF virtqueue_add
    <2>3. StopInv' /\ AddedInv' /\ FreshInv' /\ PublishedInv'
      BY <1>a, <2>1, <2>2 DEF StopInv, AddedInv, FreshInv, PublishedInv, DrvEventIdx
    <2>4. IdxSub(availIdx, lastAvail)' \in {0, IdxSub(availIdx, lastAvail) + 1}
      BY <2>1, <2>2, SubInc DEF TypeOK
    <2>5. numAdded \in Nat /\ IdxSub(availIdx, lastAvail) \in Nat
      BY SubInIdx DEF TypeOK, Idx
    <2>6. IdxSub(availIdx, lastAvail) <= numAdded => (IdxSub(availIdx, lastAvail) <= numAdded)'
      BY <2>1, <2>4, <2>5
    <2>7. AsleepInv'
      BY <1>a, <2>1, <2>2, <2>6, Zenon DEF AsleepInv
    <2> QED
      BY <2>3, <2>7 DEF KickInv
  <1>2. CASE virtqueue_kick_prepare
    <2>1. subPc = "added" /\ numAdded' = 0
      BY <1>2, Zenon DEF virtqueue_kick_prepare
    <2>2. UNCHANGED <<ioDone, lastAvail, drvFeatures, ioPc, availEvent, efd, availIdx>>
      BY <1>2, Zenon DEF virtqueue_kick_prepare
    <2>3. subPc' \in {"idle", "notify"}
      BY <1>2, Zenon DEF virtqueue_kick_prepare
    <2>4. subPc' = "idle" =>
            ~(DrvEventIdx => vring_need_event(availEvent, availIdx, IdxSub(availIdx, numAdded)))
      BY <1>2 DEF virtqueue_kick_prepare
    <2>5. ~ioDone
      BY <1>a, <2>1, Zenon DEF StopInv
    <2>6. StopInv' /\ AddedInv' /\ FreshInv' /\ PublishedInv'
      BY <1>a, <2>1, <2>2, <2>3, <2>5 DEF StopInv, AddedInv, FreshInv, PublishedInv, DrvEventIdx
    <2>7. ASSUME ioPc \in {"loop", "read"}, ~efd, subPc' = "idle"
          PROVE  IdxSub(availIdx, lastAvail) <= 0
      <3>1. DrvEventIdx /\ ~vring_need_event(availEvent, availIdx, IdxSub(availIdx, numAdded))
        BY <2>4, <2>7
      <3>2. availEvent = lastAvail
        BY <1>a, <2>7, <3>1 DEF PublishedInv
      <3>3. IdxSub(availIdx, lastAvail) <= numAdded
        BY <1>a, <2>1, <2>7, Zenon DEF AsleepInv
      <3>4. availIdx \in Idx /\ lastAvail \in Idx /\ numAdded \in Idx
        BY RingAssumption, BlkAssumption DEF TypeOK, Idx
      <3>5. availIdx = lastAvail
        BY <3>1, <3>2, <3>3, <3>4, NeedEvent
      <3> QED
        BY <3>4, <3>5, SubInIdx
    <2>8. AsleepInv'
      BY <2>1, <2>2, <2>3, <2>7, Zenon DEF AsleepInv
    <2> QED
      BY <2>6, <2>8 DEF KickInv
  <1>3. CASE Handler
    BY <1>0, <1>3, Zenon DEF Handler, vm_interrupt, vring_interrupt, virtqueue_get_buf,
          virtqueue_enable_cb, virtqueue_poll
  <1>4. CASE MainThread
    <2>1. CASE notify_vq
      <3>1. subPc = "notify" /\ subPc' = "idle" /\ efd'
        BY <2>1, Zenon DEF notify_vq
      <3>2. UNCHANGED <<ioDone, numAdded, lastAvail, drvFeatures, ioPc, availEvent, availIdx>>
        BY <2>1, Zenon DEF notify_vq
      <3> QED
        BY <1>a, <3>1, <3>2 DEF KickInv, StopInv, AddedInv, FreshInv, PublishedInv, AsleepInv,
              DrvEventIdx
    <2>2. CASE interrupt_status \/ interrupt_ack_load \/ interrupt_ack_store
      BY <1>0, <2>2, Zenon DEF interrupt_status, interrupt_ack_load, interrupt_ack_store
    <2>3. CASE exit_vq_notify
      <3>1. efd'
        BY <2>3, Zenon DEF exit_vq_notify
      <3>2. UNCHANGED <<ioDone, subPc, numAdded, lastAvail, drvFeatures, ioPc, availEvent,
                        availIdx>>
        BY <2>3, Zenon DEF exit_vq_notify
      <3> QED
        BY <1>a, <3>1, <3>2 DEF KickInv, StopInv, AddedInv, FreshInv, PublishedInv, AsleepInv,
              DrvEventIdx
    <2>4. CASE exit_vq_joined
      <3>1. ioPc' = "none" /\ subPc' = "down" /\ lastAvail' = 0
        BY <2>4, Zenon DEF exit_vq_joined
      <3> QED
        BY <3>1 DEF KickInv, StopInv, AddedInv, FreshInv, PublishedInv, AsleepInv
    <2> QED
      BY <1>4, <2>1, <2>2, <2>3, <2>4, Zenon DEF MainThread
  <1>5. ASSUME NEW fs \in FeatureSets, init_vq(fs) PROVE KickInv'
    <2>1. /\ subPc = "down" /\ subPc' = "idle" /\ numAdded' = 0 /\ availEvent' = 0
          /\ availIdx' = 0 /\ UNCHANGED lastAvail
      BY <1>5, Zenon DEF init_vq
    <2>2. ~ioDone'
      BY <1>5, Zenon DEF init_vq
    <2>3. lastAvail = 0
      BY <1>a, <2>1 DEF FreshInv
    <2>4. IdxSub(availIdx, lastAvail)' = 0
      BY <2>1, <2>3 DEF IdxSub
    <2> QED
      BY <2>1, <2>2, <2>3, <2>4 DEF KickInv, StopInv, AddedInv, FreshInv, PublishedInv, AsleepInv
  <1>6. CASE exit_vq
    <2>1. subPc' = "reset" /\ UNCHANGED <<lastAvail, drvFeatures, ioPc, availEvent>>
      BY <1>6, Zenon DEF exit_vq
    <2> QED
      BY <1>a, <2>1 DEF KickInv, StopInv, AddedInv, FreshInv, PublishedInv, AsleepInv, DrvEventIdx
  <1>7. CASE IoThread
    <2>0. ASSUME ioPc # "none" PROVE subPc # "down"
      BY <2>0, Zenon DEF LifeInv
    <2>1. CASE io_loop
      <3>1. ioPc = "loop" /\ ioPc' \in {"exited", "read"}
        BY <2>1, Zenon DEF io_loop
      <3>2. UNCHANGED <<ioDone, subPc, numAdded, lastAvail, drvFeatures, availEvent, efd,
                        availIdx>>
        BY <2>1, Zenon DEF io_loop
      <3> QED
        BY <1>a, <3>1, <3>2 DEF KickInv, StopInv, AddedInv, FreshInv, PublishedInv, AsleepInv,
              DrvEventIdx
    <2>2. CASE io_read
      <3>1. ioPc = "read" /\ ioPc' = "avail_event" /\ Control
        BY <2>2, Zenon DEF io_read
      <3> QED
        BY <1>b, <2>0, <3>1
    <2>3. CASE avail_event
      <3>1. ioPc = "avail_event" /\ ioPc' = "avail_idx" /\ Control /\ UNCHANGED <<lastAvail, efd>>
        BY <2>3, Zenon DEF avail_event
      <3>2. useEventIdx <=> DrvEventIdx
        BY <3>1, AgreeOnEventIdx, Zenon DEF LifeInv
      <3>3. DrvEventIdx => availEvent' = lastAvail
        BY <2>3, <3>2, Zenon DEF avail_event
      <3> QED
        BY <1>a, <3>1, <3>3 DEF KickInv, StopInv, AddedInv, FreshInv, PublishedInv, AsleepInv,
              DrvEventIdx
    <2>4. CASE no_more
      <3>1. ioPc = "avail_idx" /\ ioPc' = "loop" /\ Control /\ UNCHANGED <<lastAvail, availEvent, efd>>
        BY <2>4, Zenon DEF no_more
      <3>2. availIdx = lastAvail \/ ioDone
        BY <2>4, Zenon DEF no_more, available
      <3>3. IdxSub(availIdx, lastAvail) = 0 \/ subPc \in {"reset", "down"}
        BY <1>a, <3>2, SubInIdx, Zenon DEF StopInv, TypeOK
      <3>4. numAdded \in Nat
        BY DEF TypeOK
      <3> QED
        BY <1>a, <3>1, <3>3, <3>4 DEF KickInv, StopInv, AddedInv, FreshInv, PublishedInv,
              AsleepInv, DrvEventIdx
    <2>5. CASE pop
      <3>1. ioPc = "avail_idx" /\ ioPc' = "request" /\ Control
        BY <2>5, Zenon DEF pop
      <3> QED
        BY <1>b, <2>0, <3>1
    <2>6. ASSUME NEW o \in Outcomes, complete(o) PROVE KickInv'
      <3>1. ioPc = "request" /\ ioPc' = "used_elem" /\ Control
        BY <2>6, Zenon DEF complete
      <3> QED
        BY <1>b, <2>0, <3>1
    <2>7. ASSUME NEW o \in Outcomes, drop(o) PROVE KickInv'
      <3>1. ioPc = "request" /\ ioPc' = "avail_event" /\ Control
        BY <2>7, Zenon DEF drop
      <3> QED
        BY <1>b, <2>0, <3>1
    <2>8. CASE set_used_elem
      <3>1. ioPc = "used_elem" /\ ioPc' = "used_idx" /\ Control
        BY <2>8, Zenon DEF set_used_elem
      <3> QED
        BY <1>b, <2>0, <3>1
    <2>9. CASE used_idx_advance
      <3>1. ioPc = "used_idx" /\ ioPc' = "should_signal" /\ Control
        BY <2>9, Zenon DEF used_idx_advance
      <3> QED
        BY <1>b, <2>0, <3>1
    <2>10. CASE should_signal
      <3>1. ioPc = "should_signal" /\ ioPc' \in {"signal", "avail_event"} /\ Control
        BY <2>10, Zenon DEF should_signal
      <3> QED
        BY <1>b, <2>0, <3>1
    <2>11. CASE signal_vq
      <3>1. ioPc = "signal" /\ ioPc' = "irq" /\ Control
        BY <2>11, Zenon DEF signal_vq
      <3> QED
        BY <1>b, <2>0, <3>1
    <2>12. CASE irq_trigger
      <3>1. ioPc = "irq" /\ ioPc' = "avail_event" /\ Control
        BY <2>12, Zenon DEF irq_trigger
      <3> QED
        BY <1>b, <2>0, <3>1
    <2> QED
      BY <1>7, <2>1, <2>2, <2>3, <2>4, <2>5, <2>6, <2>7, <2>8, <2>9, <2>10, <2>11, <2>12, Zenon
         DEF IoThread
  <1>8. CASE UNCHANGED vars
    BY <1>0, <1>8, Zenon DEF vars
  <1> QED
    BY <1>1, <1>2, <1>3, <1>4, <1>5, <1>6, <1>7, <1>8, Zenon DEF Next

\* For every driver whose features the device reads right, the I/O thread never
\* sleeps on a request the driver has finished announcing: the avail_event
\* protocol of virt_queue__available against virtqueue_kick_prepare.
THEOREM KicksNotLost == FeaturesAgree => (Safety => []NoLostKick)
  <1> SUFFICES ASSUME FeaturesAgree PROVE Safety => []NoLostKick
    OBVIOUS
  <1>1. TypeOK /\ KickInv => NoLostKick
    <2> SUFFICES ASSUME TypeOK, KickInv, ioPc = "read", ~efd, subPc = "idle"
                 PROVE  availIdx = lastAvail
      BY Zenon DEF NoLostKick
    <2>1. numAdded = 0
      BY DEF KickInv, AddedInv
    <2>2. IdxSub(availIdx, lastAvail) <= 0
      BY <2>1 DEF KickInv, AsleepInv
    <2>3. availIdx \in Idx /\ lastAvail \in Idx
      BY DEF TypeOK
    <2> QED
      BY <2>2, <2>3, SubInIdx DEF Idx
  <1>2. TypeOK /\ LifeInv /\ AgreeInv /\ KickInv /\ [Next]_vars => KickInv'
    BY NextKickInv
  <1> QED
    BY <1>1, <1>2, TypeCorrect, InitLifeInv, NextLifeInv, InitAgreeInv, NextAgreeInv,
       InitKickInv, PTL DEF Safety

(***************************************************************************)
(* Distances between indices                                               *)
(***************************************************************************)

\* Advancing the second index takes one from the distance.
LEMMA SubIncRight ==
    \A a, b \in Idx : a # b => IdxSub(a, IdxInc(b)) = IdxSub(a, b) - 1
  BY RingAssumption, SMT DEF IdxSub, IdxInc, Idx

\* Advancing the first adds one, unless the distance is the largest there is.
LEMMA SubIncLeft ==
    \A a, b \in Idx : IdxSub(a, b) + 1 < IdxMod => IdxSub(IdxInc(a), b) = IdxSub(a, b) + 1
  BY RingAssumption, SMT DEF IdxSub, IdxInc, Idx

\* Division with remainder.
LEMMA DivMod == \A i, d \in Nat : d # 0 => \E q \in Nat : i = d * q + (i % d)
  <1> SUFFICES ASSUME NEW i \in Nat, NEW d \in Nat, d # 0
               PROVE  \E q \in Nat : i = d * q + (i % d)
    OBVIOUS
  <1> WITNESS i \div d \in Nat
  <1> QED
    OBVIOUS

\* The remainder below d is the only one.
LEMMA ModUnique ==
    ASSUME NEW d \in Nat, d # 0, NEW q \in Int, NEW r \in 0 .. d - 1
    PROVE  (d * q + r) % d = r
  OBVIOUS

\* Fewer than Num steps on, the slot is another one.
LEMMA NextSlots ==
    ASSUME NEW i \in Nat, NEW k \in 1 .. Num - 1
    PROVE  (i + k) % Num # i % Num
  <1>0. Num \in Nat /\ Num # 0 /\ k \in Nat /\ i + k \in Nat
    BY RingAssumption
  <1>1. PICK q \in Nat : i = Num * q + (i % Num)
    BY <1>0, DivMod, Zenon
  <1>2. PICK p \in Nat : i + k = Num * p + ((i + k) % Num)
    BY <1>0, DivMod, Zenon
  <1> SUFFICES ASSUME (i + k) % Num = i % Num PROVE FALSE
    OBVIOUS
  <1>4. i % Num \in 0 .. Num - 1
    BY <1>0
  <1>5. k = Num * (p - q)
    BY <1>0, <1>1, <1>2, <1>4
  <1>6. p - q >= 1 => Num * (p - q) >= Num
    BY <1>0
  <1>7. p - q <= 0 => Num * (p - q) <= 0
    BY <1>0
  <1> QED
    BY <1>0, <1>5, <1>6, <1>7

\* Going round the index does not change the slot.
LEMMA SlotWraps ==
    ASSUME NEW i \in Nat, i >= IdxMod
    PROVE  (i - IdxMod) % Num = i % Num
  <1>0. Num \in Nat /\ Num # 0 /\ IdxMod \in Nat /\ IdxMod % Num = 0
    BY RingAssumption
  <1>1. PICK q \in Nat : i = Num * q + (i % Num)
    BY <1>0, DivMod, Zenon
  <1>2. PICK m \in Nat : IdxMod = Num * m + (IdxMod % Num)
    BY <1>0, DivMod, Zenon
  <1>3. i % Num \in 0 .. Num - 1
    BY <1>0
  <1>4. i - IdxMod = Num * (q - m) + (i % Num)
    <2>1. IdxMod = Num * m
      BY <1>0, <1>2
    <2>2. Num * (q - m) = Num * q - Num * m
      BY <1>0
    <2>3. Num * q \in Nat /\ Num * m \in Nat
      BY <1>0
    <2> QED
      BY <1>1, <1>3, <2>1, <2>2, <2>3
  <1>5. (Num * (q - m) + (i % Num)) % Num = i % Num
    BY <1>0, <1>3, ModUnique
  <1> QED
    BY <1>4, <1>5

\* vring->ring[idx % num] of an index some entries on.
LEMMA SlotOfAdd == \A i \in Idx, n \in 0 .. Num : Slot(IdxAdd(i, n)) = (i + n) % Num
  <1> TAKE i \in Idx, n \in 0 .. Num
  <1>1. i \in Nat /\ n \in Nat /\ i + n \in Nat /\ IdxMod \in Nat
    BY RingAssumption DEF Idx
  <1>2. CASE i + n >= IdxMod
    BY <1>1, <1>2, SlotWraps DEF Slot, IdxAdd
  <1>3. CASE i + n < IdxMod
    BY <1>1, <1>3 DEF Slot, IdxAdd
  <1> QED
    BY <1>1, <1>2, <1>3

\* The slots of a window of Num indices are all different.
LEMMA SlotApart ==
    \A i \in Idx : \A m, n \in 0 .. Num - 1 :
        m < n => Slot(IdxAdd(i, m)) # Slot(IdxAdd(i, n))
  <1> TAKE i \in Idx
  <1> TAKE m, n \in 0 .. Num - 1
  <1> HAVE m < n
  <1>1. /\ i + m \in Nat /\ n - m \in 1 .. Num - 1 /\ (i + m) + (n - m) = i + n
        /\ m \in 0 .. Num /\ n \in 0 .. Num
    BY RingAssumption DEF Idx
  <1>2. (i + n) % Num # (i + m) % Num
    BY <1>1, NextSlots
  <1> QED
    BY <1>1, <1>2, SlotOfAdd

\* The index a distance away, and the window one entry on.
LEMMA AddSub ==
    \A a, b \in Idx :
        /\ IdxAdd(b, IdxSub(a, b)) = a /\ IdxAdd(b, 0) = b
        /\ \A n \in 0 .. Num - 1 : IdxAdd(IdxInc(b), n) = IdxAdd(b, n + 1)
  BY RingAssumption, SMT DEF IdxAdd, IdxSub, IdxInc, Idx

\* ... is an index.
LEMMA AddInIdx == \A b \in Idx, n \in 0 .. Num : IdxAdd(b, n) \in Idx
  BY RingAssumption, SMT DEF IdxAdd, Idx

(***************************************************************************)
(* Windows of the rings                                                    *)
(***************************************************************************)

\* The entries of a ring from one index up to another.
Window(ring, first, next) ==
    [n \in 1 .. IdxSub(next, first) |-> ring[Slot(IdxAdd(first, n - 1))]]

\* The heads in a window, and that none is there twice.
Held(w) == {w[n] : n \in DOMAIN w}
Once(w) == \A m, n \in DOMAIN w : w[m] = w[n] => m = n

\* Positions of a window of at most Num entries.
LEMMA Positions ==
    \A k \in 0 .. Num : \A n \in 1 .. k :
        /\ n - 1 \in 0 .. Num - 1 /\ n - 1 < k /\ (n - 1) + 1 = n
        /\ n < k => n \in 0 .. Num - 1 /\ n + 1 \in 1 .. k /\ (n + 1) - 1 = n
  BY RingAssumption

\* A window holds heads.
LEMMA WindowHeld ==
    ASSUME NEW ring \in [Heads -> Heads], NEW first \in Idx, NEW next \in Idx
    PROVE  /\ DOMAIN Window(ring, first, next) = 1 .. IdxSub(next, first)
           /\ IdxSub(next, first) <= Num => Held(Window(ring, first, next)) \subseteq Heads
  <1>1. DOMAIN Window(ring, first, next) = 1 .. IdxSub(next, first)
    BY DEF Window
  <1>2. ASSUME IdxSub(next, first) <= Num, NEW n \in 1 .. IdxSub(next, first)
        PROVE  Window(ring, first, next)[n] \in Heads
    <2>1. n - 1 \in 0 .. Num
      BY <1>2, SubInIdx, RingAssumption DEF Idx
    <2>2. Slot(IdxAdd(first, n - 1)) \in Heads
      BY <2>1, AddInIdx, SlotInRing
    <2> QED
      BY <1>2, <2>2 DEF Window
  <1> QED
    BY <1>1, <1>2 DEF Held

\* Writing the entry at the end of a window that is not full leaves it alone: the
\* slots do not meet.
LEMMA WindowWrite ==
    ASSUME NEW ring \in [Heads -> Heads], NEW first \in Idx, NEW next \in Idx, NEW h \in Heads,
           IdxSub(next, first) < Num
    PROVE  Window([ring EXCEPT ![Slot(next)] = h], first, next) = Window(ring, first, next)
  <1> DEFINE k == IdxSub(next, first)
  <1>1. k \in 0 .. Num - 1
    BY SubInIdx, RingAssumption DEF Idx
  <1>2. next = IdxAdd(first, k)
    BY AddSub
  <1>3. ASSUME NEW n \in 1 .. k
        PROVE  [ring EXCEPT ![Slot(next)] = h][Slot(IdxAdd(first, n - 1))]
                 = ring[Slot(IdxAdd(first, n - 1))]
    <2>1. n - 1 \in 0 .. Num - 1 /\ n - 1 < k
      BY <1>1, Positions, RingAssumption
    <2>2. Slot(IdxAdd(first, n - 1)) # Slot(next)
      BY <1>1, <1>2, <2>1, SlotApart
    <2> QED
      BY <2>2
  <1> QED
    BY <1>3 DEF Window

\* Advancing the end adds the entry there, position by position ...
LEMMA WindowGrowAt ==
    ASSUME NEW ring \in [Heads -> Heads], NEW first \in Idx, NEW next \in Idx, NEW k,
           k = IdxSub(next, first), k < Num
    PROVE  /\ DOMAIN Window(ring, first, next) = 1 .. k
           /\ DOMAIN Window(ring, first, IdxInc(next)) = 1 .. k + 1
           /\ \A n \in 1 .. k : Window(ring, first, IdxInc(next))[n] = Window(ring, first, next)[n]
           /\ Window(ring, first, IdxInc(next))[k + 1] = ring[Slot(next)]
           /\ k \in 0 .. Num - 1 /\ 1 .. k + 1 = 1 .. k \cup {k + 1}
  <1>1. k \in 0 .. Num - 1 /\ Num < IdxMod /\ Num \in Nat /\ IdxMod \in Nat
    BY SubInIdx, RingAssumption DEF Idx
  <1>2. next = IdxAdd(first, k)
    BY AddSub
  <1>3. IdxSub(IdxInc(next), first) = k + 1
    BY <1>1, SubIncLeft
  <1>4. k + 1 \in 1 .. k + 1 /\ (k + 1) - 1 = k
    BY <1>1
  <1>5. 1 .. k + 1 = 1 .. k \cup {k + 1}
    BY <1>1
  <1>6. Window(ring, first, IdxInc(next))[k + 1] = ring[Slot(next)]
    BY <1>2, <1>3, <1>4 DEF Window
  <1>7. \A n \in 1 .. k : Window(ring, first, IdxInc(next))[n] = Window(ring, first, next)[n]
    BY <1>1, <1>3 DEF Window
  <1> QED
    BY <1>1, <1>3, <1>5, <1>6, <1>7 DEF Window

\* ... and as a set.
LEMMA WindowGrow ==
    ASSUME NEW ring \in [Heads -> Heads], NEW first \in Idx, NEW next \in Idx,
           IdxSub(next, first) < Num,
           Once(Window(ring, first, next)),
           ring[Slot(next)] \notin Held(Window(ring, first, next))
    PROVE  /\ Held(Window(ring, first, IdxInc(next)))
                = Held(Window(ring, first, next)) \cup {ring[Slot(next)]}
           /\ Once(Window(ring, first, IdxInc(next)))
  <1> DEFINE k == IdxSub(next, first)
             w == Window(ring, first, next)
             x == Window(ring, first, IdxInc(next))
  <1>1. /\ DOMAIN w = 1 .. k /\ DOMAIN x = 1 .. k + 1
        /\ \A n \in 1 .. k : x[n] = w[n]
        /\ x[k + 1] = ring[Slot(next)]
        /\ 1 .. k + 1 = 1 .. k \cup {k + 1}
    BY WindowGrowAt
  <1> HIDE DEF k, w, x
  <1>2. Held(x) = Held(w) \cup {ring[Slot(next)]}
    BY <1>1 DEF Held
  <1>3. Once(x)
    <2>1. \A n \in 1 .. k : w[n] # ring[Slot(next)]
      BY <1>1 DEF Held, w
    <2> QED
      BY <1>1, <2>1 DEF Once, w
  <1> QED
    BY <1>2, <1>3 DEF w, x

\* Advancing the beginning takes the entry there away, position by position ...
LEMMA WindowShrinkAt ==
    ASSUME NEW ring \in [Heads -> Heads], NEW first \in Idx, NEW next \in Idx, NEW k,
           k = IdxSub(next, first), first # next, k <= Num
    PROVE  /\ DOMAIN Window(ring, first, next) = 1 .. k
           /\ DOMAIN Window(ring, IdxInc(first), next) = 1 .. k - 1
           /\ \A n \in 1 .. k - 1 :
                Window(ring, IdxInc(first), next)[n] = Window(ring, first, next)[n + 1]
           /\ Window(ring, first, next)[1] = ring[Slot(first)]
           /\ k \in 1 .. Num
  <1> DEFINE w == Window(ring, first, next)
             x == Window(ring, IdxInc(first), next)
  <1>1. k \in 1 .. Num
    BY SubInIdx, RingAssumption DEF Idx
  <1>2. IdxSub(next, IdxInc(first)) = k - 1
    BY SubIncRight
  <1>3. DOMAIN w = 1 .. k /\ DOMAIN x = 1 .. k - 1
    BY <1>2 DEF Window
  <1>4. ASSUME NEW n \in 1 .. k - 1 PROVE x[n] = w[n + 1]
    <2>1. n \in 1 .. k /\ n < k
      BY <1>1
    <2>2. n - 1 \in 0 .. Num - 1 /\ n + 1 \in 1 .. k /\ (n - 1) + 1 = n /\ (n + 1) - 1 = n
      BY <1>1, <2>1, Positions, RingAssumption
    <2>3. IdxAdd(IdxInc(first), n - 1) = IdxAdd(first, n)
      BY <2>2, AddSub
    <2> QED
      BY <1>2, <2>2, <2>3 DEF Window
  <1>5. w[1] = ring[Slot(first)]
    <2>1. 1 \in 1 .. k /\ 1 - 1 = 0
      BY <1>1
    <2>2. IdxAdd(first, 0) = first
      BY AddSub
    <2> QED
      BY <2>1, <2>2 DEF Window
  <1> QED
    BY <1>1, <1>3, <1>4, <1>5

\* ... and as a set.
LEMMA WindowShrink ==
    ASSUME NEW ring \in [Heads -> Heads], NEW first \in Idx, NEW next \in Idx,
           first # next, IdxSub(next, first) <= Num,
           Once(Window(ring, first, next))
    PROVE  /\ ring[Slot(first)] \in Held(Window(ring, first, next))
           /\ Held(Window(ring, IdxInc(first), next))
                = Held(Window(ring, first, next)) \ {ring[Slot(first)]}
           /\ Once(Window(ring, IdxInc(first), next))
  <1> DEFINE k == IdxSub(next, first)
             w == Window(ring, first, next)
             x == Window(ring, IdxInc(first), next)
  <1>1. /\ DOMAIN w = 1 .. k /\ DOMAIN x = 1 .. k - 1
        /\ \A n \in 1 .. k - 1 : x[n] = w[n + 1]
        /\ w[1] = ring[Slot(first)]
        /\ k \in 1 .. Num
    BY WindowShrinkAt
  <1> HIDE DEF k, w, x
  <1>2. Once(w)
    BY DEF w
  <1>3. ring[Slot(first)] \in Held(w)
    BY <1>1 DEF Held
  <1>4. Held(x) \subseteq Held(w) \ {ring[Slot(first)]}
    <2> SUFFICES ASSUME NEW n \in 1 .. k - 1 PROVE x[n] \in Held(w) \ {ring[Slot(first)]}
      BY <1>1 DEF Held
    <2>1. n + 1 \in 1 .. k /\ n + 1 # 1 /\ 1 \in 1 .. k
      BY <1>1
    <2>2. w[n + 1] # w[1]
      BY <1>1, <1>2, <2>1 DEF Once
    <2> QED
      BY <1>1, <2>1, <2>2 DEF Held
  <1>5. Held(w) \ {ring[Slot(first)]} \subseteq Held(x)
    <2> SUFFICES ASSUME NEW n \in 1 .. k, w[n] # w[1] PROVE w[n] \in Held(x)
      BY <1>1 DEF Held
    <2>1. n - 1 \in 1 .. k - 1 /\ (n - 1) + 1 = n
      BY <1>1
    <2>2. w[n] = x[n - 1]
      BY <1>1, <2>1
    <2> QED
      BY <1>1, <2>1, <2>2 DEF Held
  <1>6. Once(x)
    <2> SUFFICES ASSUME NEW m \in 1 .. k - 1, NEW n \in 1 .. k - 1, x[m] = x[n] PROVE m = n
      BY <1>1 DEF Once
    <2>1. m + 1 \in 1 .. k /\ n + 1 \in 1 .. k
      BY <1>1
    <2>2. w[m + 1] = w[n + 1]
      BY <1>1
    <2>3. m + 1 = n + 1
      BY <1>1, <1>2, <2>1, <2>2 DEF Once
    <2> QED
      BY <2>3
  <1> QED
    BY <1>3, <1>4, <1>5, <1>6 DEF w, x

(***************************************************************************)
(* The indices of a queue nobody is bound to                               *)
(***************************************************************************)

\* memset(vq, 0, ...) of virtio_exit_vq: init_vq finds the indices at 0.
FreshIdxInv == subPc = "down" => lastAvail = 0 /\ lastSignalled = 0

LEMMA InitFreshIdxInv == Init => FreshIdxInv
  BY Zenon DEF Init, FreshIdxInv

LEMMA NextFreshIdxInv == LifeInv /\ FreshIdxInv /\ [Next]_vars => FreshIdxInv'
  <1> SUFFICES ASSUME LifeInv, FreshIdxInv, [Next]_vars PROVE FreshIdxInv'
    OBVIOUS
  <1> USE DEF FreshIdxInv, ringVars, subVars, irqVars, vqVars, ioVars, mmioVars, pastVars
  <1>1. ASSUME NEW h \in Heads, NEW t \in Types, virtqueue_add(h, t) PROVE FreshIdxInv'
    BY <1>1, Zenon DEF virtqueue_add
  <1>2. CASE virtqueue_kick_prepare
    <2>1. subPc' # "down"
      BY <1>2, Zenon DEF virtqueue_kick_prepare
    <2> QED
      BY <2>1
  <1>3. CASE Handler
    BY <1>3, Zenon DEF Handler, vm_interrupt, vring_interrupt, virtqueue_get_buf,
          virtqueue_enable_cb, virtqueue_poll
  <1>4. CASE MainThread
    BY <1>4, Zenon DEF MainThread, notify_vq, interrupt_status, interrupt_ack_load,
          interrupt_ack_store, exit_vq_notify, exit_vq_joined
  <1>5. ASSUME NEW fs \in FeatureSets, init_vq(fs) PROVE FreshIdxInv'
    BY <1>5, Zenon DEF init_vq
  <1>6. CASE exit_vq
    BY <1>6, Zenon DEF exit_vq
  <1>7. CASE IoThread
    <2>1. subPc # "down" /\ subPc' = subPc
      BY <1>7, Zenon DEF LifeInv, IoThread, io_loop, io_read, avail_event, no_more, pop, complete,
            drop, set_used_elem, used_idx_advance, should_signal, signal_vq, irq_trigger
    <2> QED
      BY <2>1
  <1>8. CASE UNCHANGED vars
    BY <1>8, Zenon DEF vars
  <1> QED
    BY <1>1, <1>2, <1>3, <1>4, <1>5, <1>6, <1>7, <1>8, Zenon DEF Next

(***************************************************************************)
(* The room in the rings                                                   *)
(***************************************************************************)

\* 1 while a request is in the hands of the I/O thread
Taken == IF ioPc \in {"request", "used_elem", "used_idx"} THEN 1 ELSE 0
\* submitted and not returned
Outstanding == IdxSub(availIdx, lastAvail) + Taken

\* The used ring does not go round past what the driver has seen, nor the used
\* index a whole circle past the last interrupt.
BoundInv ==
    enabled => /\ Cardinality(free) + Outstanding + IdxSub(usedIdx, lastUsed) <= Num
               /\ useEventIdx => IdxSub(usedIdx, lastSignalled) + Outstanding <= WrapMax

LEMMA HeadsCounted == IsFiniteSet(Heads) /\ Cardinality(Heads) = Num
  <1>1. /\ IsFiniteSet(0 .. Num - 1)
        /\ Cardinality(0 .. Num - 1) = IF 0 > Num - 1 THEN 0 ELSE (Num - 1) - 0 + 1
    BY RingAssumption, FS_Interval
  <1> QED
    BY <1>1, RingAssumption DEF Heads

LEMMA FreeCounted ==
    ASSUME NEW S \in SUBSET Heads
    PROVE  /\ IsFiniteSet(S) /\ Cardinality(S) \in Nat
           /\ \A h \in S : Cardinality(S \ {h}) = Cardinality(S) - 1
           /\ \A h \in Heads : Cardinality(S \cup {h}) <= Cardinality(S) + 1
  <1>1. IsFiniteSet(S)
    BY HeadsCounted, FS_Subset
  <1>2. Cardinality(S) \in Nat
    BY <1>1, FS_CardinalityType
  <1>3. ASSUME NEW h \in S PROVE Cardinality(S \ {h}) = Cardinality(S) - 1
    BY <1>1, FS_RemoveElement
  <1>4. ASSUME NEW h \in Heads PROVE Cardinality(S \cup {h}) <= Cardinality(S) + 1
    <2>1. Cardinality(S \cup {h}) \in {Cardinality(S), Cardinality(S) + 1}
      BY <1>1, FS_AddElement, Zenon
    <2> QED
      BY <1>2, <2>1
  <1> QED
    BY <1>1, <1>2, <1>3, <1>4

LEMMA ServiceCounted == Cardinality(InService) = Taken
  <1>1. CASE ioPc \in {"request", "used_elem", "used_idx"}
    BY <1>1, FS_Singleton DEF InService, Taken
  <1>2. CASE ioPc \notin {"request", "used_elem", "used_idx"}
    BY <1>2, FS_EmptySet DEF InService, Taken
  <1> QED
    BY <1>1, <1>2

LEMMA InitBoundInv == Init => BoundInv
  BY Zenon DEF Init, BoundInv

LEMMA NextBoundInv ==
    TypeOK /\ FreshIdxInv /\ BoundInv /\ [Next]_vars => BoundInv'
  <1> SUFFICES ASSUME TypeOK, FreshIdxInv, BoundInv, [Next]_vars PROVE BoundInv'
    OBVIOUS
  <1> USE DEF ringVars, subVars, irqVars, vqVars, ioVars, mmioVars, pastVars
  <1>a. /\ availIdx \in Idx /\ usedIdx \in Idx /\ lastUsed \in Idx
        /\ lastAvail \in Idx /\ lastSignalled \in Idx
        /\ free \in SUBSET Heads /\ usedRing \in [Heads -> Heads]
    BY DEF TypeOK
  <1>b. Cardinality(free) \in Nat
    BY <1>a, FreeCounted
  <1>c. \A a, b \in Idx : IdxSub(a, b) \in Nat
    BY SubInIdx DEF Idx
  <1>d. Taken \in {0, 1} /\ Outstanding \in Nat
    BY <1>a, <1>c DEF Taken, Outstanding
  <1>e. Num \in Nat /\ WrapMax \in Nat
    BY RingAssumption, BlkAssumption
  <1>f. ASSUME UNCHANGED <<enabled, useEventIdx, usedIdx, lastUsed, lastSignalled, free>>,
               Outstanding' \in {Outstanding, Outstanding - 1}
        PROVE  BoundInv'
    BY <1>a, <1>b, <1>c, <1>d, <1>e, <1>f, SMT DEF BoundInv
  <1>g. ASSUME UNCHANGED <<enabled, useEventIdx, usedIdx, lastUsed, lastSignalled, free,
                           availIdx, lastAvail, ioPc>>
        PROVE  BoundInv'
    BY <1>g DEF BoundInv, Outstanding, Taken
  <1>1. ASSUME NEW h \in Heads, NEW t \in Types, virtqueue_add(h, t) PROVE BoundInv'
    <2>1. h \in free /\ free' = free \ {h} /\ availIdx' = IdxInc(availIdx)
      BY <1>1, Zenon DEF virtqueue_add
    <2>2. UNCHANGED <<enabled, useEventIdx, usedIdx, lastUsed, lastSignalled, lastAvail, ioPc>>
      BY <1>1, Zenon DEF virtqueue_add
    <2>3. Cardinality(free') = Cardinality(free) - 1
      BY <1>a, <2>1, FreeCounted
    <2>4. IdxSub(availIdx, lastAvail)' \in {0, IdxSub(availIdx, lastAvail) + 1}
      BY <1>a, <2>1, <2>2, SubInc
    <2>5. Outstanding' <= Outstanding + 1 /\ Outstanding' \in Nat
      BY <1>a, <1>c, <1>d, <2>2, <2>4, SMT DEF Outstanding, Taken
    <2>6. useEventIdx => IdxSub(usedIdx, lastSignalled) + Outstanding < WrapMax
      <3>1. useEventIdx => IdxSub(usedIdx, lastSignalled) + IdxSub(availIdx, lastAvail)
                             + Cardinality(InService) < WrapMax
        BY <1>1, Zenon DEF virtqueue_add, WithinWrap
      <3> QED
        BY <1>a, <1>c, <1>d, <3>1, ServiceCounted DEF Outstanding
    <2> QED
      BY <1>a, <1>b, <1>c, <1>d, <1>e, <2>2, <2>3, <2>5, <2>6, SMT DEF BoundInv
  <1>2. CASE virtqueue_kick_prepare
    BY <1>2, <1>g, Zenon DEF virtqueue_kick_prepare
  <1>3. CASE Handler
    <2>1. CASE virtqueue_get_buf /\ usedIdx # lastUsed
      <3>1. /\ free' = free \cup {usedRing[Slot(lastUsed)]} /\ lastUsed' = IdxInc(lastUsed)
            /\ UNCHANGED <<enabled, useEventIdx, usedIdx, lastSignalled, availIdx, lastAvail, ioPc>>
        BY <2>1, Zenon DEF virtqueue_get_buf
      <3>2. Cardinality(free') <= Cardinality(free) + 1
        <4>1. usedRing[Slot(lastUsed)] \in Heads
          BY <1>a, SlotInRing
        <4> QED
          BY <1>a, <3>1, <4>1, FreeCounted
      <3>3. Cardinality(free') \in Nat
        <4>1. free' \in SUBSET Heads
          BY <1>a, <3>1, SlotInRing
        <4> QED
          BY <4>1, FreeCounted
      <3>4. IdxSub(usedIdx, lastUsed)' = IdxSub(usedIdx, lastUsed) - 1
        BY <1>a, <2>1, <3>1, SubIncRight
      <3>5. Outstanding' = Outstanding
        BY <3>1 DEF Outstanding, Taken
      <3> QED
        BY <1>a, <1>b, <1>c, <1>d, <1>e, <3>1, <3>2, <3>3, <3>4, <3>5, SMT DEF BoundInv
    <2>2. CASE ~(virtqueue_get_buf /\ usedIdx # lastUsed)
      BY <1>3, <1>g, <2>2, Zenon DEF Handler, vm_interrupt, vring_interrupt, virtqueue_get_buf,
            virtqueue_enable_cb, virtqueue_poll
    <2> QED
      BY <2>1, <2>2
  <1>4. CASE MainThread
    <2>1. CASE exit_vq_joined
      <3>1. ~enabled'
        BY <2>1, Zenon DEF exit_vq_joined
      <3> QED
        BY <3>1 DEF BoundInv
    <2>2. CASE ~exit_vq_joined
      BY <1>4, <1>g, <2>2, Zenon DEF MainThread, notify_vq, interrupt_status,
            interrupt_ack_load, interrupt_ack_store, exit_vq_notify
    <2> QED
      BY <2>1, <2>2
  <1>5. ASSUME NEW fs \in FeatureSets, init_vq(fs) PROVE BoundInv'
    <2>1. /\ subPc = "down" /\ availIdx' = 0 /\ usedIdx' = 0 /\ lastUsed' = 0
          /\ free' = Heads /\ ioPc' = "loop" /\ UNCHANGED <<lastAvail, lastSignalled>>
      BY <1>5, Zenon DEF init_vq
    <2>2. lastAvail = 0 /\ lastSignalled = 0
      BY <2>1, Zenon DEF FreshIdxInv
    <2>3. IdxSub(0, 0) = 0
      BY DEF IdxSub
    <2>4. Outstanding' = 0 /\ IdxSub(usedIdx, lastUsed)' = 0 /\ IdxSub(usedIdx, lastSignalled)' = 0
      BY <2>1, <2>2, <2>3 DEF Outstanding, Taken
    <2> QED
      BY <1>e, <2>1, <2>4, HeadsCounted DEF BoundInv
  <1>6. CASE exit_vq
    BY <1>6, <1>g, Zenon DEF exit_vq
  <1>7. CASE IoThread
    <2>1. CASE pop
      <3>1. /\ availIdx # lastAvail /\ lastAvail' = IdxInc(lastAvail)
            /\ ioPc = "avail_idx" /\ ioPc' = "request"
            /\ UNCHANGED <<enabled, useEventIdx, usedIdx, lastUsed, lastSignalled, free, availIdx>>
        BY <2>1, Zenon DEF pop, available
      <3>2. IdxSub(availIdx, lastAvail)' = IdxSub(availIdx, lastAvail) - 1
        BY <1>a, <3>1, SubIncRight
      <3>3. Outstanding' = Outstanding
        BY <1>a, <1>c, <3>1, <3>2 DEF Outstanding, Taken
      <3> QED
        BY <1>f, <3>1, <3>3
    <2>2. CASE \E o \in Outcomes : complete(o) \/ drop(o)
      <3>1. /\ ioPc = "request" /\ ioPc' \in {"used_elem", "avail_event"}
            /\ UNCHANGED <<enabled, useEventIdx, usedIdx, lastUsed, lastSignalled, free,
                           availIdx, lastAvail>>
        BY <2>2, Zenon DEF complete, drop
      <3>2. Outstanding' \in {Outstanding, Outstanding - 1}
        BY <1>a, <1>c, <3>1 DEF Outstanding, Taken
      <3> QED
        BY <1>f, <3>1, <3>2
    <2>3. CASE set_used_elem
      <3>1. /\ ioPc = "used_elem" /\ ioPc' = "used_idx"
            /\ UNCHANGED <<enabled, useEventIdx, usedIdx, lastUsed, lastSignalled, free,
                           availIdx, lastAvail>>
        BY <2>3, Zenon DEF set_used_elem
      <3> QED
        BY <1>f, <3>1 DEF Outstanding, Taken
    <2>4. CASE used_idx_advance
      <3>1. /\ ioPc = "used_idx" /\ ioPc' = "should_signal" /\ usedIdx' = IdxInc(usedIdx)
            /\ UNCHANGED <<enabled, useEventIdx, lastUsed, lastSignalled, free,
                           availIdx, lastAvail>>
        BY <2>4, Zenon DEF used_idx_advance
      <3>2. Outstanding' = Outstanding - 1
        BY <1>a, <1>c, <3>1 DEF Outstanding, Taken
      <3>3. /\ IdxSub(usedIdx, lastUsed)' \in {0, IdxSub(usedIdx, lastUsed) + 1}
            /\ IdxSub(usedIdx, lastSignalled)' \in {0, IdxSub(usedIdx, lastSignalled) + 1}
        BY <1>a, <3>1, SubInc
      <3>4. Outstanding >= 1
        BY <1>a, <1>c, <3>1 DEF Outstanding, Taken
      <3> QED
        BY <1>a, <1>b, <1>c, <1>d, <1>e, <3>1, <3>2, <3>3, <3>4, SMT DEF BoundInv
    <2>5. CASE should_signal
      <3>1. /\ ioPc = "should_signal" /\ ioPc' \in {"signal", "avail_event"}
            /\ UNCHANGED <<enabled, useEventIdx, usedIdx, lastUsed, free, availIdx, lastAvail>>
        BY <2>5, Zenon DEF should_signal
      <3>2. lastSignalled' = usedIdx \/ lastSignalled' = lastSignalled
        BY <2>5, Zenon DEF should_signal
      <3>3. Outstanding' = Outstanding
        BY <3>1 DEF Outstanding, Taken
      <3>4. IdxSub(usedIdx, usedIdx) = 0
        BY <1>a, SubInIdx
      <3> QED
        BY <1>a, <1>b, <1>c, <1>d, <1>e, <3>1, <3>2, <3>3, <3>4, SMT DEF BoundInv
    <2>6. CASE signal_vq \/ irq_trigger \/ io_loop \/ io_read \/ avail_event \/ no_more
      <3>1. /\ ioPc \notin {"request", "used_elem", "used_idx"}
            /\ ioPc' \notin {"request", "used_elem", "used_idx"}
            /\ UNCHANGED <<enabled, useEventIdx, usedIdx, lastUsed, lastSignalled, free,
                           availIdx, lastAvail>>
        BY <2>6, Zenon DEF signal_vq, irq_trigger, io_loop, io_read, avail_event, no_more
      <3>2. Outstanding' = Outstanding
        BY <3>1 DEF Outstanding, Taken
      <3> QED
        BY <1>f, <3>1, <3>2
    <2> QED
      BY <1>7, <2>1, <2>2, <2>3, <2>4, <2>5, <2>6, Zenon DEF IoThread
  <1>8. CASE UNCHANGED vars
    BY <1>8, <1>g, Zenon DEF vars
  <1> QED
    BY <1>1, <1>2, <1>3, <1>4, <1>5, <1>6, <1>7, <1>8, Zenon DEF Next
(***************************************************************************)
(* Ownership                                                               *)
(***************************************************************************)

\* The heads are parted into five sets.
Parted(f, a, s, l, u) ==
    /\ f \cup a \cup s \cup l \cup u = Heads
    /\ f \cap a = {} /\ f \cap s = {} /\ f \cap l = {} /\ f \cap u = {}
    /\ a \cap s = {} /\ a \cap l = {} /\ a \cap u = {}
    /\ s \cap l = {} /\ s \cap u = {} /\ l \cap u = {}

\* A head is free, submitted, in service, dropped or returned, and is in a ring
\* once; the buffers that are mapped are those of requests in the device's hands.
OwnInv ==
    enabled =>
        /\ Parted(free, AvailHeads, InService, lost, UsedHeads)
        /\ Once(AvailSeq) /\ Once(UsedSeq)
        /\ ioPc = "used_idx" => usedRing[Slot(usedIdx)] = ioHead
        /\ mapped \subseteq lost \cup (IF ioPc = "request" THEN {ioHead} ELSE {})

LEMMA Windows ==
    /\ AvailSeq = Window(availRing, lastAvail, availIdx)
    /\ UsedSeq = Window(usedRing, lastUsed, usedIdx)
    /\ AvailHeads = Held(AvailSeq) /\ UsedHeads = Held(UsedSeq)
  BY DEF AvailSeq, UsedSeq, AvailHeads, UsedHeads, Window, Held

LEMMA InitOwnInv == Init => OwnInv
  BY Zenon DEF Init, OwnInv
LEMMA NextOwnInv ==
    TypeOK /\ LifeInv /\ FreshIdxInv /\ BoundInv /\ OwnInv /\ [Next]_vars => OwnInv'
  <1> SUFFICES ASSUME TypeOK, LifeInv, FreshIdxInv, BoundInv, OwnInv, [Next]_vars PROVE OwnInv'
    OBVIOUS
  <1> USE DEF ringVars, subVars, irqVars, vqVars, ioVars, mmioVars, pastVars
  <1> DEFINE InHand == IF ioPc = "request" THEN {ioHead} ELSE {}
             Rings == UNCHANGED <<availRing, usedRing, availIdx, usedIdx, lastAvail, lastUsed>>
  <1>a. /\ availIdx \in Idx /\ usedIdx \in Idx /\ lastUsed \in Idx /\ lastAvail \in Idx
        /\ free \in SUBSET Heads /\ ioHead \in Heads
        /\ usedRing \in [Heads -> Heads] /\ availRing \in [Heads -> Heads]
    BY DEF TypeOK
  <1>b. enabled =>
            /\ Parted(free, AvailHeads, InService, lost, UsedHeads)
            /\ Once(AvailSeq) /\ Once(UsedSeq)
            /\ ioPc = "used_idx" => usedRing[Slot(usedIdx)] = ioHead
            /\ mapped \subseteq lost \cup InHand
    BY DEF OwnInv
  <1>c. /\ IdxSub(availIdx, lastAvail) \in Nat /\ IdxSub(usedIdx, lastUsed) \in Nat
        /\ Cardinality(free) \in Nat /\ Taken \in {0, 1} /\ Num \in Nat
    <2>1. IdxSub(availIdx, lastAvail) \in Nat /\ IdxSub(usedIdx, lastUsed) \in Nat
      BY <1>a, SubInIdx DEF Idx
    <2>2. Cardinality(free) \in Nat
      BY <1>a, FreeCounted
    <2> QED
      BY <2>1, <2>2, RingAssumption DEF Taken
  <1>d. enabled => Cardinality(free) + IdxSub(availIdx, lastAvail) + Taken
                     + IdxSub(usedIdx, lastUsed) <= Num
    BY <1>c DEF BoundInv, Outstanding
  <1>e. enabled => IdxSub(availIdx, lastAvail) <= Num /\ IdxSub(usedIdx, lastUsed) <= Num
    BY <1>c, <1>d
  <1>f. Rings => UNCHANGED <<AvailSeq, UsedSeq, AvailHeads, UsedHeads>>
    BY DEF AvailSeq, UsedSeq, AvailHeads, UsedHeads
  <1>g. ASSUME Rings, UNCHANGED <<enabled, free, ioPc, ioHead, mapped, lost>> PROVE OwnInv'
    <2>1. UNCHANGED <<AvailSeq, UsedSeq, AvailHeads, UsedHeads, InService>>
      BY <1>f, <1>g DEF InService
    <2> QED
      BY <1>g, <2>1 DEF OwnInv, Parted, Once
  <1>1. ASSUME NEW h \in Heads, NEW t \in Types, virtqueue_add(h, t) PROVE OwnInv'
    <2>1. /\ h \in free /\ free' = free \ {h} /\ availIdx' = IdxInc(availIdx)
          /\ availRing' = [availRing EXCEPT ![Slot(availIdx)] = h]
          /\ UNCHANGED <<usedRing, usedIdx, lastAvail, lastUsed, enabled, ioPc, ioHead, mapped, lost>>
      BY <1>1, Zenon DEF virtqueue_add
    <2>2. enabled
      BY <1>1, Zenon DEF virtqueue_add, LifeInv
    <2>3. IdxSub(availIdx, lastAvail) < Num
      <3>1. Cardinality(free) - 1 \in Nat
        <4>1. free \ {h} \in SUBSET Heads
          BY <1>a
        <4> QED
          BY <1>a, <2>1, <4>1, FreeCounted
      <3> QED
        BY <1>c, <1>d, <2>2, <3>1
    <2>4. /\ availRing' \in [Heads -> Heads] /\ availRing'[Slot(availIdx)] = h
      BY <1>a, <2>1, SlotInRing
    <2>5. Window(availRing', lastAvail, availIdx) = AvailSeq
      BY <1>a, <2>1, <2>3, WindowWrite, Windows
    <2>6. h \notin AvailHeads
      BY <1>b, <2>1, <2>2 DEF Parted
    <2>7. AvailHeads' = AvailHeads \cup {h} /\ Once(AvailSeq')
      <3>1. /\ Held(Window(availRing', lastAvail, IdxInc(availIdx))) = AvailHeads \cup {h}
            /\ Once(Window(availRing', lastAvail, IdxInc(availIdx)))
        BY <1>a, <1>b, <2>2, <2>3, <2>4, <2>5, <2>6, WindowGrow, Windows
      <3>2. AvailSeq' = Window(availRing', lastAvail, IdxInc(availIdx)) /\ AvailHeads' = Held(AvailSeq')
        BY <2>1 DEF AvailSeq, AvailHeads, Window, Held
      <3> QED
        BY <3>1, <3>2
    <2>8. UNCHANGED <<UsedSeq, UsedHeads, InService>>
      BY <2>1 DEF UsedSeq, UsedHeads, InService
    <2>9. Parted(free, AvailHeads, InService, lost, UsedHeads)'
      BY <1>b, <2>1, <2>2, <2>7, <2>8 DEF Parted
    <2> QED
      BY <1>b, <2>1, <2>2, <2>7, <2>8, <2>9 DEF OwnInv, Once
  <1>2. CASE virtqueue_kick_prepare
    BY <1>2, <1>g, Zenon DEF virtqueue_kick_prepare
  <1>3. CASE Handler
    <2>1. CASE virtqueue_get_buf /\ usedIdx # lastUsed
      <3> DEFINE x == usedRing[Slot(lastUsed)]
      <3>1. /\ free' = free \cup {x} /\ lastUsed' = IdxInc(lastUsed)
            /\ UNCHANGED <<availRing, usedRing, availIdx, usedIdx, lastAvail, enabled, ioPc, ioHead,
                           mapped, lost>>
        BY <2>1, Zenon DEF virtqueue_get_buf
      <3> SUFFICES ASSUME enabled PROVE OwnInv'
        BY <3>1 DEF OwnInv
      <3>2. /\ x \in UsedHeads
            /\ Held(Window(usedRing, IdxInc(lastUsed), usedIdx)) = UsedHeads \ {x}
            /\ Once(Window(usedRing, IdxInc(lastUsed), usedIdx))
        BY <1>a, <1>b, <1>e, <2>1, WindowShrink, Windows
      <3>3. UsedHeads' = UsedHeads \ {x} /\ Once(UsedSeq')
        <4>1. /\ UsedSeq' = Window(usedRing, IdxInc(lastUsed), usedIdx)
              /\ UsedHeads' = Held(UsedSeq')
          BY <3>1 DEF UsedSeq, UsedHeads, Window, Held
        <4> QED
          BY <3>2, <4>1
      <3>4. UNCHANGED <<AvailSeq, AvailHeads, InService>>
        BY <3>1 DEF AvailSeq, AvailHeads, InService
      <3> HIDE DEF x
      <3>5. Parted(free, AvailHeads, InService, lost, UsedHeads)'
        BY <1>b, <3>1, <3>2, <3>3, <3>4 DEF Parted
      <3> QED
        BY <1>b, <3>1, <3>3, <3>4, <3>5 DEF OwnInv, Once
    <2>2. CASE ~(virtqueue_get_buf /\ usedIdx # lastUsed)
      BY <1>3, <1>g, <2>2, Zenon DEF Handler, vm_interrupt, vring_interrupt, virtqueue_get_buf,
            virtqueue_enable_cb, virtqueue_poll
    <2> QED
      BY <2>1, <2>2
  <1>4. CASE MainThread
    <2>1. CASE exit_vq_joined
      <3>1. ~enabled'
        BY <2>1, Zenon DEF exit_vq_joined
      <3> QED
        BY <3>1 DEF OwnInv
    <2>2. CASE ~exit_vq_joined
      BY <1>4, <1>g, <2>2, Zenon DEF MainThread, notify_vq, interrupt_status,
            interrupt_ack_load, interrupt_ack_store, exit_vq_notify
    <2> QED
      BY <2>1, <2>2
  <1>5. ASSUME NEW fs \in FeatureSets, init_vq(fs) PROVE OwnInv'
    <2>1. /\ subPc = "down" /\ availIdx' = 0 /\ usedIdx' = 0 /\ lastUsed' = 0
          /\ free' = Heads /\ mapped' = {} /\ lost' = {} /\ ioPc' = "loop" /\ UNCHANGED lastAvail
      BY <1>5, Zenon DEF init_vq
    <2>2. lastAvail' = 0
      BY <2>1, Zenon DEF FreshIdxInv
    <2>3. IdxSub(0, 0) = 0 /\ 1 .. 0 = {}
      BY DEF IdxSub
    <2>4. /\ DOMAIN AvailSeq' = {} /\ DOMAIN UsedSeq' = {}
      BY <2>1, <2>2, <2>3 DEF AvailSeq, UsedSeq
    <2>5. AvailHeads' = {} /\ UsedHeads' = {} /\ InService' = {}
      BY <2>1, <2>4 DEF AvailHeads, UsedHeads, InService
    <2> QED
      BY <2>1, <2>4, <2>5 DEF OwnInv, Parted, Once
  <1>6. CASE exit_vq
    BY <1>6, <1>g, Zenon DEF exit_vq
  <1>7. CASE IoThread
    <2>0. enabled /\ enabled'
      BY <1>7, Zenon DEF LifeInv, IoThread, io_loop, io_read, avail_event, no_more, pop, complete,
            drop, set_used_elem, used_idx_advance, should_signal, signal_vq, irq_trigger
    <2>1. CASE pop
      <3> DEFINE x == availRing[Slot(lastAvail)]
      <3>1. /\ availIdx # lastAvail /\ lastAvail' = IdxInc(lastAvail) /\ ioHead' = x
            /\ mapped' = mapped \cup {x} /\ ioPc = "avail_idx" /\ ioPc' = "request"
            /\ UNCHANGED <<availRing, usedRing, availIdx, usedIdx, lastUsed, free, lost>>
        BY <2>1, Zenon DEF pop, available
      <3>2. /\ x \in AvailHeads
            /\ Held(Window(availRing, IdxInc(lastAvail), availIdx)) = AvailHeads \ {x}
            /\ Once(Window(availRing, IdxInc(lastAvail), availIdx))
        BY <1>a, <1>b, <1>e, <2>0, <3>1, WindowShrink, Windows
      <3>3. AvailHeads' = AvailHeads \ {x} /\ Once(AvailSeq')
        <4>1. /\ AvailSeq' = Window(availRing, IdxInc(lastAvail), availIdx)
              /\ AvailHeads' = Held(AvailSeq')
          BY <3>1 DEF AvailSeq, AvailHeads, Window, Held
        <4> QED
          BY <3>2, <4>1
      <3>4. UNCHANGED <<UsedSeq, UsedHeads>> /\ InService = {} /\ InService' = {x}
        BY <3>1 DEF UsedSeq, UsedHeads, InService
      <3> HIDE DEF x
      <3>5. Parted(free, AvailHeads, InService, lost, UsedHeads)'
        BY <1>b, <2>0, <3>1, <3>2, <3>3, <3>4 DEF Parted
      <3> QED
        BY <1>b, <2>0, <3>1, <3>3, <3>4, <3>5 DEF OwnInv, Once
    <2>2. ASSUME NEW o \in Outcomes, complete(o) PROVE OwnInv'
      <3>1. /\ ioPc = "request" /\ ioPc' = "used_elem" /\ mapped' = mapped \ {ioHead}
            /\ UNCHANGED <<free, lost, ioHead>> /\ Rings
        BY <2>2, Zenon DEF complete
      <3>2. UNCHANGED <<AvailSeq, UsedSeq, AvailHeads, UsedHeads, InService>>
        BY <1>f, <3>1 DEF InService
      <3> QED
        BY <1>b, <2>0, <3>1, <3>2 DEF OwnInv, Parted, Once
    <2>3. ASSUME NEW o \in Outcomes, drop(o) PROVE OwnInv'
      <3>1. /\ ioPc = "request" /\ ioPc' = "avail_event" /\ lost' = lost \cup {ioHead}
            /\ UNCHANGED <<free, ioHead, mapped>> /\ Rings
        BY <2>3, Zenon DEF drop
      <3>2. UNCHANGED <<AvailSeq, UsedSeq, AvailHeads, UsedHeads>>
            /\ InService = {ioHead} /\ InService' = {}
        BY <1>f, <3>1 DEF InService
      <3>3. Parted(free, AvailHeads, InService, lost, UsedHeads)'
        BY <1>b, <2>0, <3>1, <3>2 DEF Parted
      <3> QED
        BY <1>b, <2>0, <3>1, <3>2, <3>3 DEF OwnInv, Once
    <2>4. CASE set_used_elem
      <3>1. /\ ioPc = "used_elem" /\ ioPc' = "used_idx"
            /\ usedRing' = [usedRing EXCEPT ![Slot(usedIdx)] = ioHead]
            /\ UNCHANGED <<availRing, availIdx, usedIdx, lastAvail, lastUsed, free, lost, ioHead,
                           mapped>>
        BY <2>4, Zenon DEF set_used_elem
      <3>2. IdxSub(usedIdx, lastUsed) < Num
        <4>1. Taken = 1
          BY <3>1 DEF Taken
        <4> QED
          BY <1>c, <1>d, <2>0, <4>1
      <3>3. UsedSeq' = UsedSeq
        <4>1. UsedSeq' = Window(usedRing', lastUsed, usedIdx)
          BY <3>1 DEF UsedSeq, Window
        <4> QED
          BY <1>a, <3>1, <3>2, <4>1, WindowWrite, Windows
      <3>4. UNCHANGED <<AvailSeq, AvailHeads, UsedHeads, InService>>
        BY <3>1, <3>3 DEF AvailSeq, AvailHeads, UsedHeads, InService
      <3>5. usedRing'[Slot(usedIdx)] = ioHead
        BY <1>a, <3>1, SlotInRing
      <3> QED
        BY <1>b, <2>0, <3>1, <3>3, <3>4, <3>5 DEF OwnInv, Parted, Once
    <2>5. CASE used_idx_advance
      <3>1. /\ ioPc = "used_idx" /\ ioPc' = "should_signal" /\ usedIdx' = IdxInc(usedIdx)
            /\ UNCHANGED <<availRing, usedRing, availIdx, lastAvail, lastUsed, free, lost, ioHead,
                           mapped>>
        BY <2>5, Zenon DEF used_idx_advance
      <3>2. IdxSub(usedIdx, lastUsed) < Num
        <4>1. Taken = 1
          BY <3>1 DEF Taken
        <4> QED
          BY <1>c, <1>d, <2>0, <4>1
      <3>3. InService = {ioHead} /\ InService' = {} /\ usedRing[Slot(usedIdx)] = ioHead
        BY <1>b, <2>0, <3>1 DEF InService
      <3>4. ioHead \notin UsedHeads
        BY <1>b, <2>0, <3>3 DEF Parted
      <3>5. /\ Held(Window(usedRing, lastUsed, IdxInc(usedIdx))) = UsedHeads \cup {ioHead}
            /\ Once(Window(usedRing, lastUsed, IdxInc(usedIdx)))
        BY <1>a, <1>b, <2>0, <3>2, <3>3, <3>4, WindowGrow, Windows
      <3>6. UsedHeads' = UsedHeads \cup {ioHead} /\ Once(UsedSeq')
        <4>1. /\ UsedSeq' = Window(usedRing, lastUsed, IdxInc(usedIdx))
              /\ UsedHeads' = Held(UsedSeq')
          BY <3>1 DEF UsedSeq, UsedHeads, Window, Held
        <4> QED
          BY <3>5, <4>1
      <3>7. UNCHANGED <<AvailSeq, AvailHeads>>
        BY <3>1 DEF AvailSeq, AvailHeads
      <3>8. Parted(free, AvailHeads, InService, lost, UsedHeads)'
        BY <1>b, <2>0, <3>1, <3>3, <3>6, <3>7 DEF Parted
      <3> QED
        BY <1>b, <2>0, <3>1, <3>6, <3>7, <3>8 DEF OwnInv, Once
    <2>6. CASE \/ io_loop \/ io_read \/ avail_event \/ no_more
               \/ should_signal \/ signal_vq \/ irq_trigger
      <3>1. /\ ioPc \notin {"request", "used_elem", "used_idx"}
            /\ ioPc' \notin {"request", "used_elem", "used_idx"}
            /\ UNCHANGED <<free, lost, ioHead, mapped>> /\ Rings
        BY <2>6, Zenon DEF io_loop, io_read, avail_event, no_more, should_signal, signal_vq,
              irq_trigger
      <3>2. UNCHANGED <<AvailSeq, UsedSeq, AvailHeads, UsedHeads, InService>>
        BY <1>f, <3>1 DEF InService
      <3> QED
        BY <1>b, <2>0, <3>1, <3>2 DEF OwnInv, Parted, Once
    <2> QED
      BY <1>7, <2>1, <2>2, <2>3, <2>4, <2>5, <2>6, Zenon DEF IoThread
  <1>8. CASE UNCHANGED vars
    BY <1>8, <1>g, Zenon DEF vars
  <1> QED
    BY <1>1, <1>2, <1>3, <1>4, <1>5, <1>6, <1>7, <1>8, Zenon DEF Next
\* A window without repetitions holds as many heads as it is long.
LEMMA HeldCounted ==
    ASSUME NEW ring \in [Heads -> Heads], NEW first \in Idx, NEW next \in Idx,
           Once(Window(ring, first, next))
    PROVE  /\ Len(Window(ring, first, next)) = IdxSub(next, first)
           /\ Cardinality(Held(Window(ring, first, next))) = IdxSub(next, first)
  <1> DEFINE k == IdxSub(next, first)
             w == Window(ring, first, next)
  <1>1. k \in Nat
    BY SubInIdx DEF Idx
  <1>2. DOMAIN w = 1 .. k /\ w = [n \in 1 .. k |-> w[n]]
    BY DEF Window
  <1> HIDE DEF k, w
  <1>3. w \in [1 .. k -> Held(w)]
    BY <1>2 DEF Held
  <1>4. w \in Seq(Held(w))
    BY <1>1, <1>3
  <1>5. Len(w) = k
    BY <1>1, <1>2, <1>4
  <1>6. w \in Bijection(1 .. k, Held(w))
    <2>1. Once(w)
      BY DEF w
    <2>2. w \in Injection(1 .. k, Held(w))
      BY <1>2, <1>3, <2>1 DEF Injection, IsInjective, Once
    <2>3. w \in Surjection(1 .. k, Held(w))
      BY <1>2, <1>3 DEF Surjection, Held
    <2> QED
      BY <2>2, <2>3 DEF Bijection
  <1>7. Cardinality(Held(w)) = k
    BY <1>1, <1>6, FS_CountingElements DEF ExistsBijection
  <1> QED
    BY <1>5, <1>7 DEF k, w

\* The parts have as many heads as there are.
LEMMA PartsCounted ==
    ASSUME NEW f, NEW a, NEW s, NEW l, NEW u, Parted(f, a, s, l, u)
    PROVE  Cardinality(f) + Cardinality(a) + Cardinality(s) + Cardinality(l) + Cardinality(u) = Num
  <1>1. /\ f \in SUBSET Heads /\ a \in SUBSET Heads /\ s \in SUBSET Heads
        /\ l \in SUBSET Heads /\ u \in SUBSET Heads
    BY DEF Parted
  <1>2. ASSUME NEW S \in SUBSET Heads, NEW T \in SUBSET Heads, S \cap T = {}
        PROVE  Cardinality(S \cup T) = Cardinality(S) + Cardinality(T)
    <2>1. IsFiniteSet(S) /\ IsFiniteSet(T) /\ Cardinality(S) \in Nat /\ Cardinality(T) \in Nat
      BY FreeCounted
    <2>2. Cardinality(S \cup T) = Cardinality(S) + Cardinality(T) - Cardinality(S \cap T)
      BY <2>1, FS_Union
    <2>3. Cardinality(S \cap T) = 0
      BY <1>2, FS_EmptySet
    <2> QED
      BY <2>1, <2>2, <2>3
  <1>3. Cardinality(f \cup a) = Cardinality(f) + Cardinality(a)
    BY <1>1, <1>2 DEF Parted
  <1>4. Cardinality((f \cup a) \cup s) = Cardinality(f \cup a) + Cardinality(s)
    <2>1. (f \cup a) \in SUBSET Heads /\ (f \cup a) \cap s = {}
      BY <1>1 DEF Parted
    <2> QED
      BY <1>1, <1>2, <2>1
  <1>5. Cardinality(((f \cup a) \cup s) \cup l) = Cardinality((f \cup a) \cup s) + Cardinality(l)
    <2>1. ((f \cup a) \cup s) \in SUBSET Heads /\ ((f \cup a) \cup s) \cap l = {}
      BY <1>1 DEF Parted
    <2> QED
      BY <1>1, <1>2, <2>1
  <1>6. Cardinality((((f \cup a) \cup s) \cup l) \cup u)
          = Cardinality(((f \cup a) \cup s) \cup l) + Cardinality(u)
    <2>1. /\ (((f \cup a) \cup s) \cup l) \in SUBSET Heads
          /\ (((f \cup a) \cup s) \cup l) \cap u = {}
      BY <1>1 DEF Parted
    <2> QED
      BY <1>1, <1>2, <2>1
  <1>7. (((f \cup a) \cup s) \cup l) \cup u = Heads
    BY DEF Parted
  <1> QED
    BY <1>3, <1>4, <1>5, <1>6, <1>7, HeadsCounted

\* Every head has one owner, whatever the threads, the driver and the disk do
\* and however the indices wrap: nothing is popped or returned twice.
THEOREM HeadsOwned == Safety => []HeadOwnership
  <1>1. TypeOK /\ OwnInv => HeadOwnership
    <2> SUFFICES ASSUME TypeOK, OwnInv, enabled
                 PROVE  /\ free \cup AvailHeads \cup InService \cup lost \cup UsedHeads = Heads
                        /\ Cardinality(free) + Len(AvailSeq) + Cardinality(InService)
                              + Cardinality(lost) + Len(UsedSeq) = Num
      BY DEF HeadOwnership
    <2>1. Parted(free, AvailHeads, InService, lost, UsedHeads) /\ Once(AvailSeq) /\ Once(UsedSeq)
      BY DEF OwnInv
    <2>2. Len(AvailSeq) = Cardinality(AvailHeads)
      BY <2>1, Windows, HeldCounted DEF TypeOK
    <2>3. Len(UsedSeq) = Cardinality(UsedHeads)
      BY <2>1, Windows, HeldCounted DEF TypeOK
    <2>4. Cardinality(free) + Cardinality(AvailHeads) + Cardinality(InService) + Cardinality(lost)
            + Cardinality(UsedHeads) = Num
      BY <2>1, PartsCounted
    <2> QED
      BY <2>1, <2>2, <2>3, <2>4 DEF Parted
  <1> QED
    BY <1>1, TypeCorrect, InitLifeInv, NextLifeInv, InitFreshIdxInv, NextFreshIdxInv, InitBoundInv,
       NextBoundInv, InitOwnInv, NextOwnInv, PTL DEF Safety

\* What a dropped request had mapped stays mapped, over a reset too, and nothing
\* else does: the device has a stale mapping exactly when the disk has failed a
\* request of an earlier binding.
PastInv ==
    /\ lost \subseteq mapped
    /\ ioPc = "request" => ioHead \in mapped
    /\ ~enabled => mapped = lost
    /\ stale = dropped

LEMMA InitPastInv == Init => PastInv
  BY DEF Init, PastInv

LEMMA NextPastInv == LifeInv /\ OwnInv /\ PastInv /\ [Next]_vars => PastInv'
  <1> SUFFICES ASSUME LifeInv, OwnInv, PastInv, [Next]_vars PROVE PastInv'
    OBVIOUS
  <1> USE DEF PastInv, ringVars, subVars, irqVars, vqVars, ioVars, mmioVars, pastVars
  <1>a. ASSUME UNCHANGED <<lost, mapped, ioHead, stale, dropped, enabled>>,
               ioPc' = "request" => ioPc = "request"
        PROVE  PastInv'
    BY <1>a
  <1>1. ASSUME NEW h \in Heads, NEW t \in Types, virtqueue_add(h, t) PROVE PastInv'
    BY <1>1, <1>a, Zenon DEF virtqueue_add
  <1>2. CASE virtqueue_kick_prepare
    BY <1>2, <1>a, Zenon DEF virtqueue_kick_prepare
  <1>3. CASE Handler
    BY <1>3, <1>a, Zenon DEF Handler, vm_interrupt, vring_interrupt, virtqueue_get_buf,
          virtqueue_enable_cb, virtqueue_poll
  <1>4. CASE MainThread
    <2>1. CASE notify_vq \/ interrupt_status \/ interrupt_ack_load \/ interrupt_ack_store
               \/ exit_vq_notify
      BY <2>1, <1>a, Zenon DEF notify_vq, interrupt_status, interrupt_ack_load,
            interrupt_ack_store, exit_vq_notify
    <2>2. CASE exit_vq_joined
      <3>1. /\ ioPc = "exited" /\ ioPc' = "none"
            /\ UNCHANGED <<lost, mapped, ioHead, stale, dropped>>
        BY <2>2, Zenon DEF exit_vq_joined
      <3>2. enabled
        BY <3>1 DEF LifeInv
      <3>3. mapped \subseteq lost
        BY <3>1, <3>2 DEF OwnInv
      <3> QED
        BY <3>1, <3>3
    <2> QED
      BY <1>4, <2>1, <2>2, Zenon DEF MainThread
  <1>5. ASSUME NEW fs \in FeatureSets, init_vq(fs) PROVE PastInv'
    <2>1. /\ lost' = {} /\ mapped' = {} /\ ioPc' = "loop" /\ enabled' = TRUE /\ subPc = "down"
          /\ stale' = (stale \/ mapped # {}) /\ dropped' = (dropped \/ lost # {})
      BY <1>5, Zenon DEF init_vq
    <2>2. mapped = lost
      BY <2>1 DEF LifeInv
    <2>3. stale' = dropped'
      BY <2>1, <2>2
    <2> QED
      BY <2>1, <2>3
  <1>6. CASE exit_vq
    BY <1>6, <1>a, Zenon DEF exit_vq
  <1>7. CASE IoThread
    <2>1. CASE \/ io_loop \/ io_read \/ avail_event \/ no_more \/ set_used_elem
               \/ used_idx_advance \/ should_signal \/ signal_vq \/ irq_trigger
      <3>1. UNCHANGED <<lost, mapped, ioHead, stale, dropped, enabled>> /\ ioPc' # "request"
        BY <2>1, Zenon DEF io_loop, io_read, avail_event, no_more, set_used_elem,
              used_idx_advance, should_signal, signal_vq, irq_trigger
      <3> QED
        BY <1>a, <3>1
    <2>2. CASE pop
      <3>1. /\ ioPc = "avail_idx" /\ mapped' = mapped \cup {ioHead'}
            /\ UNCHANGED <<lost, stale, dropped, enabled>>
        BY <2>2, Zenon DEF pop
      <3> QED
        BY <3>1 DEF LifeInv
    <2>3. ASSUME NEW o \in Outcomes, complete(o) PROVE PastInv'
      <3>1. /\ ioPc = "request" /\ ioPc' = "used_elem" /\ mapped' = mapped \ {ioHead}
            /\ UNCHANGED <<lost, stale, dropped, enabled>>
        BY <2>3, Zenon DEF complete
      <3>2. enabled
        BY <3>1 DEF LifeInv
      <3>3. ioHead \notin lost
        BY <3>1, <3>2 DEF OwnInv, Parted, InService
      <3> QED
        BY <3>1, <3>2, <3>3
    <2>4. ASSUME NEW o \in Outcomes, drop(o) PROVE PastInv'
      <3>1. /\ ioPc = "request" /\ ioPc' = "avail_event" /\ lost' = lost \cup {ioHead}
            /\ UNCHANGED <<mapped, stale, dropped, enabled>>
        BY <2>4, Zenon DEF drop
      <3> QED
        BY <3>1 DEF LifeInv
    <2> QED
      BY <1>7, <2>1, <2>2, <2>3, <2>4, Zenon DEF IoThread
  <1>8. CASE UNCHANGED vars
    BY <1>8, <1>a, Zenon DEF vars
  <1> QED
    BY <1>1, <1>2, <1>3, <1>4, <1>5, <1>6, <1>7, <1>8, Zenon DEF Next

\* What virt_queue__get_head_iov mapped is unmapped before virtio_blk_complete
\* returns the head.  The buffers that stay mapped are those of requests the disk
\* failed; after a reset, when the driver has them back, they are mapped still.
THEOREM BuffersUnmapped == Safety => []NoAccessAfterReturn
  <1>1. OwnInv /\ PastInv => NoAccessAfterReturn
    <2> SUFFICES ASSUME OwnInv, PastInv PROVE NoAccessAfterReturn
      OBVIOUS
    <2>1. ASSUME enabled PROVE mapped \cap (free \cup AvailHeads \cup UsedHeads) = {}
      <3>1. mapped \subseteq lost \cup InService
        BY <2>1 DEF OwnInv, InService
      <3> QED
        BY <2>1, <3>1 DEF OwnInv, Parted
    <2>2. stale = dropped
      BY DEF PastInv
    <2> QED
      BY <2>1, <2>2 DEF NoAccessAfterReturn
  <1> QED
    BY <1>1, TypeCorrect, InitLifeInv, NextLifeInv, InitFreshIdxInv, NextFreshIdxInv, InitBoundInv,
       NextBoundInv, InitOwnInv, NextOwnInv, InitPastInv, NextPastInv, PTL DEF Safety

(***************************************************************************)
(* Interrupts                                                              *)
(***************************************************************************)

\* The circumstances in which the code keeps its interrupts.
InterruptsKept == FeaturesAgree /\ WrapMax < IdxMod

(***************************************************************************)
(* Index arithmetic                                                        *)
(***************************************************************************)

\* When vring_need_event says no, the event index is behind the old index.
LEMMA NoEvent ==
    ASSUME NEW new \in Idx, NEW event \in Idx, NEW old \in Idx,
           new # event, ~vring_need_event(event, new, old)
    PROVE  IdxSub(new, event) > IdxSub(new, old)
  BY RingAssumption, SMT DEF vring_need_event, IdxSub, IdxInc, Idx

(***************************************************************************)
(* The acknowledge                                                         *)
(***************************************************************************)

\* The store of an acknowledge belongs to a handler that waits for it; a bit its
\* load saw is still there, as nothing but the store clears it.
AckInv ==
    mainPc = "ack_store" => irqPc = "ack" /\ (mainIsr => intState)

LEMMA InitAckInv == Init => AckInv
  BY Zenon DEF Init, AckInv

LEMMA NextAckInv == AckInv /\ [Next]_vars => AckInv'
  <1> SUFFICES ASSUME AckInv, [Next]_vars PROVE AckInv'
    OBVIOUS
  <1> USE DEF AckInv, ringVars, subVars, irqVars, vqVars, ioVars, mmioVars, pastVars
  <1>1. ASSUME NEW h \in Heads, NEW t \in Types, virtqueue_add(h, t) PROVE AckInv'
    BY <1>1, Zenon DEF virtqueue_add
  <1>2. CASE virtqueue_kick_prepare
    BY <1>2, Zenon DEF virtqueue_kick_prepare
  <1>3. CASE Handler
    <2>1. UNCHANGED mainPc /\ irqPc # "ack"
      BY <1>3, Zenon DEF Handler, vm_interrupt, vring_interrupt, virtqueue_get_buf,
            virtqueue_enable_cb, virtqueue_poll
    <2> QED
      BY <2>1
  <1>4. CASE MainThread
    <2>1. CASE notify_vq \/ exit_vq_notify \/ exit_vq_joined
      <3>1. mainPc' # "ack_store"
        BY <2>1, Zenon DEF notify_vq, exit_vq_notify, exit_vq_joined
      <3> QED
        BY <3>1
    <2>2. CASE interrupt_status
      <3>1. mainPc' = "idle"
        BY <2>2, Zenon DEF interrupt_status
      <3> QED
        BY <3>1
    <2>3. CASE interrupt_ack_load
      BY <2>3, Zenon DEF interrupt_ack_load
    <2>4. CASE interrupt_ack_store
      <3>1. mainPc' = "idle"
        BY <2>4, Zenon DEF interrupt_ack_store
      <3> QED
        BY <3>1
    <2> QED
      BY <1>4, <2>1, <2>2, <2>3, <2>4, Zenon DEF MainThread
  <1>5. ASSUME NEW fs \in FeatureSets, init_vq(fs) PROVE AckInv'
    BY <1>5, Zenon DEF init_vq
  <1>6. CASE exit_vq
    BY <1>6, Zenon DEF exit_vq
  <1>7. CASE IoThread
    <2>1. UNCHANGED <<mainPc, irqPc, mainIsr>> /\ (intState' = intState \/ intState' = TRUE)
      BY <1>7, Zenon DEF IoThread, io_loop, io_read, avail_event, no_more, pop, complete,
            drop, set_used_elem, used_idx_advance, should_signal, signal_vq, irq_trigger
    <2> QED
      BY <2>1
  <1>8. CASE UNCHANGED vars
    BY <1>8, Zenon DEF vars
  <1> QED
    BY <1>1, <1>2, <1>3, <1>4, <1>5, <1>6, <1>7, <1>8, Zenon DEF Next

(***************************************************************************)
(* The interrupt                                                           *)
(***************************************************************************)

\* The handler has gone back to wait for an interrupt, or has not yet come to
\* look at the used ring.
Resting == irqPc \in {"off", "status", "ack"}

\* The handler will look at the used ring again before it rests.
WillLook ==
    \/ irqPc \notin {"off", "status", "ack"}
    \/ irqPc = "status" /\ intState
    \/ irqPc = "ack" /\ irqStatus

\* The last interrupt was for an entry beyond what the driver has seen ...
Passed == IdxSub(usedIdx, lastUsed) > IdxSub(usedIdx, lastSignalled)

\* ... and is on its way, has come, or was erased by an acknowledge of 0.
Told ==
    \/ irq /\ intState
    \/ erased
    \/ ioPc = "signal" \/ (ioPc = "irq" /\ intState)
    \/ WillLook

\* should_signal has decided about everything the driver has not seen.
Decided == Resting /\ ioPc # "should_signal" /\ usedIdx # lastUsed

\* A handler that rests, or is about to, has asked for the next entry.
ArmedInv ==
    enabled /\ (Resting \/ irqPc \in {"more_used", "recheck"}) =>
        IF useEventIdx THEN usedEvent = lastUsed ELSE ~noInterrupt

\* What is decided while it rests was decided with an interrupt, ...
DecidedInv == enabled /\ useEventIdx /\ Decided => Passed

\* ... and an interrupt for what it has not seen is not forgotten.
ToldInv == enabled /\ (IF useEventIdx THEN Passed ELSE Decided) => Told

InterruptInv == ArmedInv /\ DecidedInv /\ ToldInv

LEMMA InitInterruptInv == Init => InterruptInv
  BY Zenon DEF Init, InterruptInv, ArmedInv, DecidedInv, ToldInv

LEMMA NextInterruptInv ==
    ASSUME InterruptsKept, TypeOK, LifeInv, AgreeInv, FreshIdxInv, AckInv, BoundInv, InterruptInv,
           [Next]_vars
    PROVE  InterruptInv'
  <1> DEFINE Kept == UNCHANGED <<enabled, useEventIdx, usedIdx, lastUsed, lastSignalled,
                                 usedEvent, noInterrupt>>
             Handling == UNCHANGED <<irqPc, irqStatus, irq, intState, erased>>
  <1> USE DEF ringVars, subVars, irqVars, vqVars, ioVars, mmioVars, pastVars
  <1>a. ArmedInv /\ DecidedInv /\ ToldInv
    BY DEF InterruptInv
  <1>b. /\ usedIdx \in Idx /\ lastUsed \in Idx /\ lastSignalled \in Idx /\ usedEvent \in Idx
        /\ availIdx \in Idx /\ lastAvail \in Idx /\ free \in SUBSET Heads
    BY DEF TypeOK
  <1>c. enabled => (useEventIdx <=> DrvEventIdx)
    BY AgreeOnEventIdx, Zenon DEF InterruptsKept
  <1>d. ASSUME Kept, Handling,
               ioPc \notin {"should_signal", "signal", "irq"},
               ioPc' \notin {"should_signal", "signal", "irq"}
        PROVE  InterruptInv'
    BY <1>a, <1>d DEF InterruptInv, ArmedInv, DecidedInv, ToldInv, Resting, WillLook, Passed, Told,
          Decided
  <1>e. ASSUME Kept, Handling, UNCHANGED ioPc PROVE InterruptInv'
    BY <1>a, <1>e DEF InterruptInv, ArmedInv, DecidedInv, ToldInv, Resting, WillLook, Passed, Told,
          Decided
  <1>1. ASSUME NEW h \in Heads, NEW t \in Types, virtqueue_add(h, t) PROVE InterruptInv'
    BY <1>1, <1>e, Zenon DEF virtqueue_add
  <1>2. CASE virtqueue_kick_prepare
    BY <1>2, <1>e, Zenon DEF virtqueue_kick_prepare
  <1>3. CASE Handler
    <2>0. ASSUME UNCHANGED <<enabled, useEventIdx, usedIdx, lastUsed, lastSignalled>>,
                 irqPc' = "off", usedIdx = lastUsed, ArmedInv'
          PROVE  InterruptInv'
      <3>1. IdxSub(usedIdx, lastUsed) = 0 /\ IdxSub(usedIdx, lastSignalled) \in Nat
        BY <1>b, <2>0, SubInIdx DEF Idx
      <3> QED
        BY <2>0, <3>1 DEF InterruptInv, DecidedInv, ToldInv, Passed, Decided
    <2>1. CASE vm_interrupt
      <3>1. irqPc = "off" /\ irqPc' = "status" /\ Kept /\ UNCHANGED <<ioPc, intState, erased>>
        BY <2>1, Zenon DEF vm_interrupt
      <3> QED
        BY <1>a, <3>1 DEF InterruptInv, ArmedInv, DecidedInv, ToldInv, Resting, WillLook, Passed,
              Told, Decided
    <2>2. CASE vring_interrupt \/ virtqueue_poll
      <3>1. /\ irqPc \in {"more_used", "recheck"}
            /\ UNCHANGED <<enabled, useEventIdx, usedIdx, lastUsed, lastSignalled, usedEvent>>
        BY <2>2, Zenon DEF vring_interrupt, virtqueue_poll
      <3>2. \/ usedIdx = lastUsed /\ irqPc' = "off" /\ UNCHANGED noInterrupt
            \/ irqPc' = "drain"
        BY <2>2, Zenon DEF vring_interrupt, virtqueue_poll
      <3>3. CASE irqPc' = "drain"
        BY <3>3 DEF InterruptInv, ArmedInv, DecidedInv, ToldInv, Resting, WillLook, Told, Decided
      <3>4. CASE usedIdx = lastUsed /\ irqPc' = "off" /\ UNCHANGED noInterrupt
        BY <1>a, <2>0, <3>1, <3>4 DEF ArmedInv, Resting
      <3> QED
        BY <3>2, <3>3, <3>4
    <2>3. CASE virtqueue_get_buf
      <3>1. irqPc' \in {"drain", "enable"}
        BY <2>3, Zenon DEF virtqueue_get_buf
      <3> QED
        BY <3>1 DEF InterruptInv, ArmedInv, DecidedInv, ToldInv, Resting, WillLook, Told, Decided
    <2>4. CASE virtqueue_enable_cb
      <3>1. irqPc' = "recheck" /\ ~noInterrupt' /\ (DrvEventIdx => usedEvent' = lastUsed)
            /\ UNCHANGED <<enabled, useEventIdx, lastUsed>>
        BY <2>4, Zenon DEF virtqueue_enable_cb
      <3> QED
        BY <1>c, <3>1 DEF InterruptInv, ArmedInv, DecidedInv, ToldInv, Resting, WillLook, Told,
              Decided
    <2> QED
      BY <1>3, <2>1, <2>2, <2>3, <2>4, Zenon DEF Handler
  <1>4. CASE MainThread
    <2>1. CASE notify_vq \/ exit_vq_notify
      BY <2>1, <1>e, Zenon DEF notify_vq, exit_vq_notify
    <2>2. CASE interrupt_status
      <3>1. /\ irqPc = "status" /\ irqPc' \in {"ack", "off"} /\ (intState => irqPc' = "ack")
            /\ irqStatus' = intState
            /\ Kept /\ UNCHANGED <<ioPc, intState, irq, erased>>
        BY <2>2, Zenon DEF interrupt_status
      <3> QED
        BY <1>a, <3>1 DEF InterruptInv, ArmedInv, DecidedInv, ToldInv, Resting, WillLook, Passed,
              Told, Decided
    <2>3. CASE interrupt_ack_load
      BY <2>3, <1>e, Zenon DEF interrupt_ack_load
    <2>4. CASE interrupt_ack_store
      <3>1. /\ irqPc = "ack" /\ (mainIsr => intState)
            /\ irqPc' = (IF irqStatus THEN "more_used" ELSE "off")
            /\ intState' = (mainIsr /\ ~irqStatus)
            /\ erased' = (~irqStatus /\ (erased \/ (intState /\ ~mainIsr)))
            /\ Kept /\ UNCHANGED <<ioPc, irq>>
        BY <2>4, Zenon DEF interrupt_ack_store, AckInv
      <3>2. Resting /\ (Told => Told')
        <4>1. CASE irqStatus
          BY <3>1, <4>1, Zenon DEF Resting, Told, WillLook
        <4>2. CASE ~irqStatus
          BY <3>1, <4>2, Zenon DEF Resting, Told, WillLook
        <4> QED
          BY <4>1, <4>2
      <3>3. ArmedInv' /\ DecidedInv'
        BY <1>a, <3>1, <3>2 DEF ArmedInv, DecidedInv, Resting, Decided, Passed
      <3>4. ToldInv'
        BY <1>a, <3>1, <3>2 DEF ToldInv, Resting, Decided, Passed
      <3> QED
        BY <3>3, <3>4 DEF InterruptInv
    <2>5. CASE exit_vq_joined
      <3>1. ~enabled'
        BY <2>5, Zenon DEF exit_vq_joined
      <3> QED
        BY <3>1 DEF InterruptInv, ArmedInv, DecidedInv, ToldInv
    <2> QED
      BY <1>4, <2>1, <2>2, <2>3, <2>4, <2>5, Zenon DEF MainThread
  <1>5. ASSUME NEW fs \in FeatureSets, init_vq(fs) PROVE InterruptInv'
    <2>1. /\ subPc = "down" /\ usedIdx' = 0 /\ lastUsed' = 0 /\ usedEvent' = 0
          /\ ~noInterrupt' /\ UNCHANGED lastSignalled
      BY <1>5, Zenon DEF init_vq
    <2>2. lastSignalled = 0
      BY <2>1, Zenon DEF FreshIdxInv
    <2>3. ~Passed'
      BY <2>1, <2>2 DEF Passed, IdxSub
    <2> QED
      BY <2>1, <2>3 DEF InterruptInv, ArmedInv, DecidedInv, ToldInv, Decided
  <1>6. CASE exit_vq
    BY <1>6, <1>e, Zenon DEF exit_vq
  <1>7. CASE IoThread
    <2>0. enabled
      BY <1>7, Zenon DEF LifeInv, IoThread, io_loop, io_read, avail_event, no_more, pop, complete,
            drop, set_used_elem, used_idx_advance, should_signal, signal_vq, irq_trigger
    <2>1. CASE \/ io_loop \/ io_read \/ avail_event \/ no_more \/ pop \/ set_used_elem
               \/ \E o \in Outcomes : complete(o) \/ drop(o)
      <3>1. Kept /\ Handling /\ ioPc \notin {"should_signal", "signal", "irq"}
            /\ ioPc' \notin {"should_signal", "signal", "irq"}
        BY <2>1, Zenon DEF io_loop, io_read, avail_event, no_more, pop, complete, drop, set_used_elem
      <3> QED
        BY <1>d, <3>1
    <2>2. CASE used_idx_advance
      <3>1. /\ ioPc = "used_idx" /\ ioPc' = "should_signal" /\ usedIdx' = IdxInc(usedIdx)
            /\ Handling
            /\ UNCHANGED <<enabled, useEventIdx, lastUsed, lastSignalled, usedEvent, noInterrupt>>
        BY <2>2, Zenon DEF used_idx_advance
      <3>2. /\ IdxSub(usedIdx, lastUsed) + 1 < IdxMod
            /\ useEventIdx => IdxSub(usedIdx, lastSignalled) + 1 < IdxMod
        <4>0. Cardinality(free) \in Nat /\ Taken = 1
          BY <1>b, <3>1, FreeCounted DEF Taken
        <4>1. /\ IdxSub(availIdx, lastAvail) \in Nat /\ IdxSub(usedIdx, lastUsed) \in Nat
              /\ IdxSub(usedIdx, lastSignalled) \in Nat
          BY <1>b, SubInIdx DEF Idx
        <4>2. Num \in Nat /\ Num < IdxMod /\ WrapMax \in Nat /\ WrapMax < IdxMod /\ IdxMod \in Nat
          BY RingAssumption, BlkAssumption DEF InterruptsKept
        <4> QED
          BY <2>0, <4>0, <4>1, <4>2, SMT DEF BoundInv, Outstanding
      <3>3. useEventIdx => (Passed' <=> Passed)
        <4>1. IdxSub(usedIdx, lastUsed)' = IdxSub(usedIdx, lastUsed) + 1
          BY <1>b, <3>1, <3>2, SubIncLeft
        <4>2. useEventIdx =>
                IdxSub(usedIdx, lastSignalled)' = IdxSub(usedIdx, lastSignalled) + 1
          BY <1>b, <3>1, <3>2, SubIncLeft
        <4>3. IdxSub(usedIdx, lastUsed) \in Nat /\ IdxSub(usedIdx, lastSignalled) \in Nat
          BY <1>b, SubInIdx DEF Idx
        <4> QED
          BY <4>1, <4>2, <4>3, SMT DEF Passed
      <3> QED
        BY <1>a, <3>1, <3>3 DEF InterruptInv, ArmedInv, DecidedInv, ToldInv, Resting, WillLook,
              Told, Decided
    <2>3. CASE should_signal
      <3>1. /\ ioPc = "should_signal" /\ Handling
            /\ UNCHANGED <<enabled, useEventIdx, usedIdx, lastUsed, usedEvent, noInterrupt>>
        BY <2>3, Zenon DEF should_signal
      <3>2. lastSignalled' = IF useEventIdx /\ WantsSignal THEN usedIdx ELSE lastSignalled
        BY <2>3, Zenon DEF should_signal
      <3>3. ioPc' = IF WantsSignal THEN "signal" ELSE "avail_event"
        BY <2>3, Zenon DEF should_signal
      <3>4. ArmedInv'
        BY <1>a, <3>1 DEF ArmedInv, Resting
      <3>5. IdxSub(usedIdx, usedIdx) = 0 /\ IdxSub(usedIdx, lastUsed) \in Nat
            /\ (usedIdx # lastUsed => IdxSub(usedIdx, lastUsed) > 0)
        BY <1>b, SubInIdx DEF Idx
      <3>6. CASE WantsSignal
        <4>1. Told'
          BY <3>3, <3>6 DEF Told
        <4>2. useEventIdx /\ usedIdx # lastUsed => Passed'
          BY <3>1, <3>2, <3>5, <3>6 DEF Passed
        <4> QED
          BY <3>1, <3>4, <4>1, <4>2 DEF InterruptInv, DecidedInv, ToldInv, Decided
      <3>7. CASE ~WantsSignal
        <4>1. lastSignalled' = lastSignalled /\ ioPc' = "avail_event"
          BY <3>2, <3>3, <3>7
        <4>2. CASE useEventIdx
          <5>1. ~vring_need_event(usedEvent, usedIdx, lastSignalled)
            BY <3>7, <4>2 DEF WantsSignal
          <5>2. Resting /\ usedIdx # lastUsed => Passed
            BY <1>a, <1>b, <2>0, <4>2, <5>1, NoEvent DEF ArmedInv, Passed
          <5> QED
            BY <1>a, <3>1, <3>4, <4>1, <4>2, <5>2 DEF InterruptInv, DecidedInv, ToldInv, Passed,
                  Decided, Told, Resting, WillLook
        <4>3. CASE ~useEventIdx
          <5>1. noInterrupt
            BY <3>7, <4>3 DEF WantsSignal
          <5>2. ~Resting
            BY <1>a, <2>0, <4>3, <5>1 DEF ArmedInv
          <5> QED
            BY <3>1, <3>4, <4>3, <5>2 DEF InterruptInv, DecidedInv, ToldInv, Decided, Resting
        <4> QED
          BY <4>2, <4>3
      <3> QED
        BY <3>6, <3>7
    <2>4. CASE signal_vq
      <3>1. ioPc = "signal" /\ ioPc' = "irq" /\ intState' = TRUE /\ Kept
            /\ UNCHANGED <<irqPc, irqStatus, irq, erased>>
        BY <2>4, Zenon DEF signal_vq
      <3> QED
        BY <1>a, <3>1 DEF InterruptInv, ArmedInv, DecidedInv, ToldInv, Resting, WillLook, Passed,
              Told, Decided
    <2>5. CASE irq_trigger
      <3>1. ioPc = "irq" /\ ioPc' = "avail_event" /\ irq' = TRUE /\ Kept
            /\ UNCHANGED <<irqPc, irqStatus, intState, erased>>
        BY <2>5, Zenon DEF irq_trigger
      <3> QED
        BY <1>a, <3>1 DEF InterruptInv, ArmedInv, DecidedInv, ToldInv, Resting, WillLook, Passed,
              Told, Decided
    <2> QED
      BY <1>7, <2>1, <2>2, <2>3, <2>4, <2>5, Zenon DEF IoThread
  <1>8. CASE UNCHANGED vars
    BY <1>8, <1>e, Zenon DEF vars
  <1> QED
    BY <1>1, <1>2, <1>3, <1>4, <1>5, <1>6, <1>7, <1>8, Zenon DEF Next

\* A returned request the driver has not seen has its interrupt, or an
\* acknowledge of 0 has erased it: the event index protocol of should_signal
\* against virtqueue_enable_cb, and the unlocked updates of interrupt_state by
\* signal_vq and INTERRUPT_ACK.
THEOREM InterruptsNotLost == InterruptsKept => (Safety => []NoLostInterrupt)
  <1> SUFFICES ASSUME InterruptsKept PROVE Safety => []NoLostInterrupt
    OBVIOUS
  <1>1. InterruptInv => NoLostInterrupt
    BY DEF InterruptInv, DecidedInv, ToldInv, NoLostInterrupt, Signalling, Decided, Resting, Told,
          WillLook
  <1>2. TypeOK /\ LifeInv /\ AgreeInv /\ FreshIdxInv /\ AckInv /\ BoundInv /\ InterruptInv
          /\ [Next]_vars => InterruptInv'
    BY NextInterruptInv
  <1> QED
    BY <1>1, <1>2, TypeCorrect, InitLifeInv, NextLifeInv, InitAgreeInv, NextAgreeInv,
       InitFreshIdxInv, NextFreshIdxInv, InitAckInv, NextAckInv, InitBoundInv, NextBoundInv, InitInterruptInv,
       PTL DEF Safety


(***************************************************************************)
(* Windows as sequences                                                    *)
(***************************************************************************)

\* A window of at most Num entries is a sequence of heads.
LEMMA WindowSeq ==
    ASSUME NEW ring \in [Heads -> Heads], NEW first \in Idx, NEW next \in Idx,
           IdxSub(next, first) <= Num
    PROVE  /\ Window(ring, first, next) \in Seq(Heads)
           /\ Len(Window(ring, first, next)) = IdxSub(next, first)
  <1> DEFINE k == IdxSub(next, first)
             w == Window(ring, first, next)
  <1>1. k \in Nat
    BY SubInIdx DEF Idx
  <1>2. DOMAIN w = 1 .. k /\ w = [n \in 1 .. k |-> w[n]]
    BY DEF Window
  <1>3. Held(w) \subseteq Heads
    BY WindowHeld
  <1> HIDE DEF k, w
  <1>4. w \in [1 .. k -> Heads]
    BY <1>2, <1>3 DEF Held
  <1>5. w \in Seq(Heads)
    BY <1>1, <1>4
  <1> QED
    BY <1>1, <1>2, <1>5 DEF k, w

\* Advancing the end appends the entry there, ...
LEMMA WindowAppend ==
    ASSUME NEW ring \in [Heads -> Heads], NEW first \in Idx, NEW next \in Idx,
           IdxSub(next, first) < Num
    PROVE  Window(ring, first, IdxInc(next)) = Append(Window(ring, first, next), ring[Slot(next)])
  <1> DEFINE k == IdxSub(next, first)
             w == Window(ring, first, next)
             x == Window(ring, first, IdxInc(next))
             h == ring[Slot(next)]
  <1>1. /\ DOMAIN w = 1 .. k /\ DOMAIN x = 1 .. k + 1
        /\ \A n \in 1 .. k : x[n] = w[n]
        /\ x[k + 1] = h
        /\ k \in 0 .. Num - 1
    BY WindowGrowAt
  <1>2. w \in Seq(Heads) /\ Len(w) = k
    BY <1>1, WindowSeq, RingAssumption
  <1>3. x \in Seq(Heads) /\ Len(x) = k + 1
    <2>1. IdxSub(IdxInc(next), first) = k + 1
      BY <1>1, SubIncLeft, RingAssumption
    <2>2. k + 1 <= Num
      BY <1>1, RingAssumption
    <2> QED
      BY <2>1, <2>2, IncInIdx, WindowSeq
  <1>4. h \in Heads
    BY SlotInRing
  <1> HIDE DEF k, w, x, h
  <1>5. Append(w, h) \in Seq(Heads) /\ Len(Append(w, h)) = k + 1
    BY <1>2, <1>4
  <1>6. \A n \in 1 .. k + 1 : Append(w, h)[n] = x[n]
    BY <1>1, <1>2, <1>4
  <1>7. x = Append(w, h)
    BY <1>3, <1>5, <1>6, SeqEqual
  <1> QED
    BY <1>7 DEF w, x, h

\* ... and advancing the beginning leaves the tail.
LEMMA WindowTail ==
    ASSUME NEW ring \in [Heads -> Heads], NEW first \in Idx, NEW next \in Idx,
           first # next, IdxSub(next, first) <= Num
    PROVE  /\ Window(ring, first, next) # <<>>
           /\ Head(Window(ring, first, next)) = ring[Slot(first)]
           /\ Tail(Window(ring, first, next)) = Window(ring, IdxInc(first), next)
  <1> DEFINE k == IdxSub(next, first)
             w == Window(ring, first, next)
             x == Window(ring, IdxInc(first), next)
  <1>1. /\ DOMAIN w = 1 .. k /\ DOMAIN x = 1 .. k - 1
        /\ \A n \in 1 .. k - 1 : x[n] = w[n + 1]
        /\ w[1] = ring[Slot(first)]
        /\ k \in 1 .. Num
    BY WindowShrinkAt
  <1>2. w \in Seq(Heads) /\ Len(w) = k
    BY WindowSeq
  <1>3. x \in Seq(Heads) /\ Len(x) = k - 1
    <2>1. IdxSub(next, IdxInc(first)) = k - 1
      BY SubIncRight
    <2>2. k - 1 <= Num
      BY <1>1, RingAssumption
    <2> QED
      BY <2>1, <2>2, IncInIdx, WindowSeq
  <1> HIDE DEF k, w, x
  <1>4. w # <<>>
    BY <1>1, <1>2
  <1>5. Head(w) = ring[Slot(first)]
    BY <1>1, <1>2, <1>4
  <1>6. /\ Tail(w) \in Seq(Heads) /\ Len(Tail(w)) = k - 1
        /\ \A n \in 1 .. k - 1 : Tail(w)[n] = x[n]
    BY <1>1, <1>2, <1>4, HeadTailProperties
  <1>7. Tail(w) = x
    BY <1>3, <1>6, SeqEqual
  <1> QED
    BY <1>4, <1>5, <1>7 DEF w, x

(***************************************************************************)
(* Sequences                                                               *)
(***************************************************************************)

\* The request in service stands before the submitted ones, ...
LEMMA ServiceFirst ==
    ASSUME NEW x \in Heads, NEW s \in Seq(Heads)
    PROVE  <<x>> \o s # <<>> /\ Head(<<x>> \o s) = x /\ Tail(<<x>> \o s) = s
  <1>1. <<x>> \in Seq(Heads) /\ Len(<<x>>) = 1 /\ <<x>>[1] = x
    OBVIOUS
  <1>2. /\ <<x>> \o s \in Seq(Heads) /\ Len(<<x>> \o s) = 1 + Len(s)
        /\ \A i \in 1 .. 1 + Len(s) : (<<x>> \o s)[i] = IF i <= 1 THEN <<x>>[i] ELSE s[i - 1]
    BY <1>1, ConcatProperties
  <1>3. Len(s) \in Nat
    OBVIOUS
  <1>4. <<x>> \o s # <<>> /\ Head(<<x>> \o s) = x
    BY <1>1, <1>2, <1>3
  <1>5. /\ Tail(<<x>> \o s) \in Seq(Heads) /\ Len(Tail(<<x>> \o s)) = Len(s)
        /\ \A i \in 1 .. Len(s) : Tail(<<x>> \o s)[i] = (<<x>> \o s)[i + 1]
    BY <1>2, <1>3, <1>4, HeadTailProperties
  <1>6. \A i \in 1 .. Len(s) : Tail(<<x>> \o s)[i] = s[i]
    BY <1>2, <1>3, <1>5
  <1> QED
    BY <1>4, <1>5, <1>6, SeqEqual

\* What a concatenation holds, by the length of its second part.
LEMMA Concatenated ==
    ASSUME NEW t \in Seq(Heads), NEW u \in Seq(Heads), NEW n, n = Len(u)
    PROVE  /\ t \o u \in Seq(Heads) /\ Len(t \o u) = Len(t) + n
           /\ \A i \in 1 .. Len(t) + n : (t \o u)[i] = IF i <= Len(t) THEN t[i] ELSE u[i - Len(t)]
  BY ConcatProperties

\* ... a new one goes to the end, ...
LEMMA SubmittedLast ==
    ASSUME NEW t \in Seq(Heads), NEW s \in Seq(Heads), NEW h \in Heads
    PROVE  t \o Append(s, h) = Append(t \o s, h)
  <1> DEFINE u == Append(s, h)
             n == Len(s) + 1
  <1>1. u \in Seq(Heads) /\ Len(u) = n
    OBVIOUS
  <1>2. /\ t \o s \in Seq(Heads) /\ Len(t \o s) = Len(t) + Len(s)
        /\ \A i \in 1 .. Len(t) + Len(s) : (t \o s)[i] = IF i <= Len(t) THEN t[i] ELSE s[i - Len(t)]
    BY ConcatProperties
  <1> HIDE DEF u, n
  <1>3. /\ t \o u \in Seq(Heads) /\ Len(t \o u) = Len(t) + n
        /\ \A i \in 1 .. Len(t) + n : (t \o u)[i] = IF i <= Len(t) THEN t[i] ELSE u[i - Len(t)]
    BY <1>1, Concatenated
  <1> USE DEF u, n
  <1>4. Append(t \o s, h) \in Seq(Heads) /\ Len(Append(t \o s, h)) = Len(t) + (Len(s) + 1)
    BY <1>2
  <1>5. ASSUME NEW i \in 1 .. Len(t) + (Len(s) + 1)
        PROVE  (t \o Append(s, h))[i] = Append(t \o s, h)[i]
    <2>1. Len(t) \in Nat /\ Len(s) \in Nat
      OBVIOUS
    <2>2. CASE i <= Len(t) + Len(s)
      <3>1. Append(t \o s, h)[i] = (t \o s)[i]
        BY <1>2, <2>1, <2>2
      <3>2. i > Len(t) => Append(s, h)[i - Len(t)] = s[i - Len(t)]
        BY <2>1, <2>2
      <3> QED
        BY <1>2, <1>3, <2>1, <2>2, <3>1, <3>2
    <2>3. CASE i = Len(t) + Len(s) + 1
      <3>1. Append(t \o s, h)[i] = h
        BY <1>2, <2>1, <2>3
      <3>2. Append(s, h)[i - Len(t)] = h
        BY <2>1, <2>3
      <3> QED
        BY <1>3, <2>1, <2>3, <3>1, <3>2
    <2> QED
      BY <2>1, <2>2, <2>3
  <1> QED
    BY <1>3, <1>4, <1>5, SeqEqual

\* ... and popping the first puts it in service.
LEMMA PoppedFirst ==
    ASSUME NEW s \in Seq(Heads), s # <<>>
    PROVE  <<Head(s)>> \o Tail(s) = s
  <1> DEFINE t == <<Head(s)>> \o Tail(s)
  <1>1. /\ Head(s) \in Heads /\ Tail(s) \in Seq(Heads) /\ Len(Tail(s)) = Len(s) - 1
        /\ \A i \in 1 .. Len(Tail(s)) : Tail(s)[i] = s[i + 1]
    BY HeadTailProperties
  <1>2. <<Head(s)>> \in Seq(Heads) /\ Len(<<Head(s)>>) = 1 /\ <<Head(s)>>[1] = s[1]
    BY <1>1
  <1>3. /\ t \in Seq(Heads) /\ Len(t) = 1 + Len(Tail(s))
        /\ \A i \in 1 .. 1 + Len(Tail(s)) : t[i] = IF i <= 1 THEN <<Head(s)>>[i] ELSE Tail(s)[i - 1]
    BY <1>1, <1>2, ConcatProperties
  <1> HIDE DEF t
  <1>4. Len(s) \in Nat \ {0}
    OBVIOUS
  <1>5. ASSUME NEW i \in 1 .. Len(s) PROVE t[i] = s[i]
    BY <1>1, <1>2, <1>3, <1>4
  <1> QED
    BY <1>1, <1>3, <1>4, <1>5, SeqEqual DEF t

\* The answers in a window of the used ring.
Answers(w, st) == [n \in DOMAIN w |-> [head |-> w[n], status |-> st[w[n]]]]

Answered == [head : Heads, status : {"none", "ok", "ioerr"}]

LEMMA AnswersSeq ==
    ASSUME NEW w \in Seq(Heads), NEW st \in [Heads -> {"none", "ok", "ioerr"}]
    PROVE  /\ Answers(w, st) \in Seq(Answered) /\ Len(Answers(w, st)) = Len(w)
           /\ \A n \in 1 .. Len(w) : Answers(w, st)[n] = [head |-> w[n], status |-> st[w[n]]]
  <1>1. DOMAIN w = 1 .. Len(w) /\ Len(w) \in Nat /\ \A n \in 1 .. Len(w) : w[n] \in Heads
    OBVIOUS
  <1>2. \A n \in 1 .. Len(w) : [head |-> w[n], status |-> st[w[n]]] \in Answered
    BY <1>1 DEF Answered
  <1>3. Answers(w, st) \in [1 .. Len(w) -> Answered]
    BY <1>1, <1>2 DEF Answers
  <1>4. DOMAIN Answers(w, st) = 1 .. Len(w)
    BY <1>1 DEF Answers
  <1> HIDE DEF Answered
  <1>5. Answers(w, st) \in Seq(Answered)
    BY <1>1, <1>3
  <1>6. Len(Answers(w, st)) = Len(w)
    BY <1>1, <1>4, <1>5
  <1> QED
    BY <1>1, <1>5, <1>6 DEF Answers

LEMMA AnswersAppend ==
    ASSUME NEW w \in Seq(Heads), NEW st \in [Heads -> {"none", "ok", "ioerr"}], NEW h \in Heads
    PROVE  Answers(Append(w, h), st) = Append(Answers(w, st), [head |-> h, status |-> st[h]])
  <1> DEFINE a == Answers(w, st)
             b == Answers(Append(w, h), st)
             r == [head |-> h, status |-> st[h]]
  <1>1. /\ Append(w, h) \in Seq(Heads) /\ Len(Append(w, h)) = Len(w) + 1 /\ Len(w) \in Nat
        /\ \A n \in 1 .. Len(w) : Append(w, h)[n] = w[n]
        /\ Append(w, h)[Len(w) + 1] = h
    OBVIOUS
  <1>2. /\ a \in Seq(Answered) /\ Len(a) = Len(w)
        /\ \A n \in 1 .. Len(w) : a[n] = [head |-> w[n], status |-> st[w[n]]]
    BY AnswersSeq
  <1>3. /\ b \in Seq(Answered) /\ Len(b) = Len(w) + 1
        /\ \A n \in 1 .. Len(w) + 1 :
              b[n] = [head |-> Append(w, h)[n], status |-> st[Append(w, h)[n]]]
    BY <1>1, AnswersSeq
  <1>4. r \in Answered
    BY DEF Answered
  <1>5. \A n \in 1 .. Len(w) : b[n] = a[n]
    BY <1>1, <1>2, <1>3
  <1>6. b[Len(w) + 1] = r
    BY <1>1, <1>3
  <1> HIDE DEF a, b, r, Answered
  <1>7. /\ Append(a, r) \in Seq(Answered) /\ Len(Append(a, r)) = Len(w) + 1
        /\ \A n \in 1 .. Len(w) : Append(a, r)[n] = a[n]
        /\ Append(a, r)[Len(w) + 1] = r
    BY <1>1, <1>2, <1>4
  <1>8. \A n \in 1 .. Len(w) + 1 : b[n] = Append(a, r)[n]
    BY <1>1, <1>5, <1>6, <1>7
  <1> QED
    BY <1>3, <1>7, <1>8, SeqEqual DEF a, b, r

LEMMA AnswersTail ==
    ASSUME NEW w \in Seq(Heads), NEW st \in [Heads -> {"none", "ok", "ioerr"}], w # <<>>
    PROVE  /\ Answers(w, st) # <<>>
           /\ Head(Answers(w, st)).head = Head(w)
           /\ Answers(Tail(w), st) = Tail(Answers(w, st))
  <1> DEFINE a == Answers(w, st)
             b == Answers(Tail(w), st)
  <1>1. /\ Tail(w) \in Seq(Heads) /\ Len(Tail(w)) = Len(w) - 1
        /\ \A n \in 1 .. Len(Tail(w)) : Tail(w)[n] = w[n + 1]
    BY HeadTailProperties
  <1>2. /\ a \in Seq(Answered) /\ Len(a) = Len(w)
        /\ \A n \in 1 .. Len(w) : a[n] = [head |-> w[n], status |-> st[w[n]]]
    BY AnswersSeq
  <1>3. /\ b \in Seq(Answered) /\ Len(b) = Len(w) - 1
        /\ \A n \in 1 .. Len(w) - 1 : b[n] = [head |-> Tail(w)[n], status |-> st[Tail(w)[n]]]
    BY <1>1, AnswersSeq
  <1>4. Len(w) \in Nat \ {0}
    OBVIOUS
  <1>5. a[1] = [head |-> w[1], status |-> st[w[1]]] /\ \A n \in 1 .. Len(w) - 1 : b[n] = a[n + 1]
    <2>1. a[1] = [head |-> w[1], status |-> st[w[1]]]
      BY <1>2, <1>4
    <2>2. ASSUME NEW n \in 1 .. Len(w) - 1 PROVE b[n] = a[n + 1]
      <3>1. n + 1 \in 1 .. Len(w)
        BY <1>4
      <3>2. Tail(w)[n] = w[n + 1]
        BY <1>1
      <3>3. b[n] = [head |-> w[n + 1], status |-> st[w[n + 1]]]
        BY <1>3, <3>2
      <3> HIDE DEF a, b
      <3> QED
        BY <1>2, <3>1, <3>3
    <2> QED
      BY <2>1, <2>2
  <1> HIDE DEF a, b, Answered
  <1>6. a # <<>>
    BY <1>2, <1>4
  <1>7. Head(a) = a[1] /\ Head(w) = w[1]
    BY <1>2, <1>6
  <1>8. Head(a).head = Head(w)
    BY <1>5, <1>7
  <1>9. /\ Tail(a) \in Seq(Answered) /\ Len(Tail(a)) = Len(w) - 1
        /\ \A n \in 1 .. Len(w) - 1 : Tail(a)[n] = a[n + 1]
    BY <1>2, <1>6, HeadTailProperties
  <1>10. \A n \in 1 .. Len(w) - 1 : b[n] = Tail(a)[n]
    BY <1>5, <1>9
  <1>11. b = Tail(a)
    BY <1>3, <1>9, <1>10, SeqEqual
  <1> QED
    BY <1>6, <1>8, <1>11 DEF a, b

\* The answers of a window do not depend on the status of other heads.
LEMMA AnswersKept ==
    ASSUME NEW w, NEW st, NEW su, \A h \in Held(w) : st[h] = su[h]
    PROVE  Answers(w, st) = Answers(w, su)
  BY DEF Answers, Held

(***************************************************************************)
(* What the service shows of the data path                                 *)
(***************************************************************************)
ShownFree == IF enabled THEN free ELSE Heads
ShownQueue == IF enabled THEN ServiceSeq \o AvailSeq ELSE <<>>
ShownDone == IF enabled THEN Answers(UsedSeq, reqStatus) ELSE <<>>
ShownLost == IF enabled THEN lost ELSE {}

LEMMA Shown ==
    /\ ShownDone = IF enabled
                   THEN [n \in DOMAIN UsedSeq |->
                           [head |-> UsedSeq[n], status |-> reqStatus[UsedSeq[n]]]]
                   ELSE <<>>
    /\ UNCHANGED <<enabled, ShownFree, ShownQueue, ShownDone, ShownLost>>
         => UNCHANGED Service!bsVars
  BY DEF ShownFree, ShownQueue, ShownDone, ShownLost, Answers, Service!bsVars

\* The moves of the service, in those terms.
LEMMA SubmitShown ==
    ASSUME NEW h \in Heads, enabled, h \in ShownFree, ShownFree' = ShownFree \ {h},
           ShownQueue' = Append(ShownQueue, h), UNCHANGED <<enabled, ShownDone, ShownLost>>
    PROVE  Service!Next
  BY Zenon, Shown DEF ShownFree, ShownQueue, ShownDone, ShownLost, Answers, Service!Next, Service!Submit

LEMMA AnswerShown ==
    ASSUME NEW st \in {"ok", "ioerr"}, ShownQueue # <<>>, ShownQueue' = Tail(ShownQueue),
           ShownDone' = Append(ShownDone, [head |-> Head(ShownQueue), status |-> st]),
           UNCHANGED <<enabled, ShownFree, ShownLost>>
    PROVE  Service!Next
  BY Zenon DEF ShownFree, ShownQueue, ShownDone, ShownLost, Answers, Service!Next, Service!Serve,
       Service!Answer, Service!Statuses

LEMMA DropShown ==
    ASSUME ShownQueue # <<>>, ShownQueue' = Tail(ShownQueue),
           ShownLost' = ShownLost \cup {Head(ShownQueue)},
           UNCHANGED <<enabled, ShownFree, ShownDone>>
    PROVE  Service!Next
  BY Zenon DEF ShownFree, ShownQueue, ShownDone, ShownLost, Answers, Service!Next, Service!Serve,
       Service!Drop

LEMMA ReapShown ==
    ASSUME ShownDone # <<>>, ShownDone' = Tail(ShownDone),
           ShownFree' = ShownFree \cup {Head(ShownDone).head},
           UNCHANGED <<enabled, ShownQueue, ShownLost>>
    PROVE  Service!Next
  BY Zenon DEF ShownFree, ShownQueue, ShownDone, ShownLost, Answers, Service!Next, Service!Reap

LEMMA ClearedShown ==
    ASSUME enabled' = ~enabled, ShownFree' = Heads, ShownQueue' = <<>>, ShownDone' = <<>>,
           ShownLost' = {}
    PROVE  Service!Next
  <1>1. CASE enabled
    BY <1>1, Zenon DEF ShownFree, ShownQueue, ShownDone, ShownLost, Answers, Service!Next,
          Service!Reset, Service!Cleared
  <1>2. CASE ~enabled
    BY <1>2, Zenon DEF ShownFree, ShownQueue, ShownDone, ShownLost, Answers, Service!Next,
          Service!Bind, Service!Cleared
  <1> QED
    BY <1>1, <1>2

(***************************************************************************)
(* A request that goes to the used ring has its status                     *)
(***************************************************************************)
StatusInv == ioPc \in {"used_elem", "used_idx"} => reqStatus[ioHead] \in {"ok", "ioerr"}

LEMMA InitStatusInv == Init => StatusInv
  BY DEF Init, StatusInv

LEMMA NextStatusInv == TypeOK /\ LifeInv /\ OwnInv /\ StatusInv /\ [Next]_vars => StatusInv'
  <1> SUFFICES ASSUME TypeOK, LifeInv, OwnInv, StatusInv, [Next]_vars PROVE StatusInv'
    OBVIOUS
  <1> USE DEF ringVars, subVars, irqVars, vqVars, ioVars, mmioVars, pastVars
  <1>a. reqStatus \in [Heads -> {"none", "ok", "ioerr"}] /\ ioHead \in Heads
    BY DEF TypeOK
  <1>b. ASSUME UNCHANGED <<ioPc, ioHead, reqStatus>> PROVE StatusInv'
    BY <1>b DEF StatusInv
  <1>1. ASSUME NEW h \in Heads, NEW t \in Types, virtqueue_add(h, t) PROVE StatusInv'
    <2>1. /\ h \in free /\ reqStatus' = [reqStatus EXCEPT ![h] = "none"] /\ UNCHANGED <<ioPc, ioHead>>
          /\ enabled
      BY <1>1, Zenon DEF virtqueue_add, LifeInv
    <2>2. ioPc \in {"used_elem", "used_idx"} => h # ioHead
      BY <2>1 DEF OwnInv, Parted, InService
    <2> QED
      BY <1>a, <2>1, <2>2 DEF StatusInv
  <1>2. CASE virtqueue_kick_prepare \/ Handler \/ MainThread \/ exit_vq
    <2>1. CASE exit_vq_joined
      BY <2>1 DEF exit_vq_joined, StatusInv
    <2>2. CASE ~exit_vq_joined
      BY <1>2, <1>b, <2>2, Zenon DEF virtqueue_kick_prepare, Handler, vm_interrupt, vring_interrupt,
            virtqueue_get_buf, virtqueue_enable_cb, virtqueue_poll, MainThread, notify_vq,
            interrupt_status, interrupt_ack_load, interrupt_ack_store, exit_vq_notify, exit_vq
    <2> QED
      BY <2>1, <2>2
  <1>3. ASSUME NEW fs \in FeatureSets, init_vq(fs) PROVE StatusInv'
    <2>1. ioPc' = "loop"
      BY <1>3, Zenon DEF init_vq
    <2> QED
      BY <2>1 DEF StatusInv
  <1>4. ASSUME NEW o \in Outcomes, complete(o) PROVE StatusInv'
    <2>1. /\ \E st \in {"ok", "ioerr"} : reqStatus' = [reqStatus EXCEPT ![ioHead] = st]
          /\ ioHead' = ioHead
      BY <1>4, Zenon DEF complete
    <2> QED
      BY <1>a, <2>1 DEF StatusInv
  <1>5. CASE set_used_elem
    BY <1>5 DEF set_used_elem, StatusInv
  <1>6. CASE \/ io_loop \/ io_read \/ avail_event \/ no_more \/ pop
             \/ \E o \in Outcomes : drop(o)
             \/ used_idx_advance \/ should_signal \/ signal_vq \/ irq_trigger
    <2>1. ioPc' \notin {"used_elem", "used_idx"}
      BY <1>6, Zenon DEF io_loop, io_read, avail_event, no_more, pop, drop, used_idx_advance,
            should_signal, signal_vq, irq_trigger
    <2> QED
      BY <2>1 DEF StatusInv
  <1>7. CASE UNCHANGED vars
    BY <1>7, <1>b, Zenon DEF vars
  <1> QED
    BY <1>1, <1>2, <1>3, <1>4, <1>5, <1>6, <1>7, Zenon DEF Next, IoThread

(***************************************************************************)
(* Every step of the data path is a step of the service, or shows nothing  *)
(***************************************************************************)
LEMMA ServiceStep ==
    /\ TypeOK /\ LifeInv /\ FreshIdxInv /\ BoundInv /\ OwnInv /\ StatusInv
    /\ [Next]_vars
    => [Service!Next]_(Service!bsVars)
  <1> SUFFICES ASSUME TypeOK, LifeInv, FreshIdxInv, BoundInv, OwnInv, StatusInv, [Next]_vars
               PROVE  Service!Next \/ UNCHANGED Service!bsVars
    OBVIOUS
  <1> USE DEF ringVars, subVars, irqVars, vqVars, ioVars, mmioVars, pastVars
  <1>a. /\ availIdx \in Idx /\ usedIdx \in Idx /\ lastUsed \in Idx /\ lastAvail \in Idx
        /\ free \in SUBSET Heads /\ ioHead \in Heads
        /\ usedRing \in [Heads -> Heads] /\ availRing \in [Heads -> Heads]
        /\ reqStatus \in [Heads -> {"none", "ok", "ioerr"}]
    BY DEF TypeOK
  <1>b. enabled =>
            /\ Parted(free, AvailHeads, InService, lost, UsedHeads)
            /\ ioPc = "used_idx" => usedRing[Slot(usedIdx)] = ioHead
    BY DEF OwnInv
  <1>c. /\ IdxSub(availIdx, lastAvail) \in Nat /\ IdxSub(usedIdx, lastUsed) \in Nat
        /\ Cardinality(free) \in Nat /\ Taken \in {0, 1} /\ Num \in Nat
    <2>1. IdxSub(availIdx, lastAvail) \in Nat /\ IdxSub(usedIdx, lastUsed) \in Nat
      BY <1>a, SubInIdx DEF Idx
    <2>2. Cardinality(free) \in Nat
      BY <1>a, FreeCounted
    <2> QED
      BY <2>1, <2>2, RingAssumption DEF Taken
  <1>d. enabled => Cardinality(free) + IdxSub(availIdx, lastAvail) + Taken
                     + IdxSub(usedIdx, lastUsed) <= Num
    BY <1>c DEF BoundInv, Outstanding
  <1>e. enabled => AvailSeq \in Seq(Heads) /\ UsedSeq \in Seq(Heads)
    <2>1. enabled => IdxSub(availIdx, lastAvail) <= Num /\ IdxSub(usedIdx, lastUsed) <= Num
      BY <1>c, <1>d
    <2> QED
      BY <1>a, <2>1, WindowSeq, Windows
  <1>f. ASSUME UNCHANGED <<enabled, free, ioPc, ioHead, lost, availRing, usedRing, availIdx, usedIdx,
                           lastAvail, lastUsed, reqStatus>>
        PROVE  UNCHANGED Service!bsVars
    BY <1>f, Shown DEF ShownFree, ShownQueue, ShownDone, ShownLost, ServiceSeq, InService, AvailSeq,
          UsedSeq, Answers
  <1>1. ASSUME NEW h \in Heads, NEW t \in Types, virtqueue_add(h, t) PROVE Service!Next
    <2>1. /\ h \in free /\ free' = free \ {h} /\ availIdx' = IdxInc(availIdx)
          /\ availRing' = [availRing EXCEPT ![Slot(availIdx)] = h]
          /\ reqStatus' = [reqStatus EXCEPT ![h] = "none"]
          /\ UNCHANGED <<usedRing, usedIdx, lastAvail, lastUsed, enabled, ioPc, ioHead, lost>>
          /\ enabled
      BY <1>1, Zenon DEF virtqueue_add, LifeInv
    <2>2. IdxSub(availIdx, lastAvail) < Num
      <3>1. Cardinality(free) - 1 \in Nat
        <4>1. free \ {h} \in SUBSET Heads
          BY <1>a
        <4> QED
          BY <1>a, <2>1, <4>1, FreeCounted
      <3> QED
        BY <1>c, <1>d, <2>1, <3>1
    <2>3. AvailSeq' = Append(AvailSeq, h)
      <3>1. availRing' \in [Heads -> Heads] /\ availRing'[Slot(availIdx)] = h
        BY <1>a, <2>1, SlotInRing
      <3>2. Window(availRing', lastAvail, availIdx) = AvailSeq
        BY <1>a, <2>1, <2>2, WindowWrite, Windows
      <3>3. AvailSeq' = Window(availRing', lastAvail, IdxInc(availIdx))
        BY <2>1 DEF AvailSeq, Window
      <3> QED
        BY <1>a, <2>2, <3>1, <3>2, <3>3, WindowAppend
    <2>4. UsedSeq' = UsedSeq /\ ServiceSeq' = ServiceSeq
      BY <2>1 DEF UsedSeq, ServiceSeq, InService
    <2>5. Answers(UsedSeq, reqStatus') = Answers(UsedSeq, reqStatus)
      <3>1. h \notin UsedHeads
        BY <1>b, <2>1 DEF Parted
      <3>2. \A g \in Held(UsedSeq) : reqStatus'[g] = reqStatus[g]
        <4>1. UsedHeads \subseteq Heads
          BY <1>b, <2>1 DEF Parted
        <4> QED
          BY <1>a, <2>1, <3>1, <4>1, Windows
      <3> QED
        BY <3>2, AnswersKept
    <2>6. ServiceSeq \in Seq(Heads)
      BY <1>a DEF ServiceSeq
    <2>7. ShownQueue' = Append(ShownQueue, h)
      BY <1>e, <2>1, <2>3, <2>4, <2>6, SubmittedLast DEF ShownQueue
    <2>8. /\ h \in ShownFree /\ ShownFree' = ShownFree \ {h}
          /\ UNCHANGED <<enabled, ShownDone, ShownLost>>
      BY <2>1, <2>4, <2>5 DEF ShownFree, ShownDone, ShownLost
    <2> QED
      BY <2>1, <2>7, <2>8, SubmitShown
  <1>2. CASE virtqueue_kick_prepare \/ exit_vq \/ UNCHANGED vars
    BY <1>2, <1>f, Zenon DEF virtqueue_kick_prepare, exit_vq, vars
  <1>3. CASE Handler
    <2>1. CASE virtqueue_get_buf /\ usedIdx # lastUsed
      <3>1. /\ free' = free \cup {usedRing[Slot(lastUsed)]} /\ lastUsed' = IdxInc(lastUsed)
            /\ UNCHANGED <<availRing, usedRing, availIdx, usedIdx, lastAvail, enabled, ioPc, ioHead,
                           lost, reqStatus>>
        BY <2>1, Zenon DEF virtqueue_get_buf
      <3>2. CASE enabled
        <4>1. IdxSub(usedIdx, lastUsed) <= Num
          BY <1>c, <1>d, <3>2
        <4>2. UsedSeq' = Window(usedRing, IdxInc(lastUsed), usedIdx)
          BY <3>1 DEF UsedSeq, Window
        <4>3. UsedSeq # <<>> /\ Head(UsedSeq) = usedRing[Slot(lastUsed)] /\ Tail(UsedSeq) = UsedSeq'
          BY <1>a, <2>1, <4>1, <4>2, WindowTail, Windows
        <4>4. /\ Answers(UsedSeq, reqStatus) # <<>>
              /\ Head(Answers(UsedSeq, reqStatus)).head = usedRing[Slot(lastUsed)]
              /\ Answers(UsedSeq', reqStatus) = Tail(Answers(UsedSeq, reqStatus))
          BY <1>a, <1>e, <3>2, <4>3, AnswersTail
        <4>5. ShownDone # <<>> /\ ShownDone' = Tail(ShownDone)
          BY <3>1, <3>2, <4>4 DEF ShownDone
        <4>6. ShownFree' = ShownFree \cup {Head(ShownDone).head}
          BY <3>1, <3>2, <4>4 DEF ShownFree, ShownDone
        <4>7. UNCHANGED <<AvailSeq, ServiceSeq>>
          BY <3>1 DEF AvailSeq, ServiceSeq, InService
        <4>8. UNCHANGED <<enabled, ShownQueue, ShownLost>>
          BY <3>1, <4>7 DEF ShownQueue, ShownLost
        <4> QED
          BY <4>5, <4>6, <4>8, ReapShown
      <3>3. CASE ~enabled
        <4>1. UNCHANGED <<enabled, ShownFree, ShownQueue, ShownDone, ShownLost>>
          BY <3>1, <3>3 DEF ShownFree, ShownQueue, ShownDone, ShownLost
        <4> QED
          BY <4>1, Shown
      <3> QED
        BY <3>2, <3>3
    <2>2. CASE ~(virtqueue_get_buf /\ usedIdx # lastUsed)
      BY <1>3, <1>f, <2>2, Zenon DEF Handler, vm_interrupt, vring_interrupt, virtqueue_get_buf,
            virtqueue_enable_cb, virtqueue_poll
    <2> QED
      BY <2>1, <2>2
  <1>4. CASE MainThread
    <2>1. CASE exit_vq_joined
      <3>1. enabled' = FALSE /\ enabled = TRUE
        BY <2>1, Zenon DEF exit_vq_joined, LifeInv, TypeOK
      <3>2. /\ enabled' = ~enabled
            /\ ShownFree' = Heads /\ ShownQueue' = <<>> /\ ShownDone' = <<>> /\ ShownLost' = {}
        BY <3>1 DEF ShownFree, ShownQueue, ShownDone, ShownLost
      <3> QED
        BY <3>2, ClearedShown
    <2>2. CASE ~exit_vq_joined
      BY <1>4, <1>f, <2>2, Zenon DEF MainThread, notify_vq, interrupt_status,
            interrupt_ack_load, interrupt_ack_store, exit_vq_notify
    <2> QED
      BY <2>1, <2>2
  <1>5. ASSUME NEW fs \in FeatureSets, init_vq(fs) PROVE Service!Next
    <2>1. /\ subPc = "down" /\ availIdx' = 0 /\ usedIdx' = 0 /\ lastUsed' = 0
          /\ free' = Heads /\ lost' = {} /\ ioPc' = "loop" /\ enabled' /\ UNCHANGED lastAvail
          /\ ~enabled
      BY <1>5, Zenon DEF init_vq, LifeInv
    <2>2. lastAvail' = 0
      BY <2>1, Zenon DEF FreshIdxInv
    <2>3. IdxSub(0, 0) = 0
      BY DEF IdxSub
    <2>4. DOMAIN AvailSeq' = {} /\ DOMAIN UsedSeq' = {}
      BY <2>1, <2>2, <2>3 DEF AvailSeq, UsedSeq
    <2>5. AvailSeq' = <<>> /\ UsedSeq' = <<>>
      BY <2>1, <2>2, <2>3 DEF AvailSeq, UsedSeq
    <2>6. ServiceSeq' = <<>>
      BY <2>1 DEF ServiceSeq, InService
    <2>7. ShownQueue' = <<>>
      BY <2>1, <2>5, <2>6 DEF ShownQueue
    <2>8. ShownDone' = <<>>
      BY <2>1, <2>5 DEF ShownDone, Answers
    <2>9. ShownFree' = Heads /\ ShownLost' = {} /\ enabled' = ~enabled
      <3>1. enabled \in BOOLEAN /\ enabled' \in BOOLEAN
        BY <1>5, Zenon DEF TypeOK, init_vq
      <3> QED
        BY <2>1, <3>1 DEF ShownFree, ShownLost
    <2> QED
      BY <2>7, <2>8, <2>9, ClearedShown
  <1>6. CASE IoThread
    <2>0. enabled /\ enabled' = enabled
      BY <1>6, Zenon DEF LifeInv, IoThread, io_loop, io_read, avail_event, no_more, pop, complete,
            drop, set_used_elem, used_idx_advance, should_signal, signal_vq, irq_trigger
    <2>1. CASE pop
      <3>1. /\ availIdx # lastAvail /\ lastAvail' = IdxInc(lastAvail)
            /\ ioHead' = availRing[Slot(lastAvail)] /\ ioPc = "avail_idx" /\ ioPc' = "request"
            /\ UNCHANGED <<availRing, usedRing, availIdx, usedIdx, lastUsed, free, lost, reqStatus>>
        BY <2>1, Zenon DEF pop, available
      <3>2. IdxSub(availIdx, lastAvail) <= Num
        BY <1>c, <1>d, <2>0
      <3>3. AvailSeq' = Window(availRing, IdxInc(lastAvail), availIdx)
        BY <3>1 DEF AvailSeq, Window
      <3>4. AvailSeq # <<>> /\ Head(AvailSeq) = ioHead' /\ Tail(AvailSeq) = AvailSeq'
        BY <1>a, <3>1, <3>2, <3>3, WindowTail, Windows
      <3>5. ServiceSeq = <<>> /\ ServiceSeq' = <<ioHead'>>
        BY <3>1 DEF ServiceSeq, InService
      <3>6. ShownQueue = AvailSeq
        BY <1>e, <2>0, <3>5, ConcatEmptySeq DEF ShownQueue
      <3>7. ShownQueue' = AvailSeq
        <4>1. ShownQueue' = <<Head(AvailSeq)>> \o Tail(AvailSeq)
          BY <2>0, <3>4, <3>5 DEF ShownQueue
        <4> QED
          BY <1>e, <2>0, <3>4, <4>1, PoppedFirst
      <3>8. UNCHANGED <<ShownFree, ShownDone, ShownLost>>
        BY <2>0, <3>1 DEF ShownFree, ShownDone, ShownLost, UsedSeq, Answers
      <3> QED
        BY <2>0, <3>6, <3>7, <3>8, Shown
    <2>2. ASSUME NEW o \in Outcomes, complete(o) PROVE UNCHANGED Service!bsVars
      <3>1. /\ ioPc = "request" /\ ioPc' = "used_elem"
            /\ \E st \in {"ok", "ioerr"} : reqStatus' = [reqStatus EXCEPT ![ioHead] = st]
            /\ UNCHANGED <<availRing, usedRing, availIdx, usedIdx, lastAvail, lastUsed, free, lost,
                           ioHead>>
        BY <2>2, Zenon DEF complete
      <3>2. UNCHANGED <<AvailSeq, UsedSeq, ServiceSeq>>
        BY <3>1 DEF AvailSeq, UsedSeq, ServiceSeq, InService
      <3>3. ioHead \notin UsedHeads /\ UsedHeads \subseteq Heads
        BY <1>b, <2>0, <3>1 DEF Parted, InService
      <3>4. \A g \in Held(UsedSeq) : reqStatus'[g] = reqStatus[g]
        BY <1>a, <3>1, <3>3, Windows
      <3>5. Answers(UsedSeq, reqStatus') = Answers(UsedSeq, reqStatus)
        BY <3>4, AnswersKept
      <3>6. UNCHANGED <<ShownFree, ShownQueue, ShownDone, ShownLost>>
        BY <2>0, <3>1, <3>2, <3>5 DEF ShownFree, ShownQueue, ShownDone, ShownLost
      <3> QED
        BY <2>0, <3>6, Shown
    <2>3. ASSUME NEW o \in Outcomes, drop(o) PROVE Service!Next
      <3>1. /\ ioPc = "request" /\ ioPc' = "avail_event" /\ lost' = lost \cup {ioHead}
            /\ UNCHANGED <<availRing, usedRing, availIdx, usedIdx, lastAvail, lastUsed, free,
                           reqStatus, ioHead>>
        BY <2>3, Zenon DEF drop
      <3>2. UNCHANGED <<AvailSeq, UsedSeq>> /\ ServiceSeq = <<ioHead>> /\ ServiceSeq' = <<>>
        BY <3>1 DEF AvailSeq, UsedSeq, ServiceSeq, InService
      <3>3. /\ ShownQueue # <<>> /\ Head(ShownQueue) = ioHead /\ Tail(ShownQueue) = AvailSeq
        BY <1>a, <1>e, <2>0, <3>2, ServiceFirst DEF ShownQueue
      <3>4. ShownQueue' = AvailSeq
        BY <1>e, <2>0, <3>2, ConcatEmptySeq DEF ShownQueue
      <3>5. /\ ShownLost' = ShownLost \cup {Head(ShownQueue)}
            /\ UNCHANGED <<enabled, ShownFree, ShownDone>>
        BY <2>0, <3>1, <3>2, <3>3 DEF ShownFree, ShownDone, ShownLost
      <3> QED
        BY <3>3, <3>4, <3>5, DropShown
    <2>4. CASE set_used_elem
      <3>1. /\ ioPc = "used_elem" /\ ioPc' = "used_idx"
            /\ usedRing' = [usedRing EXCEPT ![Slot(usedIdx)] = ioHead]
            /\ UNCHANGED <<availRing, availIdx, usedIdx, lastAvail, lastUsed, free, lost, ioHead,
                           reqStatus>>
        BY <2>4, Zenon DEF set_used_elem
      <3>2. IdxSub(usedIdx, lastUsed) < Num
        <4>1. Taken = 1
          BY <3>1 DEF Taken
        <4> QED
          BY <1>c, <1>d, <2>0, <4>1
      <3>3. UsedSeq' = UsedSeq
        <4>1. UsedSeq' = Window(usedRing', lastUsed, usedIdx)
          BY <3>1 DEF UsedSeq, Window
        <4> QED
          BY <1>a, <3>1, <3>2, <4>1, WindowWrite, Windows
      <3>4. UNCHANGED <<AvailSeq, ServiceSeq>>
        BY <3>1 DEF AvailSeq, ServiceSeq, InService
      <3>5. UNCHANGED <<ShownFree, ShownQueue, ShownDone, ShownLost>>
        BY <2>0, <3>1, <3>3, <3>4 DEF ShownFree, ShownQueue, ShownDone, ShownLost
      <3> QED
        BY <2>0, <3>5, Shown
    <2>5. CASE used_idx_advance
      <3>1. /\ ioPc = "used_idx" /\ ioPc' = "should_signal" /\ usedIdx' = IdxInc(usedIdx)
            /\ UNCHANGED <<availRing, usedRing, availIdx, lastAvail, lastUsed, free, lost, ioHead,
                           reqStatus>>
        BY <2>5, Zenon DEF used_idx_advance
      <3>2. IdxSub(usedIdx, lastUsed) < Num
        <4>1. Taken = 1
          BY <3>1 DEF Taken
        <4> QED
          BY <1>c, <1>d, <2>0, <4>1
      <3>3. UsedSeq' = Append(UsedSeq, ioHead)
        <4>1. UsedSeq' = Window(usedRing, lastUsed, IdxInc(usedIdx))
          BY <3>1 DEF UsedSeq, Window
        <4> QED
          BY <1>a, <1>b, <2>0, <3>1, <3>2, <4>1, WindowAppend, Windows
      <3>4. UNCHANGED AvailSeq /\ ServiceSeq = <<ioHead>> /\ ServiceSeq' = <<>>
        BY <3>1 DEF AvailSeq, ServiceSeq, InService
      <3>5. ShownQueue # <<>> /\ Head(ShownQueue) = ioHead /\ Tail(ShownQueue) = AvailSeq
        BY <1>a, <1>e, <2>0, <3>4, ServiceFirst DEF ShownQueue
      <3>6. ShownQueue' = AvailSeq
        BY <1>e, <2>0, <3>4, ConcatEmptySeq DEF ShownQueue
      <3>7. ShownDone' = Append(ShownDone, [head |-> Head(ShownQueue), status |-> reqStatus[ioHead]])
        BY <1>a, <1>e, <2>0, <3>1, <3>3, <3>5, AnswersAppend DEF ShownDone
      <3>8. UNCHANGED <<enabled, ShownFree, ShownLost>> /\ reqStatus[ioHead] \in {"ok", "ioerr"}
        BY <2>0, <3>1 DEF ShownFree, ShownLost, StatusInv
      <3> QED
        BY <3>5, <3>6, <3>7, <3>8, AnswerShown
    <2>6. CASE \/ io_loop \/ io_read \/ avail_event \/ no_more
               \/ should_signal \/ signal_vq \/ irq_trigger
      <3>1. /\ ioPc \notin {"request", "used_elem", "used_idx"}
            /\ ioPc' \notin {"request", "used_elem", "used_idx"}
            /\ UNCHANGED <<availRing, usedRing, availIdx, usedIdx, lastAvail, lastUsed, free, lost,
                           reqStatus>>
        BY <2>6, Zenon DEF io_loop, io_read, avail_event, no_more, should_signal, signal_vq,
              irq_trigger
      <3>2. UNCHANGED <<AvailSeq, UsedSeq, ServiceSeq>>
        BY <3>1 DEF AvailSeq, UsedSeq, ServiceSeq, InService
      <3>3. UNCHANGED <<ShownFree, ShownQueue, ShownDone, ShownLost>>
        BY <2>0, <3>1, <3>2 DEF ShownFree, ShownQueue, ShownDone, ShownLost
      <3> QED
        BY <2>0, <3>3, Shown
    <2> QED
      BY <1>6, <2>1, <2>2, <2>3, <2>4, <2>5, <2>6, Zenon DEF IoThread
  <1> QED
    BY <1>1, <1>2, <1>3, <1>4, <1>5, <1>6, Zenon DEF Next

\* The I/O thread, the driver and the rings take the requests in the order in
\* which they were submitted, answer or drop each once, and return the answers in
\* that order, for every ring size, index width, feature set and interleaving.
THEOREM ServiceImplemented == Safety => Service!Safety
  <1>1. Init => Service!Init
    BY DEF Init, Service!Init
  <1> QED
    BY <1>1, ServiceStep, TypeCorrect, InitLifeInv, NextLifeInv, InitFreshIdxInv, NextFreshIdxInv,
       InitBoundInv, NextBoundInv, InitOwnInv, NextOwnInv, InitStatusInv, NextStatusInv, PTL
       DEF Safety, Service!Safety
=============================================================================
