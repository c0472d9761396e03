------------------------------ MODULE DemuProofs ------------------------------
(***************************************************************************)
(* Theorems about Demu, for any number of vCPUs and of signals, wherever   *)
(* they arrive: type correctness, that seq and the interrupted steps tell  *)
(* exactly which handles are held, and that nothing is released under its  *)
(* user but by a handler that has cut off the join of the I/O thread.      *)
(***************************************************************************)
EXTENDS Demu, TLAPS

(***************************************************************************)
(* The ladder                                                              *)
(***************************************************************************)

\* The rungs above the ninth stand for no handle, for the devices, for nothing new.
LEMMA TopRungs ==
    /\ HeldAt(0) = {"xsdev"}
    /\ HeldAt(10) = HeldAt(9)
    /\ HeldAt(11) = HeldAt(10) \cup DeviceItems
    /\ HeldAt(12) = HeldAt(11)
  <1>1. DOMAIN Ladder = 1 .. 9
    BY DEF Ladder
  <1> QED
    BY <1>1 DEF HeldAt, DEVICE_INITIALIZED, DeviceItems

\* Up to the tenth rung there are no devices.
LEMMA NoDevices == HeldAt(10) \cap DeviceItems = {}
  <1>1. DOMAIN Ladder = 1 .. 9
    BY DEF Ladder
  <1>2. (\A k \in 1 .. 9 : Ladder[k] \notin DeviceItems) /\ "xsdev" \notin DeviceItems
    BY DEF Ladder, DeviceItems
  <1> QED
    BY <1>1, <1>2 DEF HeldAt, DEVICE_INITIALIZED

\* Each of the first nine rungs adds its own handle, which is no device.
LEMMA LadderRungs ==
    \A n \in 1 .. 9 :
        /\ HeldAt(n) = HeldAt(n - 1) \cup {Ladder[n]}
        /\ Ladder[n] \notin HeldAt(n - 1)
        /\ Ladder[n] \in Handles /\ Ladder[n] \notin DeviceItems
        /\ Ladder[n] # "orphans"
  <1> TAKE n \in 1 .. 9
  <1>1. DOMAIN Ladder = 1 .. 9
    BY DEF Ladder
  <1>2. /\ HeldAt(n) = {Ladder[k] : k \in 1 .. n} \cup {"xsdev"}
        /\ HeldAt(n - 1) = {Ladder[k] : k \in 1 .. n - 1} \cup {"xsdev"}
    BY <1>1 DEF HeldAt, DEVICE_INITIALIZED
  <1>3. (\A k \in 1 .. n - 1 : Ladder[k] # Ladder[n]) /\ Ladder[n] \notin {"xsdev", "orphans"}
    BY DEF Ladder
  <1>4. Ladder[n] \notin DeviceItems
    BY DEF Ladder, DeviceItems
  <1>5. Ladder[n] \in Handles
    BY <1>1 DEF Handles
  <1>6. 1 .. n = 1 .. n - 1 \cup {n}
    OBVIOUS
  <1> QED
    BY <1>2, <1>3, <1>4, <1>5, <1>6

\* What the uses of NothingDangles need is on the rungs below.
LEMMA UsedRungs ==
    \A n \in 0 .. 12 :
        /\ "blk" \in HeldAt(n) <=> n >= 11
        /\ "iopage" \in HeldAt(n) <=> n >= 7
        /\ "server" \in HeldAt(n) <=> n >= 6
        /\ "devmodel" \in HeldAt(n) <=> n >= 4
        /\ "gnttab" \in HeldAt(n) <=> n >= 5
        /\ "fmem" \in HeldAt(n) <=> n >= 3
        /\ "evtchn" \in HeldAt(n) <=> n >= 2
        /\ "array" \in HeldAt(n) <=> n >= 9
        /\ "disks" \in HeldAt(n) <=> n >= 11
        /\ "kvm" \in HeldAt(n) <=> n >= 11
        /\ "xsdev" \in HeldAt(n) /\ "orphans" \notin HeldAt(n)
  <1> TAKE n \in 0 .. 12
  <1>1. DOMAIN Ladder = 1 .. 9
    BY DEF Ladder
  <1>2. \A h : h \in HeldAt(n) <=> (\E k \in 1 .. 9 : k <= n /\ h = Ladder[k])
                                        \/ (n >= 11 /\ h \in {"kvm", "disks", "blk"})
                                        \/ h = "xsdev"
    BY <1>1 DEF HeldAt, DEVICE_INITIALIZED, DeviceItems
  <1>3. /\ Ladder[1] = "xenstore" /\ Ladder[2] = "evtchn" /\ Ladder[3] = "fmem"
        /\ Ladder[4] = "devmodel" /\ Ladder[5] = "gnttab" /\ Ladder[6] = "server"
        /\ Ladder[7] = "iopage" /\ Ladder[8] = "enabled" /\ Ladder[9] = "array"
    BY DEF Ladder
  <1>4. \A k \in 1 .. 9 : k = 1 \/ k = 2 \/ k = 3 \/ k = 4 \/ k = 5 \/ k = 6 \/ k = 7 \/ k = 8 \/ k = 9
    OBVIOUS
  <1> QED
    BY <1>2, <1>3, <1>4

\* A higher rung has what the lower ones have.
LEMMA RungsGrow == \A m, n \in 0 .. 12 : m <= n => HeldAt(m) \subseteq HeldAt(n)
  <1>1. DOMAIN Ladder = 1 .. 9
    BY DEF Ladder
  <1> QED
    BY <1>1 DEF HeldAt, DEVICE_INITIALIZED

(***************************************************************************)
(* Type correctness                                                        *)
(***************************************************************************)

\* What the types alone do not say: where seq may be when it is counted up or
\* down, and that a port is only read when one is queued.
StepInv ==
    /\ pc = "next" => seq <= PORTS_BOUND
    /\ pc \in {"images", "devices"} => seq = PORTS_BOUND
    /\ pc \in Undoing => seq = DEVICE_INITIALIZED
    /\ pc = "lower" => seq # UNINITIALIZED
    /\ pc = "pending" => fdq # <<>>
    /\ pc \in {"page", "handle", "reset", "respond", "notify"} => cur \in Vcpus

LEMMA InitTypeOK == Init => TypeOK /\ StepInv
  <1> SUFFICES ASSUME Init PROVE TypeOK /\ StepInv
    OBVIOUS
  <1>1. fdq \in Seq(Vcpus)
    BY DEF Init
  <1>2. seq \in UNINITIALIZED .. INITIALIZED /\ pc \in Pcs
    BY SMT DEF Init, Pcs, Starting, Serving, Undoing, Polling, UNINITIALIZED, INITIALIZED
  <1>3. /\ req \in [Vcpus -> {"none", "ready", "inprocess", "resp"}]
        /\ vpc \in [Vcpus -> {"run", "send", "asleep"}]
    BY DEF Init
  <1>4. held \in SUBSET Handles /\ cut \in SUBSET [pc : Pcs, seq : UNINITIALIZED .. INITIALIZED]
    BY DEF Init, Handles
  <1>5. TypeOK
    BY <1>1, <1>2, <1>3, <1>4, Zenon DEF Init, TypeOK
  <1>6. StepInv
    BY SMT DEF Init, StepInv, Undoing
  <1> QED
    BY <1>5, <1>6

LEMMA RaisedTypeOK ==
    ASSUME TypeOK, NEW v \in Vcpus, Raised(v)
    PROVE  /\ masked' \in SUBSET Vcpus /\ again' \in SUBSET Vcpus /\ fdq' \in Seq(Vcpus)
           /\ fdq # <<>> => fdq' # <<>>
  BY SMT DEF TypeOK, Raised

LEMMA NextTypeOK == TypeOK /\ StepInv /\ [Next]_vars => TypeOK' /\ StepInv'
  <1> SUFFICES ASSUME TypeOK, StepInv, [Next]_vars PROVE TypeOK' /\ StepInv'
    OBVIOUS
  <1> USE DEF mainVars, sigVars, devVars, evtVars, vcpuVars
  <1> USE DEF UNINITIALIZED, SERVER_REGISTERED, PORT_ARRAY_ALLOCATED, PORTS_BOUND,
              DEVICE_INITIALIZED, INITIALIZED
  <1> USE DEF Pcs, Starting, Polling, Serving, Undoing
  <1>d. {"kvm", "disks", "blk", "orphans"} \subseteq Handles
    BY SMT DEF Handles, DeviceItems
  <1>1. CASE guest_found
    BY <1>1, SMT DEF guest_found, TypeOK, StepInv
  <1>2. CASE acquire
    <2>1. seq + 1 \in 1 .. 9
      BY <1>2 DEF acquire, TypeOK
    <2>2. Ladder[seq + 1] \in Handles
      BY <2>1, LadderRungs
    <2> QED
      BY <1>2, <2>2, SMT DEF acquire, TypeOK, StepInv
  <1>3. CASE device_initialize \/ disk_image__init \/ virtio_blk__init
    <2>1. CASE device_initialize
      BY <1>d, <2>1, SMT DEF device_initialize, TypeOK, StepInv
    <2>2. CASE disk_image__init
      BY <1>d, <2>2, SMT DEF disk_image__init, TypeOK, StepInv
    <2>3. CASE virtio_blk__init
      <3>1. kvm' \in BOOLEAN /\ listed' \in BOOLEAN /\ queue' \in BOOLEAN
        BY <2>3, Zenon DEF virtio_blk__init, TypeOK
      <3>2. /\ held' \in SUBSET Handles /\ pc' = "next" /\ seq = PORTS_BOUND
            /\ UNCHANGED <<seq, sigVars, kvm, queue, io, bound, cur, xready, watch, evtVars, vcpuVars>>
        BY <1>d, <2>3, SMT DEF virtio_blk__init, TypeOK, StepInv
      <3> QED
        BY <3>1, <3>2, SMT DEF TypeOK, StepInv
    <2> QED
      BY <1>3, <2>1, <2>2, <2>3
  <1>4. CASE init_fail
    <2>1. held' \in SUBSET Handles
      BY <1>d, <1>4, SMT DEF init_fail, TypeOK
    <2>2. kvm' \in BOOLEAN
      BY <1>4, Zenon DEF init_fail
    <2>3. /\ pc' = "release" /\ UNCHANGED <<seq, sigVars, listed, queue, io, bound, cur, xready>>
          /\ UNCHANGED <<watch, evtVars, vcpuVars>>
      BY <1>4, Zenon DEF init_fail
    <2> QED
      BY <2>1, <2>2, <2>3, SMT DEF TypeOK, StepInv
  <1>5. CASE seq_next
    BY <1>5, SMT DEF seq_next, TypeOK, StepInv
  <1>6. ASSUME NEW v \in Vcpus, bind(v) PROVE TypeOK' /\ StepInv'
    BY <1>6, RaisedTypeOK, SMT DEF bind, TypeOK, StepInv
  <1>7. CASE select
    <2>1. xready' \in BOOLEAN
      BY <1>7, Zenon DEF select
    <2> QED
      BY <1>7, <2>1, SMT DEF select, TypeOK, StepInv
  <1>8. CASE demu_poll_iopages
    <2>1. Head(fdq) \in Vcpus /\ Tail(fdq) \in Seq(Vcpus)
      BY <1>8, SMT DEF demu_poll_iopages, TypeOK, StepInv
    <2>2. Append(Tail(fdq), Head(fdq)) \in Seq(Vcpus)
      BY <2>1
    <2> QED
      BY <1>8, <2>1, <2>2, SMT DEF demu_poll_iopages, TypeOK, StepInv
  <1>9. CASE demu_poll_shared_iopage
    BY <1>9, SMT DEF demu_poll_shared_iopage, AfterPoll, TypeOK, StepInv
  <1>10. CASE demu_handle_ioreq \/ queue_reset
    <2>1. CASE demu_handle_ioreq
      <3>1. kvm' \in BOOLEAN /\ listed' \in BOOLEAN /\ queue' \in BOOLEAN
        BY <2>1, Zenon DEF demu_handle_ioreq, TypeOK
      <3> QED
        BY <3>1, <2>1, SMT DEF demu_handle_ioreq, TypeOK, StepInv
    <2>2. CASE queue_reset
      <3>1. kvm' \in BOOLEAN /\ listed' \in BOOLEAN /\ queue' \in BOOLEAN
        BY <2>2, Zenon DEF queue_reset, TypeOK
      <3> QED
        BY <3>1, <2>2, SMT DEF queue_reset, TypeOK, StepInv
    <2> QED
      BY <1>10, <2>1, <2>2
  <1>11. CASE respond
    BY <1>11, SMT DEF respond, TypeOK, StepInv
  <1>12. CASE notify
    BY <1>12, SMT DEF notify, AfterPoll, TypeOK, StepInv
  <1>13. CASE poll_watches
    <2>1. exiting' \in BOOLEAN /\ xready' \in BOOLEAN
      BY <1>13, Zenon DEF poll_watches, TypeOK
    <2> QED
      BY <1>13, <2>1, SMT DEF poll_watches, TypeOK, StepInv
  <1>14. CASE release
    <2>1. fdq' \in Seq(Vcpus)
      <3>1. fdq' \in {fdq, <<>>}
        BY <1>14, SMT DEF release
      <3>2. fdq \in Seq(Vcpus)
        BY DEF TypeOK
      <3>3. <<>> \in Seq(Vcpus)
        OBVIOUS
      <3> QED
        BY <3>1, <3>2, <3>3
    <2>2. /\ req' \in [Vcpus -> {"none", "ready", "inprocess", "resp"}]
          /\ vpc' \in [Vcpus -> {"run", "send", "asleep"}]
          /\ woken' \in SUBSET Vcpus
      <3>1. Freed \/ UNCHANGED vcpuVars
        BY <1>14, SMT DEF release
      <3> QED
        BY <3>1 DEF Freed, TypeOK
    <2>3. /\ held' \in SUBSET Handles /\ bound' \in SUBSET Vcpus
          /\ masked' \in SUBSET Vcpus /\ again' \in SUBSET Vcpus
      BY <1>14, SMT DEF release, TypeOK
    <2>4. /\ pc = "release" /\ seq # UNINITIALIZED /\ pc' = "lower"
          /\ UNCHANGED <<seq, sigVars, devVars, cur, xready, watch>>
      BY <1>14 DEF release
    <2>5. TypeOK'
      BY <2>1, <2>2, <2>3, <2>4, Zenon DEF TypeOK, Pcs
    <2>6. StepInv'
      BY <2>4, SMT DEF StepInv
    <2> QED
      BY <2>5, <2>6
  <1>15. CASE lower
    BY <1>15, SMT DEF lower, TypeOK, StepInv
  <1>16. CASE torn_down \/ exit
    <2>1. CASE torn_down
      <3>1. exiting' \in BOOLEAN /\ xready' \in BOOLEAN
        BY <2>1, Zenon DEF torn_down, TypeOK
      <3> QED
        BY <2>1, <3>1, SMT DEF torn_down, TypeOK, StepInv
    <2>2. CASE exit
      BY <2>2, SMT DEF exit, TypeOK, StepInv
    <2> QED
      BY <1>16, <2>1, <2>2
  <1>17. CASE device_teardown \/ virtio_blk__exit \/ exit_vq \/ join \/ disk_image__exit \/ free_kvm
    <2>1. CASE device_teardown
      BY <2>1, SMT DEF device_teardown, TypeOK, StepInv
    <2>2. CASE virtio_blk__exit
      <3>1. kvm' \in BOOLEAN /\ listed' \in BOOLEAN /\ queue' \in BOOLEAN
        BY <2>2, Zenon DEF virtio_blk__exit, TypeOK
      <3> QED
        BY <3>1, <2>2, SMT DEF virtio_blk__exit, TypeOK, StepInv
    <2>3. CASE exit_vq
      BY <2>3, SMT DEF exit_vq, TypeOK, StepInv
    <2>4. CASE join
      <3>1. kvm' \in BOOLEAN /\ listed' \in BOOLEAN /\ queue' \in BOOLEAN
        BY <2>4, Zenon DEF join, TypeOK
      <3> QED
        BY <3>1, <2>4, SMT DEF join, TypeOK, StepInv
    <2>5. CASE disk_image__exit
      BY <2>5, SMT DEF disk_image__exit, TypeOK, StepInv
    <2>6. CASE free_kvm
      <3>1. kvm' \in BOOLEAN /\ listed' \in BOOLEAN /\ queue' \in BOOLEAN
        BY <2>6, Zenon DEF free_kvm, TypeOK
      <3>2. /\ held' \in SUBSET Handles /\ pc' \in {"null", "lower"} /\ seq = DEVICE_INITIALIZED
            /\ UNCHANGED <<seq, sigVars, listed, queue, io, bound, cur, xready, watch, evtVars, vcpuVars>>
        BY <2>6, SMT DEF free_kvm, TypeOK, StepInv
      <3> QED
        BY <3>1, <3>2, SMT DEF TypeOK, StepInv
    <2> QED
      BY <1>17, <2>1, <2>2, <2>3, <2>4, <2>5, <2>6
  <1>18. CASE select_error
    BY <1>18, SMT DEF select_error, TypeOK, StepInv
  <1>19. ASSUME NEW s \in Signals, demu_sigterm(s) PROVE TypeOK' /\ StepInv'
    <2>1. cut' \in SUBSET [pc : Pcs, seq : 0 .. 12]
      BY <1>19 DEF demu_sigterm, TypeOK
    <2>2. cut' \in SUBSET [pc : Pcs, seq : UNINITIALIZED .. INITIALIZED]
      BY <2>1
    <2>3. caught' \in SUBSET Signals /\ exiting' \in BOOLEAN /\ xready' \in BOOLEAN
      BY <1>19, Zenon DEF demu_sigterm, TypeOK
    <2>4. /\ pc' = "release" /\ cur' = None
          /\ UNCHANGED <<seq, held, devVars, bound, watch, evtVars, vcpuVars>>
      BY <1>19, Zenon DEF demu_sigterm
    <2>5. TypeOK'
      BY <2>2, <2>3, <2>4, Zenon DEF TypeOK
    <2> QED
      BY <2>4, <2>5, SMT DEF StepInv
  <1>20. CASE io_end \/ crash
    <2>1. CASE io_end
      BY <2>1, SMT DEF io_end, TypeOK, StepInv
    <2>2. CASE crash
      <3>1. /\ pc' = "crashed" /\ io' = "none"
            /\ UNCHANGED <<seq, sigVars, held, kvm, listed, queue, bound, cur, xready>>
            /\ UNCHANGED <<watch, evtVars, vcpuVars>>
        BY <2>2, Zenon DEF crash
      <3> QED
        BY <3>1, SMT DEF TypeOK, StepInv
    <2> QED
      BY <1>20, <2>1, <2>2
  <1>21. CASE xenstore_event
    BY <1>21, SMT DEF xenstore_event, TypeOK, StepInv
  <1>22. ASSUME NEW v \in Vcpus, vcpu_ready(v) \/ Vcpu(v) PROVE TypeOK' /\ StepInv'
    <2>1. CASE vcpu_ready(v)
      BY <2>1, SMT DEF vcpu_ready, TypeOK, StepInv
    <2>2. CASE vcpu_send(v)
      BY <2>2, RaisedTypeOK, SMT DEF vcpu_send, TypeOK, StepInv
    <2>3. CASE vcpu_wake(v)
      BY <2>3, SMT DEF vcpu_wake, TypeOK, StepInv
    <2> QED
      BY <1>22, <2>1, <2>2, <2>3 DEF Vcpu
  <1>23. CASE UNCHANGED vars
    BY <1>23, SMT DEF vars, TypeOK, StepInv
  <1> QED
    BY <1>1, <1>2, <1>3, <1>4, <1>5, <1>6, <1>7, <1>8, <1>9, <1>10, <1>11, <1>12, <1>13, <1>14,
       <1>15, <1>16, <1>17, <1>18, <1>19, <1>20, <1>21, <1>22, <1>23, Zenon DEF Next, Main

\* The variables of the main thread and of Xen keep their types, whatever fails
\* and wherever signals come: the ladder never leaves its rungs.
THEOREM TypeCorrect == Safety => []TypeOK
  <1> QED
    BY InitTypeOK, NextTypeOK, PTL DEF Safety

(***************************************************************************)
(* What seq counts                                                         *)
(***************************************************************************)

\* A main thread at control point p with s in seq has taken the device off the
\* list and not counted that yet.
Taken(p, s) == s = 11 /\ p \in {"stop", "join", "close", "free", "null", "lower"}

\* Which rungs a control point can be on.
OnRung(p, s) ==
    /\ p = "next" => s <= 10
    /\ p \in {"images", "devices"} => s = 10
    /\ p \in Undoing => s = 11
    /\ p = "lower" => s >= 1
    /\ p \in {"destroy", "exit", "exited"} => s = 0
    /\ p \in Serving => s = 12
    /\ p = "wait" => s = 0
    /\ p \in Starting => s <= 10

\* Only releases happen above an interrupted step, further and further down.
PlaceInv ==
    /\ OnRung(pc, seq)
    /\ pc \in {"wait"} \cup Starting \cup Serving \/ ~exiting => cut = {}
    /\ \A c \in cut : OnRung(c.pc, c.seq) /\ seq <= c.seq

\* At the devices' rung: struct kvm is there until it has been forgotten, the
\* device is on the list until it has been taken off.
DevInv ==
    /\ pc \in {"images", "devices"} \/ (pc = "next" /\ seq = 10) => kvm
    /\ pc = "next" /\ seq = 10 => listed
    /\ seq >= 11 /\ ~kvm => (pc = "lower" /\ seq = 11) \/ \E c \in cut : c.pc = "lower" /\ c.seq = 11
    /\ seq >= 11 /\ ~listed => Taken(pc, seq) \/ \E c \in cut : Taken(c.pc, c.seq)
    /\ Taken(pc, seq) => ~listed
    /\ \A c \in cut : Taken(c.pc, c.seq) => ~listed /\ pc \notin {"stop", "join"}

\* The I/O thread runs for an enabled queue of a device that is on the list or
\* being stopped; ports are bound above the rung that unbinds them.
UseInv ==
    /\ io # "none" /\ ~JoinCut => queue /\ seq >= 11 /\ (listed \/ pc \in {"stop", "join"})
    /\ bound # {} =>
            /\ seq >= 9 /\ ~(pc = "lower" /\ seq = 9)
            /\ \A c \in cut : ~(c.pc = "lower" /\ c.seq = 9)

HandleInv == pc # "crashed" => PlaceInv /\ DevInv /\ UseInv /\ HandlesMatchSeq

\* What is on a rung under the interrupted steps was not forgotten by them, the
\* device aside.
LEMMA NotForgotten ==
    ASSUME TypeOK, PlaceInv, NEW h, h \in HeldAt(seq),
           h = "blk" => \A c \in cut : c.pc \notin {"stop", "join"}
    PROVE  h \notin Forgotten
  <1>1. ASSUME NEW c \in cut PROVE h \in HeldAt(c.seq)
    <2>1. seq \in 0 .. 12 /\ c.seq \in 0 .. 12 /\ seq <= c.seq
      BY DEF TypeOK, PlaceInv, UNINITIALIZED, INITIALIZED
    <2> QED
      BY <2>1, RungsGrow
  <1>2. \A c \in cut : h \notin At(c.pc, c.seq) \ HeldAt(c.seq)
    BY <1>1
  <1>3. h \notin (IF \E c \in cut : c.pc \in {"stop", "join"} THEN {"blk"} ELSE {})
    OBVIOUS
  <1> QED
    BY <1>2, <1>3 DEF Forgotten

\* A handle given back: the place of the main thread says so, and no interrupted
\* step had forgotten it.
LEMMA GivenBack ==
    ASSUME TypeOK, PlaceInv, HandlesMatchSeq, pc # "crashed", NEW h, h \in HeldAt(seq),
           h = "blk" => \A c \in cut : c.pc \notin {"stop", "join"},
           held' = held \ {h}, cut' = cut,
           At(pc', seq') = At(pc, seq) \ {h}
    PROVE  HandlesMatchSeq'
  <1>1. h \notin Forgotten
    BY NotForgotten
  <1>2. Forgotten' = Forgotten /\ Released' = Released
    BY Zenon DEF Forgotten, Released, At, HeldAt
  <1>3. held \ {"orphans"} = (At(pc, seq) \ Released) \cup Forgotten
    BY DEF HandlesMatchSeq
  <1>4. held' \ {"orphans"} = (At(pc', seq') \ Released') \cup Forgotten'
    BY <1>1, <1>2, <1>3
  <1>5. At(pc, seq)' = At(pc', seq')
    BY DEF At, HeldAt
  <1> QED
    BY <1>4, <1>5 DEF HandlesMatchSeq

\* A handle taken: only before any signal.
LEMMA TakenNow ==
    ASSUME HandlesMatchSeq, pc # "crashed", cut = {}, cut' = {}, NEW h, h # "orphans",
           held' = held \cup {h}, At(pc', seq') = At(pc, seq) \cup {h}
    PROVE  HandlesMatchSeq'
  <1>1. Forgotten = {} /\ Released = {} /\ Forgotten' = {} /\ Released' = {}
    BY DEF Forgotten, Released
  <1>2. At(pc, seq)' = At(pc', seq')
    BY DEF At, HeldAt
  <1> QED
    BY <1>1, <1>2 DEF HandlesMatchSeq

\* A step that moves no handle, between places that stand for the same.
LEMMA SameHandles ==
    ASSUME HandlesMatchSeq, pc # "crashed", held' = held, cut' = cut,
           (At(pc', seq') \ Released) \cup Forgotten = (At(pc, seq) \ Released) \cup Forgotten
    PROVE  HandlesMatchSeq'
  <1>1. Forgotten' = Forgotten /\ Released' = Released
    BY Zenon DEF Forgotten, Released, At, HeldAt
  <1>2. At(pc, seq)' = At(pc', seq')
    BY DEF At, HeldAt
  <1> QED
    BY <1>1, <1>2 DEF HandlesMatchSeq

\* What the next signal adds to what has been forgotten and given back.
LEMMA CutMore ==
    ASSUME cut' = cut \cup {[pc |-> pc, seq |-> seq]}
    PROVE  /\ Released' = Released \cup (HeldAt(seq) \ At(pc, seq))
           /\ Forgotten' = Forgotten \cup (At(pc, seq) \ HeldAt(seq))
                                \cup (IF pc \in {"stop", "join"} THEN {"blk"} ELSE {})
  <1> DEFINE c0 == [pc |-> pc, seq |-> seq]
             R(c) == HeldAt(c.seq) \ At(c.pc, c.seq)
             F(c) == At(c.pc, c.seq) \ HeldAt(c.seq)
  <1>1. Released = UNION {R(c) : c \in cut} /\ Released' = UNION {R(c) : c \in cut'}
    BY DEF Released, At, HeldAt
  <1>2. R(c0) = HeldAt(seq) \ At(pc, seq) /\ F(c0) = At(pc, seq) \ HeldAt(seq)
    OBVIOUS
  <1> HIDE DEF R
  <1>3. Released' = Released \cup (HeldAt(seq) \ At(pc, seq))
    <2>1. \A x : x \in UNION {R(c) : c \in cut'} <=> x \in UNION {R(c) : c \in cut} \/ x \in R(c0)
      <3>1. cut' = cut \cup {c0}
        OBVIOUS
      <3> HIDE DEF c0
      <3> QED
        BY <3>1
    <2> QED
      BY <1>1, <1>2, <2>1
  <1>4. /\ Forgotten = (UNION {F(c) : c \in cut})
                            \cup (IF \E c \in cut : c.pc \in {"stop", "join"} THEN {"blk"} ELSE {})
        /\ Forgotten' = (UNION {F(c) : c \in cut'})
                            \cup (IF \E c \in cut' : c.pc \in {"stop", "join"} THEN {"blk"} ELSE {})
    BY DEF Forgotten, At, HeldAt
  <1>5. (\E c \in cut' : c.pc \in {"stop", "join"})
            <=> (\E c \in cut : c.pc \in {"stop", "join"}) \/ pc \in {"stop", "join"}
    <2>1. cut' = cut \cup {c0} /\ c0.pc = pc
      OBVIOUS
    <2> HIDE DEF c0
    <2> QED
      BY <2>1, Zenon
  <1> HIDE DEF F
  <1>6. \A x : x \in UNION {F(c) : c \in cut'} <=> x \in UNION {F(c) : c \in cut} \/ x \in F(c0)
    <2>1. cut' = cut \cup {c0}
      OBVIOUS
    <2> HIDE DEF c0
    <2> QED
      BY <2>1
  <1>7. \A x : x \in Forgotten' <=> x \in Forgotten \/ x \in F(c0) \/ (x = "blk" /\ pc \in {"stop", "join"})
    BY <1>4, <1>5, <1>6
  <1> QED
    BY <1>2, <1>3, <1>7

(***************************************************************************)
(* Every step keeps it                                                     *)
(***************************************************************************)

LEMMA InitHandleInv == Init => HandleInv
  <1> SUFFICES ASSUME Init PROVE HandleInv
    OBVIOUS
  <1>1. /\ pc = "wait" /\ seq = 0 /\ held = {"xsdev"} /\ cut = {} /\ bound = {} /\ io = "none"
        /\ exiting = FALSE
    BY DEF Init, UNINITIALIZED
  <1>2. HandlesMatchSeq
    BY <1>1, TopRungs DEF HandlesMatchSeq, At, Released, Forgotten
  <1>3. PlaceInv
    BY <1>1 DEF PlaceInv, OnRung, Undoing, Serving, Polling, Starting
  <1> QED
    BY <1>1, <1>2, <1>3 DEF HandleInv, DevInv, UseInv, Taken

\* A process that has died stays dead.
LEMMA DeadStays == [Next]_vars /\ pc = "crashed" => pc' = "crashed"
  <1> SUFFICES ASSUME [Next]_vars, pc = "crashed" PROVE pc' = "crashed"
    OBVIOUS
  <1>1. CASE Main
    BY <1>1, Zenon DEF Main, acquire, device_initialize, disk_image__init, virtio_blk__init,
       init_fail, seq_next, bind, select, demu_poll_iopages, demu_poll_shared_iopage,
       demu_handle_ioreq, queue_reset, respond, notify, poll_watches, release, lower, torn_down,
       exit, device_teardown, virtio_blk__exit, exit_vq, join, disk_image__exit, free_kvm
  <1>2. ASSUME NEW s \in Signals, demu_sigterm(s) PROVE pc' = "crashed"
    BY <1>2 DEF demu_sigterm
  <1>3. ASSUME NEW v \in Vcpus, vcpu_ready(v) \/ Vcpu(v) PROVE pc' = "crashed"
    BY <1>3, Zenon DEF vcpu_ready, Vcpu, vcpu_send, vcpu_wake, mainVars
  <1>4. CASE guest_found \/ select_error \/ xenstore_event \/ io_end \/ crash
    BY <1>4, Zenon DEF guest_found, select_error, xenstore_event, io_end, crash, mainVars
  <1>5. CASE UNCHANGED vars
    BY <1>5, Zenon DEF vars, mainVars
  <1> QED
    BY <1>1, <1>2, <1>3, <1>4, <1>5, Zenon DEF Next

\* The steps that lead from one place of the main thread to another without
\* moving seq up or touching the interrupted steps.
LEMMA PlaceKept ==
    ASSUME TypeOK, TypeOK', PlaceInv, cut' = cut, seq' <= seq, OnRung(pc', seq'),
           pc' \in {"wait"} \cup Starting \cup Serving \/ ~exiting' => cut = {}
    PROVE  PlaceInv'
  <1>1. \A c \in cut : c.seq \in 0 .. 12
    BY DEF TypeOK, UNINITIALIZED, INITIALIZED
  <1>2. seq \in 0 .. 12 /\ seq' \in 0 .. 12
    BY DEF TypeOK, UNINITIALIZED, INITIALIZED
  <1>3. \A c \in cut : OnRung(c.pc, c.seq) /\ seq' <= c.seq
    BY <1>1, <1>2 DEF PlaceInv
  <1> QED
    BY <1>3, Zenon DEF PlaceInv, OnRung

LEMMA NextPlaceInv ==
    TypeOK /\ TypeOK' /\ StepInv /\ PlaceInv /\ [Next]_vars /\ pc' # "crashed" => PlaceInv'
  <1> SUFFICES ASSUME TypeOK, TypeOK', StepInv, PlaceInv, [Next]_vars, pc' # "crashed"
               PROVE  PlaceInv'
    OBVIOUS
  <1> USE DEF UNINITIALIZED, SERVER_REGISTERED, PORT_ARRAY_ALLOCATED, PORTS_BOUND,
              DEVICE_INITIALIZED, INITIALIZED
  <1> USE DEF Starting, Serving, Polling, Undoing
  <1>a. seq \in 0 .. 12 /\ seq' \in 0 .. 12
    BY DEF TypeOK
  <1>b. OnRung(pc, seq) /\ (pc \in {"wait"} \cup Starting \cup Serving \/ ~exiting => cut = {})
    BY DEF PlaceInv
  <1>1. CASE guest_found \/ acquire \/ device_initialize \/ disk_image__init
    <2>1. OnRung(pc', seq') /\ cut' = cut /\ cut = {} /\ seq' = seq
      BY <1>1, <1>a, <1>b, SMT DEF guest_found, acquire, device_initialize, disk_image__init,
         OnRung, sigVars
    <2> QED
      BY <1>a, <2>1, PlaceKept
  <1>2. CASE virtio_blk__init \/ init_fail
    <2>1. OnRung(pc', seq') /\ cut' = cut /\ cut = {} /\ seq' = seq
      BY <1>2, <1>a, <1>b, SMT DEF virtio_blk__init, init_fail, OnRung, sigVars
    <2> QED
      BY <1>a, <2>1, PlaceKept
  <1>3. CASE seq_next
    <2>1. OnRung(pc', seq') /\ cut' = {}
      BY <1>3, <1>a, <1>b, SMT DEF seq_next, OnRung, sigVars, StepInv
    <2> QED
      BY <2>1 DEF PlaceInv, OnRung
  <1>4. ASSUME NEW v \in Vcpus, bind(v) PROVE PlaceInv'
    <2>1. OnRung(pc', seq') /\ cut' = cut /\ cut = {} /\ seq' = seq
      BY <1>4, <1>a, <1>b, SMT DEF bind, OnRung, sigVars
    <2> QED
      BY <1>a, <2>1, PlaceKept
  <1>5. ASSUME \/ select \/ demu_poll_iopages \/ demu_poll_shared_iopage \/ demu_handle_ioreq
               \/ queue_reset \/ respond \/ notify \/ poll_watches \/ select_error
        PROVE  PlaceInv'
    <2>1. pc \in Serving /\ pc' \in Serving \cup {"release"} /\ UNCHANGED <<seq, cut>>
      BY <1>5, Zenon DEF select, demu_poll_iopages, demu_poll_shared_iopage, demu_handle_ioreq,
         queue_reset, respond, notify, poll_watches, select_error, AfterPoll, sigVars
    <2>2. OnRung(pc', seq') /\ cut = {}
      BY <1>a, <1>b, <2>1, SMT DEF OnRung
    <2> QED
      BY <1>a, <2>1, <2>2, PlaceKept
  <1>6. CASE release \/ lower
    <2>1. pc' \in {"lower", "release"} /\ UNCHANGED <<exiting, cut>> /\ seq' <= seq
      BY <1>6, <1>a, SMT DEF release, lower, sigVars
    <2>2. OnRung(pc', seq')
      BY <1>6, <1>a, SMT DEF release, lower, sigVars, OnRung, StepInv
    <2> QED
      BY <1>b, <2>1, <2>2, PlaceKept, Zenon
  <1>7. CASE torn_down \/ exit
    <2>1. pc' \in {"wait", "destroy", "exit", "exited"} /\ UNCHANGED <<seq, exiting, cut>>
      BY <1>7, Zenon DEF torn_down, exit, sigVars
    <2>2. seq = 0 /\ (pc' = "wait" => ~exiting)
      BY <1>7, <1>a, <1>b, SMT DEF torn_down, exit, sigVars, OnRung
    <2>3. OnRung(pc', seq')
      BY <2>1, <2>2, SMT DEF OnRung
    <2>4. pc' \in {"wait"} \cup Starting \cup Serving => cut = {}
      BY <1>b, <2>1, <2>2, Zenon
    <2> QED
      BY <1>a, <1>b, <2>1, <2>3, <2>4, PlaceKept
  <1>8. CASE device_teardown \/ virtio_blk__exit \/ exit_vq \/ join \/ disk_image__exit \/ free_kvm
    <2>1. /\ pc' \in {"unlist", "lower", "stop", "close", "join", "free", "null"}
          /\ UNCHANGED <<seq, exiting, cut>>
      BY <1>8, Zenon DEF device_teardown, virtio_blk__exit, exit_vq, join, disk_image__exit,
         free_kvm, sigVars
    <2>2. seq = 11
      BY <1>8, SMT DEF device_teardown, virtio_blk__exit, exit_vq, join, disk_image__exit,
         free_kvm, StepInv
    <2>3. OnRung(pc', seq')
      BY <2>1, <2>2, SMT DEF OnRung
    <2>4. pc' \notin {"wait"} \cup Starting \cup Serving
      BY <2>1, SMT
    <2> QED
      BY <1>a, <1>b, <2>1, <2>3, <2>4, PlaceKept
  <1>9. ASSUME NEW s \in Signals, demu_sigterm(s) PROVE PlaceInv'
    <2> DEFINE c0 == [pc |-> pc, seq |-> seq]
    <2>1. pc' = "release" /\ seq' = seq /\ cut' = cut \cup {c0} /\ exiting' = TRUE
      BY <1>9, Zenon DEF demu_sigterm
    <2>2. c0.pc = pc /\ c0.seq = seq
      OBVIOUS
    <2> HIDE DEF c0
    <2>3. ASSUME NEW c \in cut' PROVE OnRung(c.pc, c.seq) /\ seq' <= c.seq
      <3>1. CASE c \in cut
        BY <2>1, <3>1, Zenon DEF PlaceInv
      <3>2. CASE c = c0
        <4>1. seq <= seq
          BY <1>a
        <4> QED
          BY <1>b, <2>1, <2>2, <3>2, <4>1, Zenon
      <3> QED
        BY <2>1, <3>1, <3>2
    <2>4. OnRung(pc', seq') /\ pc' \notin {"wait"} \cup Starting \cup Serving
      BY <2>1, SMT DEF OnRung
    <2> QED
      BY <2>1, <2>3, <2>4, Zenon DEF PlaceInv, OnRung
  <1>10. ASSUME NEW v \in Vcpus,
                xenstore_event \/ io_end \/ vcpu_ready(v) \/ Vcpu(v) \/ UNCHANGED vars
         PROVE  PlaceInv'
    <2>1. UNCHANGED <<pc, seq, exiting, cut>>
      BY <1>10, Zenon DEF xenstore_event, io_end, vcpu_ready, Vcpu, vcpu_send, vcpu_wake, vars,
         mainVars, sigVars
    <2> QED
      BY <1>a, <1>b, <2>1, PlaceKept
  <1>11. crash => pc' = "crashed"
    BY DEF crash
  <1>12. \E v \in Vcpus : TRUE
    BY DemuAssumption
  <1> QED
    BY <1>1, <1>2, <1>3, <1>4, <1>5, <1>6, <1>7, <1>8, <1>9, <1>10, <1>11, <1>12,
       Zenon DEF Next, Main

LEMMA NextDevInv ==
    ASSUME TypeOK, TypeOK', StepInv, PlaceInv, DevInv, [Next]_vars, pc' # "crashed"
    PROVE  DevInv'
  <1> USE DEF UNINITIALIZED, SERVER_REGISTERED, PORT_ARRAY_ALLOCATED, PORTS_BOUND,
              DEVICE_INITIALIZED, INITIALIZED
  <1> USE DEF Starting, Serving, Polling, Undoing
  <1>a. seq \in 0 .. 12 /\ seq' \in 0 .. 12
    BY DEF TypeOK
  <1>b. OnRung(pc, seq) /\ (pc \in {"wait"} \cup Starting \cup Serving \/ ~exiting => cut = {})
    BY DEF PlaceInv
  <1>c. kvm \in BOOLEAN /\ listed \in BOOLEAN /\ kvm' \in BOOLEAN /\ listed' \in BOOLEAN
    BY Zenon DEF TypeOK
  \* Below the devices' rung, before any signal, only what an acquisition did counts.
  <1>d. ASSUME cut' = {}, seq' <= 10, pc' \notin Undoing \cup {"lower"},
               pc' \in {"images", "devices"} \/ (pc' = "next" /\ seq' = 10) => kvm',
               pc' = "next" /\ seq' = 10 => listed'
        PROVE  DevInv'
    <2>1. ~(seq' >= 11) /\ ~Taken(pc', seq')
      BY <1>a, <1>d, SMT DEF Taken
    <2> QED
      BY <1>d, <2>1, Zenon DEF DevInv, Taken
  <1>1. CASE guest_found \/ acquire \/ device_initialize
    <2>1. /\ cut' = {} /\ seq' <= 10 /\ pc' \in {"acquire", "images", "next"}
          /\ ~(pc' = "next" /\ seq' = 10)
      BY <1>1, <1>a, <1>b, SMT DEF guest_found, acquire, device_initialize, OnRung, sigVars
    <2>2. pc' = "images" => kvm'
      BY <1>1, Zenon DEF guest_found, acquire, device_initialize
    <2> QED
      BY <1>d, <2>1, <2>2
  <1>2. CASE disk_image__init \/ virtio_blk__init
    <2>1. /\ cut' = {} /\ seq' <= 10 /\ pc' \in {"devices", "next"}
      BY <1>2, <1>a, <1>b, SMT DEF disk_image__init, virtio_blk__init, OnRung, sigVars
    <2>2. kvm' /\ (pc' = "next" => listed')
      BY <1>2, Zenon DEF disk_image__init, virtio_blk__init, DevInv, devVars
    <2> QED
      BY <1>d, <2>1, <2>2
  <1>3. CASE init_fail
    <2>1. cut' = {} /\ seq' <= 10 /\ pc' = "release"
      BY <1>3, <1>a, <1>b, SMT DEF init_fail, OnRung, sigVars
    <2> QED
      BY <1>d, <2>1
  <1>4. ASSUME NEW v \in Vcpus, bind(v) PROVE DevInv'
    <2>1. cut' = {} /\ seq' = 9 /\ pc' \in {"acquire", "next"}
      BY <1>4, <1>a, <1>b, SMT DEF bind, OnRung, sigVars
    <2> QED
      BY <1>d, <2>1
  <1>5. CASE seq_next
    <2>1. /\ pc = "next" /\ pc' \in {"select", "acquire"} /\ (seq = 10 \/ ~(seq' >= 11))
          /\ cut' = {}
      BY <1>5, <1>a, <1>b, SMT DEF seq_next, OnRung, StepInv, sigVars
    <2>2. kvm' = kvm /\ listed' = listed
      BY <1>5, Zenon DEF seq_next, devVars
    <2> QED
      BY <2>1, <2>2, Zenon DEF DevInv, Taken
  \* The device is as it was, and nothing takes it off the list.
  <1>e. ASSUME UNCHANGED <<seq, cut, kvm, listed>>,
               pc' \notin {"images", "devices", "next"} \cup Undoing,
               pc \notin {"lower"} \cup Undoing,
               pc' = "lower" => seq # 11
        PROVE  DevInv'
    <2>1. ~Taken(pc, seq) /\ ~Taken(pc', seq')
      BY <1>e, SMT DEF Taken
    <2>2. \A c : Taken(c.pc, c.seq) => Taken(c.pc, c.seq)'
      BY DEF Taken
    <2>3. pc' \notin {"stop", "join", "images", "devices", "next"}
      BY <1>e, SMT
    <2>4. ~(pc = "lower" /\ seq = 11) /\ ~(pc' = "lower" /\ seq' = 11)
      BY <1>e, SMT
    <2> QED
      BY <1>e, <2>1, <2>3, <2>4, Zenon DEF DevInv, Taken
  <1>6. ASSUME \/ select \/ demu_poll_iopages \/ demu_poll_shared_iopage \/ demu_handle_ioreq
               \/ queue_reset \/ respond \/ notify \/ poll_watches \/ select_error
        PROVE  DevInv'
    <2>1. /\ pc \in Serving /\ pc' \in Serving \cup {"release"}
          /\ UNCHANGED <<seq, cut, kvm, listed>>
      BY <1>6, Zenon DEF select, demu_poll_iopages, demu_poll_shared_iopage, demu_handle_ioreq,
         queue_reset, respond, notify, poll_watches, select_error, AfterPoll, sigVars, devVars
    <2> QED
      BY <1>e, <2>1, SMT
  <1>7. CASE release
    <2>1. pc = "release" /\ pc' = "lower" /\ seq # 11 /\ UNCHANGED <<seq, cut, kvm, listed>>
      BY <1>7, Zenon DEF release, sigVars, devVars
    <2> QED
      BY <1>e, <2>1, SMT
  <1>8. CASE lower
    <2>1. pc = "lower" /\ pc' = "release" /\ UNCHANGED <<cut, kvm, listed>>
      BY <1>8, Zenon DEF lower, sigVars, devVars
    <2>2. (seq' >= 11 => seq >= 11 /\ seq # 11) /\ ~Taken(pc', seq')
      BY <1>8, <1>a, <2>1, SMT DEF lower, Taken
    <2>3. Taken(pc, seq) => seq = 11
      BY DEF Taken
    <2> QED
      BY <2>1, <2>2, <2>3, Zenon DEF DevInv, Taken
  <1>9. CASE torn_down \/ exit
    <2>1. pc' \in {"wait", "destroy", "exit", "exited"} /\ UNCHANGED <<seq, cut, kvm, listed>>
      BY <1>9, Zenon DEF torn_down, exit, sigVars, devVars
    <2>2. pc \in {"release", "destroy", "exit"}
      BY <1>9, Zenon DEF torn_down, exit
    <2> QED
      BY <1>e, <2>1, <2>2, SMT
  <1>10. CASE device_teardown
    <2>1. /\ pc = "release" /\ seq = 11 /\ UNCHANGED <<seq, cut, kvm, listed>>
          /\ pc' = IF kvm THEN "unlist" ELSE "lower"
      BY <1>10, Zenon DEF device_teardown, sigVars, devVars
    <2>2. seq' >= 11 /\ ~Taken(pc, seq)
      BY <2>1, SMT DEF Taken
    <2>3. CASE kvm
      <3>1. ~Taken(pc', seq')
        BY <2>1, <2>3, SMT DEF Taken
      <3> QED
        BY <2>1, <2>2, <2>3, <3>1, Zenon DEF DevInv, Taken
    <2>4. CASE ~kvm
      <3>1. pc' = "lower" /\ seq' = 11 /\ Taken(pc', seq')
        BY <2>1, <2>4, SMT DEF Taken
      <3>2. PICK c \in cut : c.pc = "lower" /\ c.seq = 11
        BY <2>1, <2>2, <2>4, Zenon DEF DevInv
      <3>3. ~listed
        BY <3>2, Zenon DEF DevInv, Taken
      <3> QED
        BY <2>1, <2>2, <3>1, <3>3, Zenon DEF DevInv, Taken
    <2> QED
      BY <2>3, <2>4
  <1>11. CASE virtio_blk__exit
    <2>1. /\ pc = "unlist" /\ seq = 11 /\ UNCHANGED <<seq, cut, kvm>> /\ listed' = FALSE
          /\ pc' = IF listed THEN "stop" ELSE "close"
      BY <1>11, SMT DEF virtio_blk__exit, sigVars, StepInv
    <2>2. seq >= 11 /\ ~Taken(pc, seq) /\ Taken(pc', seq')
      BY <1>c, <2>1, SMT DEF Taken
    <2>3. kvm \/ \E c \in cut : c.pc = "lower" /\ c.seq = 11
      BY <2>1, <2>2, Zenon DEF DevInv
    <2>4. listed => \A c \in cut : ~Taken(c.pc, c.seq)
      BY Zenon DEF DevInv
    <2> QED
      BY <2>1, <2>2, <2>3, <2>4, Zenon DEF DevInv, Taken
  <1>12. CASE exit_vq \/ join \/ disk_image__exit \/ free_kvm
    <2>1. /\ pc \in {"stop", "join", "close", "free", "null"} /\ seq = 11
          /\ pc' \in {"join", "close", "free", "null", "lower"} /\ UNCHANGED <<seq, cut, listed>>
          /\ pc' = "join" => pc = "stop"
      BY <1>12, SMT DEF exit_vq, join, disk_image__exit, free_kvm, sigVars, devVars, StepInv
    <2>2. kvm' = kvm \/ pc' = "lower"
      BY <1>12, Zenon DEF exit_vq, join, disk_image__exit, free_kvm, devVars
    <2>3. Taken(pc, seq) /\ Taken(pc', seq') /\ seq >= 11
      BY <2>1, SMT DEF Taken
    <2>4. /\ pc' \notin {"images", "devices", "next", "stop"}
          /\ ~(pc = "lower" /\ seq = 11)
      BY <2>1, SMT
    <2> QED
      BY <2>1, <2>2, <2>3, <2>4, Zenon DEF DevInv, Taken
  <1>13. ASSUME NEW s \in Signals, demu_sigterm(s) PROVE DevInv'
    <2> DEFINE c0 == [pc |-> pc, seq |-> seq]
    <2>1. /\ pc' = "release" /\ cut' = cut \cup {c0} /\ UNCHANGED <<seq, kvm, listed>>
      BY <1>13, Zenon DEF demu_sigterm, devVars
    <2>2. c0.pc = pc /\ c0.seq = seq
      OBVIOUS
    <2> HIDE DEF c0
    <2>3. c0 \in cut' /\ cut \subseteq cut' /\ (\A c \in cut' : c \in cut \/ c = c0)
      BY <2>1
    <2>4. ~Taken(pc', seq')
      BY <2>1, SMT DEF Taken
    <2>5. ASSUME seq' >= 11, ~kvm' PROVE \E c \in cut' : c.pc = "lower" /\ c.seq = 11
      BY <2>1, <2>2, <2>3, <2>5, Zenon DEF DevInv
    <2>6. ASSUME seq' >= 11, ~listed' PROVE \E c \in cut' : Taken(c.pc, c.seq)
      BY <2>1, <2>2, <2>3, <2>6, Zenon DEF DevInv
    <2>7. ASSUME NEW c \in cut', Taken(c.pc, c.seq) PROVE ~listed'
      BY <2>1, <2>2, <2>3, <2>7, Zenon DEF DevInv
    <2>8. pc' \notin {"images", "devices", "next", "stop", "join"}
      BY <2>1
    <2> QED
      BY <2>4, <2>5, <2>6, <2>7, <2>8, Zenon DEF DevInv, Taken
  <1>14. ASSUME NEW v \in Vcpus,
                xenstore_event \/ io_end \/ vcpu_ready(v) \/ Vcpu(v) \/ UNCHANGED vars
         PROVE  DevInv'
    <2>1. UNCHANGED <<pc, seq, cut, kvm, listed>>
      BY <1>14, Zenon DEF xenstore_event, io_end, vcpu_ready, Vcpu, vcpu_send, vcpu_wake, vars,
         mainVars, sigVars, devVars
    <2> QED
      BY <2>1, Zenon DEF DevInv, Taken
  <1>15. crash => pc' = "crashed"
    BY DEF crash
  <1>16. \E v \in Vcpus : TRUE
    BY DemuAssumption
  <1> QED
    BY <1>1, <1>2, <1>3, <1>4, <1>5, <1>6, <1>7, <1>8, <1>9, <1>10, <1>11, <1>12, <1>13, <1>14,
       <1>15, <1>16, Zenon DEF Next, Main

LEMMA NextUseInv ==
    ASSUME TypeOK, TypeOK', StepInv, PlaceInv, DevInv, UseInv, [Next]_vars, pc' # "crashed"
    PROVE  UseInv'
  <1> USE DEF UNINITIALIZED, SERVER_REGISTERED, PORT_ARRAY_ALLOCATED, PORTS_BOUND,
              DEVICE_INITIALIZED, INITIALIZED
  <1> USE DEF Starting, Serving, Polling, Undoing
  <1>a. seq \in 0 .. 12 /\ seq' \in 0 .. 12
    BY DEF TypeOK
  <1>b. OnRung(pc, seq) /\ (pc \in {"wait"} \cup Starting \cup Serving \/ ~exiting => cut = {})
    BY DEF PlaceInv
  <1>c. cut' = cut => (JoinCut' <=> JoinCut)
    BY DEF JoinCut
  <1>d. seq >= 11 /\ cut = {} /\ pc \in Serving => listed
    BY SMT, <1>a DEF DevInv, Taken
  \* The thread as it was, for a device as it was.
  <1>e. ASSUME UNCHANGED <<seq, cut, queue, listed>>,
               io' = io \/ io' = "none", bound' = bound \/ bound' = {},
               pc \in {"stop", "join"} /\ queue => pc' \in {"stop", "join"} \/ io' = "none" \/ JoinCut,
               pc' = "lower" /\ seq' = 9 => bound' = {}
        PROVE  UseInv'
    BY <1>c, <1>e, Zenon DEF UseInv
  <1>1. CASE guest_found \/ acquire \/ device_initialize \/ disk_image__init \/ init_fail
    <2>1. /\ pc \in {"wait"} \cup Starting /\ pc' # "lower" /\ cut = {} /\ seq' = seq
          /\ UNCHANGED <<cut, queue, io, bound, listed>>
      BY <1>1, <1>b, SMT DEF guest_found, acquire, device_initialize, disk_image__init, init_fail,
         sigVars, devVars
    <2>2. ~(seq >= 11)
      BY <1>a, <1>b, <2>1, SMT DEF OnRung
    <2>3. io = "none" \/ JoinCut
      BY <2>2, Zenon DEF UseInv
    <2>4. ~JoinCut
      BY <2>1 DEF JoinCut
    <2> QED
      BY <1>c, <2>1, <2>3, <2>4, Zenon DEF UseInv
  <1>2. CASE virtio_blk__init \/ seq_next
    <2>1. /\ pc \in Starting /\ pc' # "lower" /\ cut = {} /\ seq' >= seq
          /\ UNCHANGED <<cut, queue, io, bound>>
      BY <1>2, <1>a, <1>b, SMT DEF virtio_blk__init, seq_next, sigVars, devVars, StepInv
    <2>2. ~(seq >= 11) /\ (seq >= 9 => seq' >= 9)
      BY <1>a, <1>b, <2>1, SMT DEF OnRung
    <2>3. io = "none" \/ JoinCut
      BY <2>2, Zenon DEF UseInv
    <2>4. ~JoinCut
      BY <2>1 DEF JoinCut
    <2> QED
      BY <1>c, <2>1, <2>2, <2>3, <2>4, Zenon DEF UseInv
  <1>3. ASSUME NEW v \in Vcpus, bind(v) PROVE UseInv'
    <2>1. /\ seq = 9 /\ pc' # "lower" /\ cut = {} /\ seq' = 9
          /\ UNCHANGED <<cut, io>>
      BY <1>3, <1>a, <1>b, SMT DEF bind, sigVars, devVars
    <2>2. ~(seq >= 11) /\ seq' >= 9
      BY <2>1
    <2>3. io = "none" \/ JoinCut
      BY <2>2, Zenon DEF UseInv
    <2>4. ~JoinCut
      BY <2>1 DEF JoinCut
    <2> QED
      BY <1>c, <2>1, <2>2, <2>3, <2>4, Zenon DEF UseInv
  <1>4. ASSUME \/ select \/ demu_poll_iopages \/ demu_poll_shared_iopage
               \/ respond \/ notify \/ poll_watches \/ select_error
        PROVE  UseInv'
    <2>1. /\ pc \in Serving /\ pc \notin {"stop", "join"} /\ pc' # "lower"
          /\ UNCHANGED <<seq, cut, queue, listed, io, bound>>
      BY <1>4, Zenon DEF select, demu_poll_iopages, demu_poll_shared_iopage,
         respond, notify, poll_watches, select_error, AfterPoll, sigVars, devVars
    <2> QED
      BY <1>e, <2>1, Zenon
  <1>5. CASE demu_handle_ioreq
    <2>1. /\ pc = "handle" /\ pc' \in {"respond", "reset"} /\ UNCHANGED <<seq, cut, bound, listed>>
          /\ (io' = io /\ queue' = queue) \/ queue' = TRUE
      <3>1. /\ pc = "handle" /\ pc' \in {"respond", "reset"} /\ UNCHANGED <<seq, cut, bound, listed>>
        BY <1>5, Zenon DEF demu_handle_ioreq, sigVars, devVars
      <3>2. (io' = io /\ queue' = queue) \/ queue' = TRUE
        BY <1>5, Zenon DEF demu_handle_ioreq, devVars
      <3> QED
        BY <3>1, <3>2, Zenon
    <2>2. seq >= 11 /\ seq' >= 11 /\ seq' >= 9 /\ cut = {} /\ pc \notin {"stop", "join"} /\ pc' # "lower"
      BY <1>a, <1>b, <2>1, SMT DEF OnRung
    <2>3. listed
      BY <1>d, <2>1, <2>2
    <2>4. listed' = listed /\ \A c \in cut' : FALSE
      BY <2>1, <2>2
    <2>5. io' # "none" /\ ~JoinCut' => queue' = TRUE
      <3>1. io' = io /\ queue' = queue => (io' # "none" /\ ~JoinCut' => queue' = TRUE)
        <4>1. queue \in BOOLEAN /\ cut' = cut
          BY <2>1 DEF TypeOK
        <4> QED
          BY <1>c, <4>1, Zenon DEF UseInv
      <3> QED
        BY <2>1, <3>1
    <2>6. listed'
      BY <2>3, <2>4, Zenon
    <2> QED
      BY <2>1, <2>2, <2>4, <2>5, <2>6, Zenon DEF UseInv
  <1>6. CASE queue_reset
    <2>1. io' = "none" /\ pc' = "respond" /\ UNCHANGED <<seq, cut, bound>>
      BY <1>6, Zenon DEF queue_reset, sigVars
    <2> QED
      BY <2>1, Zenon DEF UseInv
  <1>7. CASE release
    <2>1. pc = "release" /\ pc' = "lower" /\ UNCHANGED <<seq, cut, queue, listed, io>>
      BY <1>7, Zenon DEF release, sigVars, devVars
    <2>2. (bound' = bound \/ bound' = {}) /\ (seq = 9 => bound' = {})
      BY <1>7, SMT DEF release
    <2> QED
      BY <1>e, <2>1, <2>2, Zenon
  <1>8. CASE lower
    <2>1. pc = "lower" /\ pc' = "release" /\ seq' = seq - 1 /\ UNCHANGED <<cut, queue, listed, io, bound>>
      BY <1>8, Zenon DEF lower, sigVars, devVars
    <2>2. /\ seq >= 11 /\ seq # 11 => seq' >= 11
          /\ seq >= 9 /\ seq # 9 => seq' >= 9
      BY <1>a, <2>1
    <2>3. seq = 11 => ~listed
      BY <2>1, Zenon DEF DevInv, Taken
    <2> QED
      BY <1>c, <2>1, <2>2, <2>3, Zenon DEF UseInv
  <1>9. CASE torn_down \/ exit
    <2>1. /\ pc' \in {"wait", "destroy", "exit", "exited"} /\ UNCHANGED <<seq, cut, queue, listed, bound>>
          /\ io' = io \/ io' = "none"
          /\ pc \notin {"stop", "join"}
      BY <1>9, Zenon DEF torn_down, exit, sigVars, devVars
    <2> QED
      BY <1>e, <2>1, Zenon
  <1>10. CASE device_teardown
    <2>1. /\ pc = "release" /\ seq = 11 /\ UNCHANGED <<seq, cut, queue, listed, io, bound>>
      BY <1>10, Zenon DEF device_teardown, sigVars, devVars
    <2>2. seq # 9 /\ pc \notin {"stop", "join"}
      BY <2>1
    <2> QED
      BY <1>e, <2>1, <2>2, Zenon
  <1>11. CASE virtio_blk__exit
    <2>1. /\ pc = "unlist" /\ seq = 11 /\ UNCHANGED <<seq, cut, queue, io, bound>>
          /\ pc' = IF listed THEN "stop" ELSE "close"
      BY <1>11, SMT DEF virtio_blk__exit, sigVars, StepInv
    <2>2. pc \notin {"stop", "join"} /\ pc' # "lower"
      BY <1>c, <2>1
    <2> QED
      BY <1>c, <2>1, <2>2, Zenon DEF UseInv
  <1>12. CASE exit_vq
    <2>1. /\ seq = 11 /\ pc' \in {"join", "close"} /\ UNCHANGED <<seq, cut, queue, listed, bound>>
          /\ pc' = "join" => io' = "none" \/ io # "none"
          /\ pc' = "close" => ~queue /\ io' = io
      BY <1>12, SMT DEF exit_vq, sigVars, StepInv
    <2> QED
      BY <1>c, <2>1, Zenon DEF UseInv
  <1>13. CASE join
    <2>1. /\ pc' = "close" /\ UNCHANGED <<seq, cut, io, bound>>
          /\ io = "none" \/ \E c \in cut : c.pc = "reset"
      BY <1>13, Zenon DEF join, sigVars
    <2>2. io = "none" \/ JoinCut
      BY <2>1 DEF JoinCut
    <2> QED
      BY <1>c, <2>1, <2>2, Zenon DEF UseInv
  <1>14. CASE disk_image__exit \/ free_kvm
    <2>1. /\ pc \in {"close", "free", "null"} /\ pc' \in {"free", "null", "lower"} /\ seq = 11
          /\ UNCHANGED <<seq, cut, queue, listed, io, bound>>
      BY <1>14, SMT DEF disk_image__exit, free_kvm, sigVars, devVars, StepInv
    <2>2. seq # 9 /\ pc \notin {"stop", "join"}
      BY <2>1
    <2> QED
      BY <1>e, <2>1, <2>2, Zenon
  <1>15. ASSUME NEW s \in Signals, demu_sigterm(s) PROVE UseInv'
    <2> DEFINE c0 == [pc |-> pc, seq |-> seq]
    <2>1. /\ pc' = "release" /\ cut' = cut \cup {c0} /\ UNCHANGED <<seq, queue, listed, io, bound>>
      BY <1>15, Zenon DEF demu_sigterm, devVars
    <2>2. c0.pc = pc /\ c0.seq = seq
      OBVIOUS
    <2> HIDE DEF c0
    <2>3. c0 \in cut' /\ cut \subseteq cut' /\ (\A c \in cut' : c \in cut \/ c = c0)
      BY <2>1
    <2>4. ~JoinCut' => ~JoinCut /\ pc \notin {"stop", "join"}
      BY <2>2, <2>3, SMT DEF JoinCut
    <2> QED
      BY <2>1, <2>2, <2>3, <2>4, Zenon DEF UseInv
  <1>16. ASSUME NEW v \in Vcpus,
                xenstore_event \/ vcpu_ready(v) \/ Vcpu(v) \/ UNCHANGED vars
         PROVE  UseInv'
    <2>1. UNCHANGED <<pc, seq, cut, queue, listed, io, bound>>
      BY <1>16, Zenon DEF xenstore_event, vcpu_ready, Vcpu, vcpu_send, vcpu_wake, vars,
         mainVars, sigVars, devVars
    <2> QED
      BY <1>c, <2>1, Zenon DEF UseInv
  <1>17. CASE io_end
    <2>1. io' = "none" /\ UNCHANGED <<pc, seq, cut, bound>>
      BY <1>17, Zenon DEF io_end, sigVars
    <2> QED
      BY <2>1, Zenon DEF UseInv
  <1>18. crash => pc' = "crashed"
    BY DEF crash
  <1>19. \E v \in Vcpus : TRUE
    BY DemuAssumption
  <1> QED
    BY <1>1, <1>2, <1>3, <1>4, <1>5, <1>6, <1>7, <1>8, <1>9, <1>10, <1>11, <1>12, <1>13, <1>14,
       <1>15, <1>16, <1>17, <1>18, <1>19, Zenon DEF Next, Main

\* Where the main thread stands exactly on a rung.
LEMMA OnTheRung ==
    \A p, s : p \notin {"next", "lower", "images", "devices", "close", "free", "null", "exit", "exited"}
                => At(p, s) = HeldAt(s)
  BY Zenon DEF At

\* Only the stop of the device gives it back.
LEMMA DeviceReleased ==
    ASSUME NEW p, NEW s \in 0 .. 12, OnRung(p, s), "blk" \in HeldAt(s), "blk" \notin At(p, s)
    PROVE  Taken(p, s)
  <1> USE DEF Starting, Serving, Polling, Undoing
  <1>1. CASE p = "lower"
    <2>1. "blk" \notin HeldAt(s - 1) /\ s - 1 \in 0 .. 12
      BY <1>1, SMT DEF At, OnRung
    <2>2. s >= 11 /\ ~(s - 1 >= 11)
      BY <2>1, UsedRungs
    <2> QED
      BY <1>1, <2>2 DEF Taken
  <1>2. CASE p \in {"close", "free", "null"}
    BY <1>2, SMT DEF OnRung, Taken
  <1>3. CASE p \in {"next", "images", "devices"}
    <2>1. s <= 10
      BY <1>3, SMT DEF OnRung
    <2> QED
      BY <2>1, UsedRungs
  <1>4. CASE p \in {"exit", "exited"}
    BY <1>4, SMT DEF At
  <1> QED
    BY <1>1, <1>2, <1>3, <1>4, OnTheRung, Zenon

\* No handler has interrupted the stop of the device that is being stopped.
LEMMA DeviceNotCut ==
    ASSUME TypeOK, StepInv, PlaceInv, DevInv, pc \in {"stop", "join"}
    PROVE  /\ \A c \in cut : c.pc \notin {"stop", "join"}
           /\ "blk" \notin Released
  <1>1. \A c \in cut : c.seq \in 0 .. 12 /\ OnRung(c.pc, c.seq)
    BY DEF TypeOK, PlaceInv, UNINITIALIZED, INITIALIZED
  <1>2. \A c \in cut : ~Taken(c.pc, c.seq)
    BY Zenon DEF DevInv
  <1>3. \A c \in cut : c.pc \in {"stop", "join"} => Taken(c.pc, c.seq)
    BY <1>1, SMT DEF OnRung, Undoing, Taken
  <1>4. \A c \in cut : "blk" \notin HeldAt(c.seq) \ At(c.pc, c.seq)
    BY <1>1, <1>2, DeviceReleased
  <1> QED
    BY <1>2, <1>3, <1>4 DEF Released

LEMMA SigtermHandles ==
    ASSUME TypeOK, StepInv, PlaceInv, DevInv, HandlesMatchSeq, pc # "crashed",
           NEW s \in Signals, demu_sigterm(s)
    PROVE  HandlesMatchSeq'
  <1> DEFINE H == HeldAt(seq)
             A == At(pc, seq)
             S == IF pc \in {"stop", "join"} THEN {"blk"} ELSE {}
  <1>1. pc' = "release" /\ seq' = seq /\ held' = held /\ cut' = cut \cup {[pc |-> pc, seq |-> seq]}
    BY Zenon DEF demu_sigterm
  <1>2. Released' = Released \cup (H \ A) /\ Forgotten' = Forgotten \cup (A \ H) \cup S
    BY <1>1, CutMore, Zenon
  <1>3. At(pc, seq)' = H
    BY <1>1, SMT DEF At, HeldAt
  <1>4. held \ {"orphans"} = (A \ Released) \cup Forgotten
    BY DEF HandlesMatchSeq
  <1>5. A \subseteq H \/ Released = {}
    <2>1. CASE pc \in {"next", "images", "devices"}
      <3>1. cut = {}
        BY <2>1 DEF PlaceInv, Starting
      <3> QED
        BY <3>1 DEF Released
    <2>2. CASE pc = "lower"
      <3>1. seq \in 1 .. 12
        BY <2>2, SMT DEF TypeOK, StepInv, UNINITIALIZED, INITIALIZED
      <3>2. HeldAt(seq - 1) \subseteq HeldAt(seq)
        BY <3>1, RungsGrow
      <3> QED
        BY <2>2, <3>2, SMT DEF At
    <2>3. CASE pc \in {"close", "free", "null", "exit", "exited"}
      BY <2>3, SMT DEF At
    <2> QED
      BY <2>1, <2>2, <2>3, OnTheRung, Zenon
  <1>6. S \subseteq A /\ S \cap Released = {}
    <2>1. CASE pc \in {"stop", "join"}
      <3>1. seq = 11 /\ At(pc, seq) = HeldAt(seq)
        BY <2>1, SMT DEF StepInv, Undoing, DEVICE_INITIALIZED, At
      <3>2. "blk" \in HeldAt(11)
        BY UsedRungs
      <3> QED
        BY <2>1, <3>1, <3>2, DeviceNotCut
    <2> QED
      BY <2>1
  <1> HIDE DEF H, A, S
  <1>7. held' \ {"orphans"} = (H \ Released') \cup Forgotten'
    BY <1>1, <1>2, <1>4, <1>5, <1>6
  <1> QED
    BY <1>3, <1>7 DEF HandlesMatchSeq

\* The steps of demu_initialize.
LEMMA InitializeHandles ==
    ASSUME TypeOK, StepInv, PlaceInv, DevInv, HandlesMatchSeq, pc # "crashed",
           \/ guest_found \/ acquire \/ device_initialize \/ disk_image__init
           \/ virtio_blk__init \/ init_fail \/ seq_next \/ \E v \in Vcpus : bind(v)
    PROVE  HandlesMatchSeq'
  <1> USE DEF UNINITIALIZED, SERVER_REGISTERED, PORT_ARRAY_ALLOCATED, PORTS_BOUND,
              DEVICE_INITIALIZED, INITIALIZED
  <1>a. seq \in 0 .. 12
    BY DEF TypeOK
  <1>b. cut = {}
    <2>1. pc \in {"wait"} \cup Starting
      BY SMT DEF Starting, guest_found, acquire, device_initialize, disk_image__init,
         virtio_blk__init, init_fail, seq_next, bind
    <2> QED
      BY <2>1, Zenon DEF PlaceInv
  <1>c. cut' = cut
    BY Zenon DEF guest_found, acquire, device_initialize, disk_image__init, virtio_blk__init,
       init_fail, seq_next, bind, sigVars
  <1>d. HeldAt(10) \cap DeviceItems = {} /\ HeldAt(11) = HeldAt(10) \cup DeviceItems
    BY NoDevices, TopRungs
  <1>1. CASE guest_found
    <2>1. pc = "wait" /\ pc' = "acquire" /\ UNCHANGED <<seq, held>>
      BY <1>1 DEF guest_found
    <2> QED
      BY <1>c, <2>1, OnTheRung, SameHandles
  <1>2. CASE acquire
    <2>1. /\ pc = "acquire" /\ seq + 1 \in 1 .. 9 /\ pc' = "next" /\ seq' = seq
          /\ held' = held \cup {Ladder[seq + 1]}
      BY <1>2, <1>a DEF acquire
    <2>2. HeldAt(seq + 1) = HeldAt(seq) \cup {Ladder[seq + 1]} /\ Ladder[seq + 1] # "orphans"
      <3>1. (seq + 1) - 1 = seq
        BY <1>a
      <3> QED
        BY <2>1, <3>1, LadderRungs
    <2>3. At(pc', seq') = HeldAt(seq + 1) /\ At(pc, seq) = HeldAt(seq)
      BY <2>1 DEF At
    <2> QED
      BY <1>b, <1>c, <2>1, <2>2, <2>3, TakenNow
  <1>3. CASE device_initialize
    <2>1. /\ pc = "acquire" /\ pc' = "images" /\ seq' = seq /\ held' = held \cup {"kvm"}
      BY <1>3 DEF device_initialize
    <2>2. At(pc', seq') = At(pc, seq) \cup {"kvm"}
      BY <2>1 DEF At
    <2> QED
      BY <1>b, <1>c, <2>1, <2>2, TakenNow
  <1>4. CASE disk_image__init
    <2>1. /\ pc = "images" /\ pc' = "devices" /\ seq' = seq /\ held' = held \cup {"disks"}
      BY <1>4 DEF disk_image__init
    <2>2. At(pc', seq') = At(pc, seq) \cup {"disks"}
      BY <2>1 DEF At
    <2> QED
      BY <1>b, <1>c, <2>1, <2>2, TakenNow
  <1>5. CASE virtio_blk__init
    <2>1. /\ pc = "devices" /\ seq = 10 /\ pc' = "next" /\ seq' = seq /\ held' = held \cup {"blk"}
      BY <1>5, SMT DEF virtio_blk__init, StepInv
    <2>2. At(pc', seq') = HeldAt(11) /\ At(pc, seq) = HeldAt(10) \cup {"kvm", "disks"}
      BY <2>1 DEF At
    <2>3. At(pc', seq') = At(pc, seq) \cup {"blk"}
      BY <1>d, <2>2 DEF DeviceItems
    <2> QED
      BY <1>b, <1>c, <2>1, <2>3, TakenNow
  <1>6. CASE init_fail
    <2>1. pc' = "release" /\ seq' = seq
      BY <1>6, Zenon DEF init_fail
    <2>2. Forgotten = {} /\ Released = {} /\ Forgotten' = {} /\ Released' = {}
      BY <1>b, <1>c DEF Forgotten, Released
    <2>3. At(pc, seq)' = HeldAt(seq)
      BY <2>1 DEF At, HeldAt
    <2>4. held \ {"orphans"} = At(pc, seq)
      BY <2>2 DEF HandlesMatchSeq
    <2>5. held' \ {"orphans"} = HeldAt(seq)
      <3>1. CASE pc = "acquire"
        BY <1>6, <2>4, <3>1 DEF init_fail, At
      <3>2. CASE pc \in {"images", "devices"}
        <4>1. seq = 10
          BY <3>2 DEF StepInv
        <4>2. HeldAt(10) \cap {"kvm", "disks", "blk"} = {}
          BY <1>d DEF DeviceItems
        <4>3. CASE pc = "images"
          <5>1. At(pc, seq) = HeldAt(10) \cup {"kvm"} /\ held' = held \ {"kvm"}
            BY <1>6, <4>1, <4>3 DEF init_fail, At
          <5> QED
            BY <2>4, <4>1, <4>2, <5>1
        <4>4. CASE pc = "devices"
          <5>1. /\ At(pc, seq) = HeldAt(10) \cup {"kvm", "disks"}
                /\ held' = (held \ {"kvm", "disks"}) \cup {"orphans"}
            BY <1>6, <4>1, <4>4 DEF init_fail, At
          <5> QED
            BY <2>4, <4>1, <4>2, <5>1
        <4> QED
          BY <3>2, <4>3, <4>4
      <3> QED
        BY <1>6, <3>1, <3>2 DEF init_fail
    <2> QED
      BY <2>2, <2>3, <2>5 DEF HandlesMatchSeq
  <1>7. CASE seq_next
    <2>1. /\ pc = "next" /\ seq \in 0 .. 10 /\ held' = held
          /\ \/ seq = 10 /\ seq' = 12 /\ pc' = "select"
             \/ seq' = seq + 1 /\ pc' = "acquire"
      BY <1>7, <1>a, SMT DEF seq_next, StepInv
    <2>2. HeldAt(seq') = HeldAt(seq + 1)
      BY <2>1, TopRungs
    <2>3. At(pc, seq) = HeldAt(seq + 1) /\ At(pc', seq') = HeldAt(seq')
      BY <2>1, SMT DEF At
    <2> QED
      BY <1>c, <2>1, <2>2, <2>3, SameHandles
  <1>8. ASSUME NEW v \in Vcpus, bind(v) PROVE HandlesMatchSeq'
    <2>1. /\ pc = "acquire" /\ seq = 9 /\ pc' \in {"acquire", "next"} /\ seq' = 9 /\ held' = held
      BY <1>8 DEF bind
    <2>2. At(pc, seq) = HeldAt(9) /\ At(pc', seq') \in {HeldAt(9), HeldAt(10)}
      BY <2>1, SMT DEF At
    <2> QED
      BY <1>c, <2>1, <2>2, TopRungs, SameHandles
  <1> QED
    BY <1>1, <1>2, <1>3, <1>4, <1>5, <1>6, <1>7, <1>8, Zenon

\* The steps of demu_teardown.
LEMMA TeardownHandles ==
    ASSUME TypeOK, StepInv, PlaceInv, DevInv, HandlesMatchSeq, pc # "crashed",
           \/ release \/ lower \/ torn_down \/ exit
           \/ device_teardown \/ virtio_blk__exit \/ exit_vq \/ join \/ disk_image__exit \/ free_kvm
    PROVE  HandlesMatchSeq'
  <1> USE DEF UNINITIALIZED, SERVER_REGISTERED, PORT_ARRAY_ALLOCATED, PORTS_BOUND,
              DEVICE_INITIALIZED, INITIALIZED
  <1>a. seq \in 0 .. 12
    BY DEF TypeOK
  <1>c. cut' = cut
    BY Zenon DEF release, lower, torn_down, exit, device_teardown, virtio_blk__exit, exit_vq,
       join, disk_image__exit, free_kvm, sigVars
  <1>d. /\ HeldAt(10) \cap {"kvm", "disks", "blk"} = {}
        /\ HeldAt(11) = HeldAt(10) \cup {"kvm", "disks", "blk"}
    BY NoDevices, TopRungs DEF DeviceItems
  <1>1. CASE release
    <2>1. pc = "release" /\ seq \in 1 .. 12 /\ pc' = "lower" /\ seq' = seq
      BY <1>1, <1>a DEF release
    <2>2. At(pc, seq) = HeldAt(seq) /\ At(pc', seq') = HeldAt(seq - 1)
      BY <2>1 DEF At
    <2>3. CASE seq \in {10, 12}
      <3>1. held' = held
        BY <1>1, <2>3, SMT DEF release
      <3>2. HeldAt(seq - 1) = HeldAt(seq)
        BY <2>3, TopRungs
      <3> QED
        BY <1>c, <2>1, <2>2, <3>1, <3>2, SameHandles
    <2>4. CASE seq \in 1 .. 9
      <3>1. held' = held \ {Ladder[seq]}
        <4>1. Ladder[9] = "array" /\ Ladder[6] = "server"
          BY DEF Ladder
        <4> QED
          BY <1>1, <2>4, <4>1, SMT DEF release
      <3>2. /\ HeldAt(seq) = HeldAt(seq - 1) \cup {Ladder[seq]}
            /\ Ladder[seq] \notin HeldAt(seq - 1) /\ Ladder[seq] # "blk"
        <4>1. Ladder[seq] \notin DeviceItems /\ "blk" \in DeviceItems
          BY <2>4, LadderRungs DEF DeviceItems
        <4> QED
          BY <2>4, <4>1, LadderRungs
      <3>3. At(pc', seq') = At(pc, seq) \ {Ladder[seq]} /\ Ladder[seq] \in HeldAt(seq)
        BY <2>2, <3>2
      <3> QED
        BY <1>c, <3>1, <3>2, <3>3, GivenBack
    <2> QED
      BY <1>1, <2>1, <2>3, <2>4 DEF release
  <1>2. CASE lower
    <2>1. pc = "lower" /\ pc' = "release" /\ seq' = seq - 1 /\ held' = held
      BY <1>2 DEF lower
    <2>2. At(pc, seq) = HeldAt(seq - 1) /\ At(pc', seq') = HeldAt(seq - 1)
      BY <2>1 DEF At
    <2> QED
      BY <1>c, <2>1, <2>2, SameHandles
  <1>3. CASE torn_down
    <2>1. pc = "release" /\ pc' \in {"wait", "destroy"} /\ UNCHANGED <<seq, held>>
      BY <1>3, Zenon DEF torn_down
    <2>2. At(pc, seq) = HeldAt(seq) /\ At(pc', seq') = HeldAt(seq)
      BY <2>1, SMT DEF At
    <2> QED
      BY <1>c, <2>1, <2>2, SameHandles
  <1>4. CASE exit
    <2>1. CASE pc = "destroy"
      <3>1. held' = held \ {"xsdev"} /\ pc' = "exit" /\ seq' = seq
        BY <1>4, <2>1, Zenon DEF exit
      <3>2. At(pc', seq') = At(pc, seq) \ {"xsdev"} /\ "xsdev" \in HeldAt(seq)
        BY <1>a, <2>1, <3>1, UsedRungs, SMT DEF At
      <3> QED
        BY <1>c, <3>1, <3>2, GivenBack
    <2>2. CASE pc = "exit"
      <3>1. held' = held /\ pc' = "exited" /\ seq' = seq
        BY <1>4, <2>2, Zenon DEF exit
      <3>2. At(pc', seq') = At(pc, seq)
        BY <2>2, <3>1, SMT DEF At
      <3> QED
        BY <1>c, <3>1, <3>2, SameHandles
    <2> QED
      BY <1>4, <2>1, <2>2, Zenon DEF exit
  <1>5. CASE device_teardown
    <2>1. /\ pc = "release" /\ seq = 11 /\ UNCHANGED <<seq, held>>
          /\ pc' = IF kvm THEN "unlist" ELSE "lower"
      BY <1>5 DEF device_teardown
    <2>2. At(pc, seq) = HeldAt(11)
      BY <2>1 DEF At
    <2>3. CASE kvm
      <3>1. At(pc', seq') = HeldAt(11)
        BY <2>1, <2>3, SMT DEF At
      <3> QED
        BY <1>c, <2>1, <2>2, <3>1, SameHandles
    <2>4. CASE ~kvm
      <3>1. At(pc', seq') = HeldAt(10)
        BY <2>1, <2>4, SMT DEF At
      <3>2. PICK c \in cut : c.pc = "lower" /\ c.seq = 11
        <4>1. seq >= 11 /\ ~(pc = "lower" /\ seq = 11)
          BY <2>1
        <4> QED
          BY <2>4, <4>1, Zenon DEF DevInv
      <3>3. HeldAt(11) \ HeldAt(10) \subseteq Released
        <4>1. At(c.pc, c.seq) = HeldAt(10)
          BY <3>2 DEF At
        <4> QED
          BY <3>2, <4>1 DEF Released
      <3>4. At(pc', seq') \ Released = At(pc, seq) \ Released
        BY <1>d, <2>2, <3>1, <3>3
      <3> QED
        BY <1>c, <2>1, <3>4, SameHandles
    <2> QED
      BY <2>3, <2>4
  <1>6. CASE virtio_blk__exit
    <2>1. /\ pc = "unlist" /\ seq = 11 /\ UNCHANGED <<seq, held>>
          /\ pc' = IF listed THEN "stop" ELSE "close"
      BY <1>6, SMT DEF virtio_blk__exit, StepInv, Undoing
    <2>2. At(pc, seq) = HeldAt(11)
      BY <2>1 DEF At
    <2>3. CASE listed
      <3>1. At(pc', seq') = HeldAt(11)
        BY <2>1, <2>3, SMT DEF At
      <3> QED
        BY <1>c, <2>1, <2>2, <3>1, SameHandles
    <2>4. CASE ~listed
      <3>1. At(pc', seq') = HeldAt(11) \ {"blk"}
        BY <2>1, <2>4, SMT DEF At
      <3>2. PICK c \in cut : Taken(c.pc, c.seq)
        <4>1. seq >= 11 /\ ~Taken(pc, seq)
          BY <2>1, SMT DEF Taken
        <4> QED
          BY <2>4, <4>1, Zenon DEF DevInv
      <3>3. "blk" \in Released \cup Forgotten
        <4>1. CASE c.pc \in {"stop", "join"}
          BY <4>1 DEF Forgotten
        <4>2. CASE c.pc \in {"close", "free", "null", "lower"}
          <5>1. c.seq = 11 /\ "blk" \in HeldAt(11) /\ "blk" \notin HeldAt(10)
            BY <1>d, <3>2 DEF Taken
          <5>2. "blk" \notin At(c.pc, c.seq)
            BY <4>2, <5>1, SMT DEF At, DeviceItems
          <5> QED
            BY <5>1, <5>2 DEF Released
        <4> QED
          BY <3>2, <4>1, <4>2 DEF Taken
      <3>4. (At(pc', seq') \ Released) \cup Forgotten = (At(pc, seq) \ Released) \cup Forgotten
        BY <2>2, <3>1, <3>3
      <3> QED
        BY <1>c, <2>1, <3>4, SameHandles
    <2> QED
      BY <2>3, <2>4
  <1>7. CASE exit_vq \/ join
    <2>1. pc \in {"stop", "join"} /\ seq = 11 /\ seq' = seq
      BY <1>7, SMT DEF exit_vq, join, StepInv, Undoing
    <2>2. At(pc, seq) = HeldAt(11) /\ "blk" \in HeldAt(seq)
      BY <1>d, <2>1, SMT DEF At
    <2>3. \/ held' = held /\ pc' = "join"
          \/ held' = held \ {"blk"} /\ pc' = "close"
      BY <1>7, SMT DEF exit_vq, join
    <2>4. CASE held' = held /\ pc' = "join"
      <3>1. At(pc', seq') = HeldAt(11)
        BY <2>1, <2>4 DEF At
      <3> QED
        BY <1>c, <2>2, <2>4, <3>1, SameHandles
    <2>5. CASE held' = held \ {"blk"} /\ pc' = "close"
      <3>1. At(pc', seq') = At(pc, seq) \ {"blk"}
        BY <2>1, <2>2, <2>5 DEF At
      <3>2. \A c \in cut : c.pc \notin {"stop", "join"}
        BY <2>1, DeviceNotCut
      <3> QED
        BY <1>c, <2>2, <2>5, <3>1, <3>2, GivenBack
    <2> QED
      BY <2>3, <2>4, <2>5
  <1>8. CASE disk_image__exit
    <2>1. pc = "close" /\ seq = 11 /\ seq' = seq /\ held' = held \ {"disks"} /\ pc' = "free"
      BY <1>8, SMT DEF disk_image__exit, StepInv, Undoing
    <2>2. At(pc', seq') = At(pc, seq) \ {"disks"} /\ "disks" \in HeldAt(seq)
      BY <1>d, <2>1, SMT DEF At
    <2> QED
      BY <1>c, <2>1, <2>2, GivenBack
  <1>9. CASE free_kvm
    <2>1. seq = 11 /\ seq' = seq
      BY <1>9, SMT DEF free_kvm, StepInv, Undoing
    <2>2. CASE pc = "free"
      <3>1. held' = held \ {"kvm"} /\ pc' = "null"
        BY <1>9, <2>2, Zenon DEF free_kvm
      <3>2. At(pc', seq') = At(pc, seq) \ {"kvm"} /\ "kvm" \in HeldAt(seq)
        BY <1>d, <2>1, <2>2, <3>1, SMT DEF At, DeviceItems
      <3> QED
        BY <1>c, <2>1, <3>1, <3>2, GivenBack
    <2>3. CASE pc = "null"
      <3>1. held' = held /\ pc' = "lower"
        BY <1>9, <2>3, Zenon DEF free_kvm
      <3>2. At(pc', seq') = At(pc, seq)
        BY <1>d, <2>1, <2>3, <3>1, SMT DEF At, DeviceItems
      <3> QED
        BY <1>c, <3>1, <3>2, SameHandles
    <2> QED
      BY <1>9, <2>2, <2>3, Zenon DEF free_kvm
  <1> QED
    BY <1>1, <1>2, <1>3, <1>4, <1>5, <1>6, <1>7, <1>8, <1>9, Zenon

LEMMA NextHandles ==
    ASSUME TypeOK, StepInv, PlaceInv, DevInv, HandlesMatchSeq, [Next]_vars, pc' # "crashed"
    PROVE  HandlesMatchSeq'
  <1>0. pc # "crashed"
    BY DeadStays
  <1>1. CASE guest_found \/ acquire \/ device_initialize \/ disk_image__init \/ virtio_blk__init
             \/ init_fail \/ seq_next \/ \E v \in Vcpus : bind(v)
    BY <1>0, <1>1, InitializeHandles, Zenon
  <1>2. ASSUME \/ select \/ demu_poll_iopages \/ demu_poll_shared_iopage \/ demu_handle_ioreq
               \/ queue_reset \/ respond \/ notify \/ poll_watches \/ select_error
        PROVE  HandlesMatchSeq'
    <2>1. /\ pc \in Serving /\ pc' \in Serving \cup {"release"}
          /\ UNCHANGED <<seq, cut, held>>
      BY <1>2, Zenon DEF select, demu_poll_iopages, demu_poll_shared_iopage, demu_handle_ioreq,
         queue_reset, respond, notify, poll_watches, select_error, AfterPoll, sigVars, Serving,
         Polling
    <2>2. At(pc, seq) = HeldAt(seq) /\ At(pc', seq') = HeldAt(seq)
      BY <2>1, SMT DEF At, Serving, Polling
    <2> QED
      BY <1>0, <2>1, <2>2, SameHandles
  <1>3. CASE release \/ lower \/ torn_down \/ exit \/ device_teardown \/ virtio_blk__exit
             \/ exit_vq \/ join \/ disk_image__exit \/ free_kvm
    BY <1>0, <1>3, TeardownHandles, Zenon
  <1>4. ASSUME NEW s \in Signals, demu_sigterm(s) PROVE HandlesMatchSeq'
    BY <1>0, <1>4, SigtermHandles
  <1>5. ASSUME NEW v \in Vcpus,
               xenstore_event \/ io_end \/ vcpu_ready(v) \/ Vcpu(v) \/ UNCHANGED vars
        PROVE  HandlesMatchSeq'
    <2>1. UNCHANGED <<pc, seq, cut, held>>
      BY <1>5, Zenon DEF xenstore_event, io_end, vcpu_ready, Vcpu, vcpu_send, vcpu_wake, vars,
         mainVars, sigVars
    <2> QED
      BY <1>0, <2>1, SameHandles
  <1>6. crash => pc' = "crashed"
    BY DEF crash
  <1>7. \E v \in Vcpus : TRUE
    BY DemuAssumption
  <1> QED
    BY <1>1, <1>2, <1>3, <1>4, <1>5, <1>6, <1>7, Zenon DEF Next, Main

LEMMA NextHandleInv == TypeOK /\ StepInv /\ HandleInv /\ [Next]_vars => HandleInv'
  <1> SUFFICES ASSUME TypeOK, StepInv, HandleInv, [Next]_vars, pc' # "crashed"
               PROVE  PlaceInv' /\ DevInv' /\ UseInv' /\ HandlesMatchSeq'
    BY DEF HandleInv
  <1>1. pc # "crashed"
    BY DeadStays
  <1>2. PlaceInv /\ DevInv /\ UseInv /\ HandlesMatchSeq /\ TypeOK'
    BY <1>1, NextTypeOK DEF HandleInv
  <1> QED
    BY <1>2, NextPlaceInv, NextDevInv, NextUseInv, NextHandles

\* demu_teardown finds in seq which handles it has to give back, after every failure
\* of demu_initialize and wherever signals arrive; a handler forgets or gives back
\* again what the step it interrupts was about.
THEOREM TeardownComplete == Safety => []HandlesMatchSeq
  <1>1. TypeOK /\ StepInv /\ HandleInv /\ [Next]_vars => HandleInv'
    BY NextHandleInv
  <1>2. HandleInv => HandlesMatchSeq
    BY DEF HandleInv, HandlesMatchSeq
  <1> QED
    BY <1>1, <1>2, InitTypeOK, NextTypeOK, InitHandleInv, PTL DEF Safety

(***************************************************************************)
(* What uses what                                                          *)
(***************************************************************************)

\* Until the device is taken off its list, what its I/O thread uses is there.
LEMMA DeviceUses ==
    ASSUME NEW p, NEW s \in 11 .. 12, OnRung(p, s), ~Taken(p, s)
    PROVE  IoUses \subseteq At(p, s)
  <1> USE DEF Starting, Serving, Polling, Undoing
  <1>1. IoUses \subseteq HeldAt(11) /\ HeldAt(12) = HeldAt(11)
    BY UsedRungs, TopRungs DEF IoUses
  <1>2. At(p, s) = HeldAt(11)
    <2>1. HeldAt(s) = HeldAt(11)
      BY <1>1
    <2>2. CASE p \in {"next", "images", "devices", "exit", "exited"}
      BY <2>2, SMT DEF OnRung
    <2>3. CASE p \in {"close", "free", "null"}
      BY <2>3, SMT DEF OnRung, Taken
    <2>4. CASE p = "lower"
      <3>1. s = 12
        BY <2>4 DEF Taken
      <3> QED
        BY <2>4, <3>1 DEF At
    <2> QED
      BY <2>1, <2>2, <2>3, <2>4, OnTheRung, Zenon
  <1> QED
    BY <1>1, <1>2

\* A rung's handle is only given back on that rung.
LEMMA RungReleased ==
    ASSUME NEW p, NEW s \in 0 .. 12, OnRung(p, s), NEW n \in 1 .. 9,
           Ladder[n] \in HeldAt(s), Ladder[n] \notin At(p, s)
    PROVE  p = "lower" /\ s = n
  <1>1. Ladder[n] \notin {"kvm", "disks", "blk"} /\ Ladder[n] # "xsdev"
    BY DEF Ladder
  <1>2. CASE p = "lower"
    <2>1. s \in 1 .. 12 /\ Ladder[n] \notin HeldAt(s - 1)
      BY <1>2, SMT DEF OnRung, At
    <2>2. CASE s \in 1 .. 9
      <3>1. HeldAt(s) = HeldAt(s - 1) \cup {Ladder[s]}
        BY <2>2, LadderRungs
      <3>2. Ladder[n] = Ladder[s]
        BY <2>1, <3>1
      <3>3. n = s
        BY <2>2, <3>2 DEF Ladder
      <3> QED
        BY <1>2, <3>3
    <2>3. CASE s \in 10 .. 12
      <3>1. HeldAt(s) \subseteq HeldAt(s - 1) \cup {"kvm", "disks", "blk"}
        BY <2>3, TopRungs DEF DeviceItems
      <3> QED
        BY <1>1, <2>1, <3>1
    <2> QED
      BY <2>1, <2>2, <2>3
  <1>3. CASE p = "next"
    <2>1. s + 1 \in 0 .. 12 /\ HeldAt(s) \subseteq HeldAt(s + 1)
      <3>1. s + 1 \in 0 .. 12 /\ s <= s + 1
        BY <1>3 DEF OnRung
      <3> QED
        BY <3>1, RungsGrow
    <2> QED
      BY <1>3, <2>1 DEF At
  <1>4. CASE p \in {"images", "devices", "close", "free", "null", "exit", "exited"}
    BY <1>1, <1>4, SMT DEF At, DeviceItems
  <1> QED
    BY <1>2, <1>3, <1>4, OnTheRung, Zenon

\* What the rungs below stand for has not been given back either.
LEMMA BelowStays ==
    ASSUME TypeOK, PlaceInv, NEW n \in 1 .. 9, NEW m \in 1 .. n,
           Ladder[n] \in At(pc, seq), Ladder[n] \notin Released
    PROVE  Ladder[m] \in At(pc, seq) \ Released
  <1>a. seq \in 0 .. 12 /\ OnRung(pc, seq) /\ (pc = "next" => cut = {})
    BY DEF TypeOK, PlaceInv, Starting, UNINITIALIZED, INITIALIZED
  <1>b. \A c \in cut : c.seq \in 0 .. 12 /\ OnRung(c.pc, c.seq) /\ seq <= c.seq
    BY DEF TypeOK, PlaceInv, UNINITIALIZED, INITIALIZED
  <1>1. \A k \in 1 .. 9 : Ladder[k] \notin {"kvm", "disks", "blk"} /\ Ladder[k] # "xsdev"
    BY DEF Ladder
  <1>2. \A j \in 0 .. 12 : Ladder[n] \in HeldAt(j) <=> n <= j
    <2>1. DOMAIN Ladder = 1 .. 9
      BY DEF Ladder
    <2>2. \A k \in 1 .. 9 : Ladder[k] = Ladder[n] => k = n
      BY DEF Ladder
    <2> QED
      BY <1>1, <2>1, <2>2 DEF HeldAt, DEVICE_INITIALIZED, DeviceItems
  <1>3. \A j \in 0 .. 12 : n <= j => Ladder[m] \in HeldAt(j)
    <2>1. DOMAIN Ladder = 1 .. 9
      BY DEF Ladder
    <2> QED
      BY <2>1 DEF HeldAt
  <1>4. Ladder[m] \in At(pc, seq) /\ (pc # "next" => n <= seq)
    <2>1. CASE pc = "next"
      <3>1. seq + 1 \in 0 .. 12
        BY <1>a, <2>1 DEF OnRung
      <3> QED
        BY <1>2, <1>3, <2>1, <3>1 DEF At
    <2>2. CASE pc = "lower"
      <3>1. seq - 1 \in 0 .. 12
        BY <1>a, <2>2 DEF OnRung
      <3>2. Ladder[n] \in HeldAt(seq - 1)
        BY <2>2, SMT DEF At
      <3>3. n <= seq - 1
        BY <1>2, <3>1, <3>2
      <3> QED
        BY <1>3, <2>2, <3>1, <3>3, SMT DEF At
    <2>3. CASE pc \in {"images", "devices", "close", "free", "null", "exit", "exited"}
      <3>1. Ladder[n] \in HeldAt(seq)
        BY <1>1, <2>3, SMT DEF At
      <3>2. Ladder[m] \in HeldAt(seq) /\ n <= seq
        BY <1>a, <1>2, <1>3, <3>1
      <3>3. m \in 1 .. 9
        OBVIOUS
      <3> QED
        BY <1>1, <2>3, <3>2, <3>3, SMT DEF At, DeviceItems
    <2>4. CASE pc \notin {"next", "lower", "images", "devices", "close", "free", "null", "exit", "exited"}
      BY <1>a, <1>2, <1>3, <2>4, OnTheRung
    <2> QED
      BY <2>1, <2>2, <2>3, <2>4
  <1>5. ASSUME NEW c \in cut, Ladder[m] \in HeldAt(c.seq), Ladder[m] \notin At(c.pc, c.seq)
        PROVE  Ladder[n] \in Released
    <2>1. c.pc = "lower" /\ c.seq = m
      <3>1. m \in 1 .. 9
        OBVIOUS
      <3> QED
        BY <1>b, <1>5, <3>1, RungReleased
    <2>2. n <= seq /\ seq <= m
      BY <1>a, <1>b, <1>4, <2>1
    <2>3. m = n
      BY <1>a, <2>2
    <2> QED
      BY <1>5, <2>3 DEF Released
  <1>6. Ladder[m] \notin Released
    BY <1>5 DEF Released
  <1> QED
    BY <1>4, <1>6

\* While the process lives.
LEMMA NothingDanglesAlive ==
    TypeOK /\ StepInv /\ HandleInv /\ pc # "crashed" => NothingDangles
  <1> SUFFICES ASSUME TypeOK, StepInv, HandleInv, pc # "crashed" PROVE NothingDangles
    OBVIOUS
  <1>a. /\ PlaceInv /\ DevInv /\ UseInv /\ HandlesMatchSeq
        /\ held \ {"orphans"} = (At(pc, seq) \ Released) \cup Forgotten
    BY DEF HandleInv, HandlesMatchSeq
  <1>b. seq \in 0 .. 12 /\ OnRung(pc, seq)
    BY <1>a DEF TypeOK, PlaceInv, UNINITIALIZED, INITIALIZED
  <1>c. \A c \in cut : c.seq \in 0 .. 12 /\ OnRung(c.pc, c.seq) /\ seq <= c.seq
    BY <1>a DEF TypeOK, PlaceInv, UNINITIALIZED, INITIALIZED
  <1>r. /\ Ladder[2] = "evtchn" /\ Ladder[3] = "fmem" /\ Ladder[4] = "devmodel"
        /\ Ladder[6] = "server" /\ Ladder[7] = "iopage" /\ Ladder[9] = "array"
    BY DEF Ladder
  <1>1. ASSUME io # "none", ~JoinCut PROVE IoUses \subseteq held
    <2>1. seq >= 11 /\ (listed \/ pc \in {"stop", "join"})
      BY <1>1, <1>a, Zenon DEF UseInv
    <2>2. \A c \in cut : ~Taken(c.pc, c.seq)
      BY <1>a, <2>1, Zenon DEF DevInv
    <2>3. IoUses \subseteq At(pc, seq)
      <3>1. CASE pc \in {"stop", "join"}
        <4>1. seq = 11 /\ At(pc, seq) = HeldAt(seq)
          BY <1>b, <3>1, SMT DEF OnRung, Undoing, At
        <4> QED
          BY <4>1, UsedRungs DEF IoUses
      <3>2. CASE listed
        <4>1. ~Taken(pc, seq) /\ seq \in 11 .. 12
          BY <1>a, <1>b, <2>1, <3>2 DEF DevInv
        <4> QED
          BY <1>b, <4>1, DeviceUses
      <3> QED
        BY <2>1, <3>1, <3>2
    <2>4. \A c \in cut : IoUses \subseteq At(c.pc, c.seq)
      <3> TAKE c \in cut
      <3>1. c.seq \in 11 .. 12 /\ OnRung(c.pc, c.seq) /\ ~Taken(c.pc, c.seq)
        BY <1>b, <1>c, <2>1, <2>2
      <3> QED
        BY <3>1, DeviceUses
    <2>5. IoUses \cap Released = {}
      BY <2>4 DEF Released
    <2> QED
      BY <1>a, <2>3, <2>5
  <1>2. ASSUME "iopage" \in held \ Forgotten PROVE {"fmem", "server"} \subseteq held
    <2>1. Ladder[7] \in At(pc, seq) /\ Ladder[7] \notin Released
      BY <1>2, <1>a, <1>r
    <2>2. Ladder[3] \in At(pc, seq) \ Released /\ Ladder[6] \in At(pc, seq) \ Released
      BY <1>a, <2>1, BelowStays
    <2> QED
      BY <1>a, <1>r, <2>2
  <1>3. ASSUME "server" \in held \ Forgotten PROVE "devmodel" \in held
    <2>1. Ladder[6] \in At(pc, seq) /\ Ladder[6] \notin Released
      BY <1>3, <1>a, <1>r
    <2>2. Ladder[4] \in At(pc, seq) \ Released
      BY <1>a, <2>1, BelowStays
    <2> QED
      BY <1>a, <1>r, <2>2
  <1>4. ASSUME bound # {} PROVE {"evtchn", "array"} \subseteq held
    <2>1. /\ seq >= 9 /\ ~(pc = "lower" /\ seq = 9)
          /\ \A c \in cut : ~(c.pc = "lower" /\ c.seq = 9)
      BY <1>4, <1>a, Zenon DEF UseInv
    <2>2. "array" \in HeldAt(seq) /\ \A c \in cut : "array" \in HeldAt(c.seq)
      BY <1>b, <1>c, <2>1, UsedRungs
    <2>3. Ladder[9] \in At(pc, seq)
      BY <1>b, <1>r, <2>1, <2>2, RungReleased
    <2>4. \A c \in cut : Ladder[9] \in At(c.pc, c.seq)
      BY <1>c, <1>r, <2>1, <2>2, RungReleased
    <2>5. Ladder[9] \notin Released
      BY <2>4 DEF Released
    <2>6. Ladder[2] \in At(pc, seq) \ Released
      BY <1>a, <2>3, <2>5, BelowStays
    <2> QED
      BY <1>a, <1>r, <2>3, <2>5, <2>6
  <1>5. ASSUME pc \in Polling PROVE {"iopage", "evtchn", "blk"} \subseteq held
    <2>1. seq = 12 /\ cut = {} /\ At(pc, seq) = HeldAt(seq)
      BY <1>5, <1>a, <1>b, SMT DEF PlaceInv, OnRung, Serving, Polling, At
    <2>2. Released = {}
      BY <2>1 DEF Released
    <2> QED
      BY <1>a, <2>1, <2>2, UsedRungs
  <1> QED
    BY <1>1, <1>2, <1>3, <1>4, <1>5, Zenon DEF NothingDangles

\* What a step that kills the process has been doing.
LEMMA CrashCause ==
    ASSUME TypeOK, StepInv, HandleInv, crash
    PROVE  Released # {} \/ JoinCut
  <1>a. pc # "crashed"
    BY DEF crash
  <1>b. held \ {"orphans"} = (At(pc, seq) \ Released) \cup Forgotten /\ OnRung(pc, seq)
    BY <1>a DEF HandleInv, HandlesMatchSeq, PlaceInv
  <1>c. ASSUME NEW h, h # "orphans", h \in At(pc, seq), h \notin held PROVE Released # {}
    BY <1>b, <1>c
  <1>1. CASE pc = "release" /\ seq \in DOMAIN Ladder
                /\ Ladder[seq] \notin held \cup {"xenstore", "server", "enabled"}
    <2>1. seq \in 1 .. 9
      BY <1>1 DEF Ladder
    <2>2. Ladder[seq] \in HeldAt(seq) /\ Ladder[seq] # "orphans"
      BY <2>1, LadderRungs
    <2>3. At(pc, seq) = HeldAt(seq)
      BY <1>1 DEF At
    <2> QED
      BY <1>1, <1>c, <2>2, <2>3
  <1>2. CASE pc \in {"unlist", "free"} /\ "kvm" \notin held
    <2>1. seq = 11 /\ "kvm" \in HeldAt(11)
      BY <1>b, <1>2, UsedRungs, SMT DEF OnRung, Undoing
    <2>2. "kvm" \in At(pc, seq)
      BY <1>2, <2>1, SMT DEF At
    <2> QED
      BY <1>2, <1>c, <2>2
  <1>3. CASE pc = "close" /\ "disks" \notin held
    <2>1. seq = 11 /\ "disks" \in HeldAt(11)
      BY <1>b, <1>3, UsedRungs, SMT DEF OnRung, Undoing
    <2>2. "disks" \in At(pc, seq)
      BY <1>3, <2>1, SMT DEF At
    <2> QED
      BY <1>3, <1>c, <2>2
  <1>4. CASE pc = "join" /\ \E c \in cut : c.pc = "reset"
    BY <1>4 DEF JoinCut
  <1>5. CASE pc = "destroy" /\ "xsdev" \notin held
    <2>1. seq = 0 /\ "xsdev" \in HeldAt(0)
      BY <1>b, <1>5, UsedRungs, SMT DEF OnRung
    <2>2. "xsdev" \in At(pc, seq)
      BY <1>5, <2>1, SMT DEF At
    <2> QED
      BY <1>5, <1>c, <2>2
  <1>6. CASE io # "none" /\ ~(IoUses \subseteq held)
    <2>1. NothingDangles
      BY <1>a, NothingDanglesAlive
    <2> QED
      BY <1>6, <2>1 DEF NothingDangles
  <1> QED
    BY <1>1, <1>2, <1>3, <1>4, <1>5, <1>6, Zenon DEF crash

\* With what it leaves once it is dead.
DeadInv == NothingDangles /\ (pc = "crashed" => io = "none")

LEMMA NextDeadInv == TypeOK /\ StepInv /\ HandleInv /\ DeadInv /\ [Next]_vars => DeadInv'
  <1>0. (TypeOK /\ StepInv /\ HandleInv /\ pc # "crashed" => NothingDangles)'
    BY NothingDanglesAlive, PTL
  <1> SUFFICES ASSUME TypeOK, StepInv, HandleInv, DeadInv, [Next]_vars PROVE DeadInv'
    OBVIOUS
  <1>1. TypeOK' /\ StepInv' /\ HandleInv'
    BY NextTypeOK, NextHandleInv
  <1>2. CASE pc' # "crashed"
    <2>1. NothingDangles'
      BY <1>0, <1>1, <1>2
    <2> QED
      BY <1>2, <2>1 DEF DeadInv
  <1>3. CASE pc' = "crashed"
    <2>1. CASE pc = "crashed"
      <3>1. UNCHANGED <<pc, cut, held, bound>> /\ io' \in {io, "none"}
        <4>1. CASE Main
          BY <2>1, <4>1, Zenon DEF Main, acquire, device_initialize, disk_image__init, virtio_blk__init,
             init_fail, seq_next, bind, select, demu_poll_iopages, demu_poll_shared_iopage,
             demu_handle_ioreq, queue_reset, respond, notify, poll_watches, release, lower, torn_down,
             exit, device_teardown, virtio_blk__exit, exit_vq, join, disk_image__exit, free_kvm
        <4>2. ASSUME NEW s \in Signals, demu_sigterm(s) PROVE FALSE
          BY <2>1, <4>2 DEF demu_sigterm
        <4>3. ASSUME NEW v \in Vcpus, vcpu_ready(v) \/ Vcpu(v) \/ UNCHANGED vars
              PROVE  UNCHANGED <<pc, cut, held, bound>> /\ io' \in {io, "none"}
          BY <4>3, Zenon DEF vcpu_ready, Vcpu, vcpu_send, vcpu_wake, mainVars, vars, sigVars, devVars
        <4>4. CASE guest_found \/ select_error \/ crash
          BY <2>1, <4>4, Zenon DEF guest_found, select_error, crash
        <4>5. CASE xenstore_event \/ io_end
          BY <4>5, Zenon DEF xenstore_event, io_end, mainVars, sigVars, devVars
        <4>6. \E v \in Vcpus : TRUE
          BY DemuAssumption
        <4> QED
          BY <4>1, <4>2, <4>3, <4>4, <4>5, <4>6, Zenon DEF Next
      <3>2. Forgotten' = Forgotten /\ Released' = Released /\ (JoinCut' <=> JoinCut)
        BY <3>1, Zenon DEF Forgotten, Released, JoinCut, At, HeldAt
      <3> QED
        BY <2>1, <3>1, <3>2, Zenon DEF DeadInv, NothingDangles
    <2>2. CASE pc # "crashed"
      <3>1. crash
        <4>1. ASSUME Main PROVE FALSE
          BY <1>3, <4>1, Zenon DEF Main, acquire, device_initialize, disk_image__init, virtio_blk__init,
             init_fail, seq_next, bind, select, demu_poll_iopages, demu_poll_shared_iopage,
             demu_handle_ioreq, queue_reset, respond, notify, poll_watches, release, lower, torn_down,
             exit, device_teardown, virtio_blk__exit, exit_vq, join, disk_image__exit, free_kvm,
             AfterPoll
        <4>2. ASSUME NEW s \in Signals, demu_sigterm(s) PROVE FALSE
          BY <1>3, <4>2 DEF demu_sigterm
        <4>3. ASSUME NEW v \in Vcpus, vcpu_ready(v) \/ Vcpu(v) \/ UNCHANGED vars PROVE FALSE
          BY <1>3, <2>2, <4>3, Zenon DEF vcpu_ready, Vcpu, vcpu_send, vcpu_wake, mainVars, vars
        <4>4. ASSUME guest_found \/ select_error \/ xenstore_event \/ io_end PROVE FALSE
          BY <1>3, <2>2, <4>4, Zenon DEF guest_found, select_error, xenstore_event, io_end, mainVars
        <4>6. \E v \in Vcpus : TRUE
          BY DemuAssumption
        <4> QED
          BY <4>1, <4>2, <4>3, <4>4, <4>6, Zenon DEF Next
      <3>2. UNCHANGED <<cut, held, bound>> /\ io' = "none"
        BY <3>1, Zenon DEF crash, sigVars
      <3>3. Forgotten' = Forgotten /\ Released' = Released /\ (JoinCut' <=> JoinCut)
        BY <3>2, Zenon DEF Forgotten, Released, JoinCut, At, HeldAt
      <3>4. Released # {} \/ JoinCut
        BY <3>1, CrashCause
      <3>5. pc' \notin Polling
        BY <1>3 DEF Polling
      <3> QED
        BY <3>2, <3>3, <3>4, <3>5, Zenon DEF DeadInv, NothingDangles
    <2> QED
      BY <2>1, <2>2
  <1> QED
    BY <1>2, <1>3

\* Nothing is given back that something still held, the loop of main or the I/O
\* thread uses, wherever signals arrive, unless one has cut off the join of the
\* thread; and only a handler that has interrupted a release kills the process.
THEOREM NothingUsedIsReleased == Safety => []NothingDangles
  <1>1. Init => DeadInv
    <2> SUFFICES ASSUME Init PROVE DeadInv
      OBVIOUS
    <2>1. pc = "wait" /\ io = "none"
      BY DEF Init
    <2> QED
      BY <2>1, InitTypeOK, InitHandleInv, NothingDanglesAlive DEF DeadInv
  <1>2. TypeOK /\ StepInv /\ HandleInv /\ [Next]_vars => HandleInv'
    BY NextHandleInv
  <1>3. DeadInv => NothingDangles
    BY DEF DeadInv
  <1> QED
    BY <1>1, <1>2, <1>3, InitTypeOK, NextTypeOK, InitHandleInv, NextDeadInv, PTL DEF Safety

=============================================================================
