-------------------------------- MODULE Demu --------------------------------
(***************************************************************************)
(* The main thread of the process (demu.c, device.c, util/init.c): it waits *)
(* for a guest, acquires what serving it needs step by step while          *)
(* demu_state.seq counts the steps, serves the ioreqs of the guest's vCPUs *)
(* one event at a time, and releases everything in the opposite order,     *)
(* from wherever the ladder stopped.  A signal handler runs the same       *)
(* release on top of any of these steps, those of a release included, and  *)
(* exits.                                                                  *)
(*                                                                         *)
(* External: Xen (event channels, the IOREQ server, the vCPUs), the        *)
(* toolstack, and /dev/xen/evtchn, which masks a port when it queues it    *)
(* for the reader and sends it again on unmask when it fired meanwhile.    *)
(***************************************************************************)
EXTENDS Integers, Sequences, FiniteSets

CONSTANTS
    Vcpus,          \* the guest's vCPUs; each has one ioreq slot and one port
    None,           \* no vCPU
    Signals,        \* the signals demu_sigterm handles, each blocked while it does
    MayFail         \* acquisition steps may fail

\* demu_seq_t
UNINITIALIZED == 0
XENSTORE_ATTACHED == 1
XENEVTCHN_OPEN == 2
XENFOREIGNMEMORY_OPEN == 3
XENDEVICEMODEL_OPEN == 4
XENGNTTAB_OPEN == 5
SERVER_REGISTERED == 6
RESOURCE_MAPPED == 7
SERVER_ENABLED == 8
PORT_ARRAY_ALLOCATED == 9
PORTS_BOUND == 10
DEVICE_INITIALIZED == 11
INITIALIZED == 12

\* What the steps up to PORT_ARRAY_ALLOCATED acquire, one thing each.
Ladder == <<"xenstore", "evtchn", "fmem", "devmodel", "gnttab", "server", "iopage",
            "enabled", "array">>
\* What device_initialize sets up: struct kvm, and what the items of init_lists
\* do, disk_image__init and virtio_blk__init.
DeviceItems == {"kvm", "disks", "blk"}
\* Besides, the xenstore instance and the images of a failed device_initialize.
Handles == {Ladder[k] : k \in DOMAIN Ladder} \cup DeviceItems \cup {"xsdev", "orphans"}

Starting == {"acquire", "images", "devices", "next"}
Polling == {"pending", "page", "handle", "reset", "respond", "notify"}
Serving == {"select", "watches"} \cup Polling
Undoing == {"unlist", "stop", "join", "close", "free", "null"}
Pcs == {"wait", "release", "lower", "destroy", "exit", "exited", "crashed"}
            \cup Starting \cup Serving \cup Undoing

ASSUME DemuAssumption ==
    /\ IsFiniteSet(Vcpus) /\ Vcpus # {} /\ None \notin Vcpus
    /\ MayFail \in BOOLEAN

VARIABLES
    seq,        \* demu_state.seq
    pc,         \* where the main thread is
    exiting,    \* the release under way ends the process
    caught,     \* the signals whose handler has begun
    cut,        \* where it has stopped the main thread, under the running handler
    held,       \* handles the process has and has not given back
    kvm,        \* the pointer is not NULL
    listed,     \* the device is on the list bdevs
    queue,      \* its queue is enabled
    io,         \* its I/O thread: "none", "running", "told" to end
    bound,      \* vCPUs whose port is bound (ioreq_local_port)
    cur,        \* the vCPU whose page is being polled
    xready,     \* select reported the xenstore fd
    watch,      \* xenstore watch event: "none", "benign", "gone"
    masked, again, fdq,     \* /dev/xen/evtchn: masked ports, ports that fired while
                            \* masked, ports to read
    req,        \* vcpu_ioreq[v].state
    vpc, woken  \* what each vCPU is doing; Xen's pending bit for the emulator's answer

sigVars == <<exiting, caught, cut>>
devVars == <<kvm, listed, queue, io>>
mainVars == <<seq, pc, sigVars, held, devVars, bound, cur, xready>>
evtVars == <<masked, again, fdq>>
vcpuVars == <<req, vpc, woken>>
vars == <<mainVars, watch, evtVars, vcpuVars>>

Init ==
    /\ seq = UNINITIALIZED /\ pc = "wait" /\ exiting = FALSE /\ caught = {} /\ cut = {}
    /\ held = {"xsdev"} /\ bound = {} /\ cur = None /\ xready = FALSE
    /\ kvm = FALSE /\ listed = FALSE /\ queue = FALSE /\ io = "none"
    /\ watch = "none"
    /\ masked = {} /\ again = {} /\ fdq = <<>>
    /\ req = [v \in Vcpus |-> "none"] /\ vpc = [v \in Vcpus |-> "run"] /\ woken = {}

-----------------------------------------------------------------------------
(* Event channels                                                          *)

\* Xen raises the local port of v.
Raised(v) ==
    IF v \in masked
    THEN again' = again \cup {v} /\ UNCHANGED <<masked, fdq>>
    ELSE fdq' = Append(fdq, v) /\ masked' = masked \cup {v} /\ UNCHANGED again

-----------------------------------------------------------------------------
(* The guest's vCPUs, in Xen                                               *)

\* An access Xen sends to the emulator: the ioreq becomes READY, ...
vcpu_ready(v) ==
    /\ {"server", "enabled"} \subseteq held
    /\ vpc[v] = "run"
    /\ req[v] = "none"
    /\ req' = [req EXCEPT ![v] = "ready"]
    /\ vpc' = [vpc EXCEPT ![v] = "send"]
    /\ UNCHANGED <<mainVars, watch, evtVars, woken>>

\* ... then Xen notifies the emulator and puts the vCPU to sleep.  A port the
\* emulator has not bound yet has nobody to notify.
vcpu_send(v) ==
    /\ vpc[v] = "send"
    /\ IF v \in bound THEN Raised(v) ELSE UNCHANGED evtVars
    /\ vpc' = [vpc EXCEPT ![v] = "asleep"]
    /\ UNCHANGED <<mainVars, watch, req, woken>>

\* Woken, the vCPU takes the answer or goes back to sleep.
vcpu_wake(v) ==
    /\ vpc[v] = "asleep"
    /\ v \in woken
    /\ woken' = woken \ {v}
    /\ IF req[v] = "resp"
       THEN req' = [req EXCEPT ![v] = "none"] /\ vpc' = [vpc EXCEPT ![v] = "run"]
       ELSE UNCHANGED <<req, vpc>>
    /\ UNCHANGED <<mainVars, watch, evtVars>>

-----------------------------------------------------------------------------
(* demu_initialize                                                         *)

\* xenstore_wait_fe_domid: the toolstack has created a backend for a guest.
guest_found ==
    /\ pc = "wait"
    /\ pc' = "acquire"
    /\ watch' = "none"
    /\ UNCHANGED <<seq, sigVars, held, devVars, bound, cur, xready, evtVars, vcpuVars>>

\* A step that takes one handle.
acquire ==
    /\ pc = "acquire"
    /\ seq < PORT_ARRAY_ALLOCATED
    /\ held' = held \cup {Ladder[seq + 1]}
    /\ pc' = "next"
    /\ UNCHANGED <<seq, sigVars, devVars, bound, cur, xready, watch, evtVars, vcpuVars>>

\* xenevtchn_bind_interdomain, once per vCPU.  Xen sets the new port pending,
\* as it may have lost notifications to the unbound one.
bind(v) ==
    /\ pc = "acquire" /\ seq = PORT_ARRAY_ALLOCATED
    /\ v \notin bound
    /\ bound' = bound \cup {v}
    /\ Raised(v)
    /\ pc' = IF bound' = Vcpus THEN "next" ELSE "acquire"
    /\ UNCHANGED <<seq, sigVars, held, devVars, cur, xready, watch, vcpuVars>>

\* device_initialize allocates struct kvm, then init_list__init runs the init
\* items by priority: the disk images ...
device_initialize ==
    /\ pc = "acquire" /\ seq = PORTS_BOUND
    /\ held' = held \cup {"kvm"} /\ kvm' = TRUE
    /\ pc' = "images"
    /\ UNCHANGED <<seq, sigVars, listed, queue, io, bound, cur, xready, watch, evtVars, vcpuVars>>

disk_image__init ==
    /\ pc = "images"
    /\ held' = held \cup {"disks"}
    /\ pc' = "devices"
    /\ UNCHANGED <<seq, sigVars, devVars, bound, cur, xready, watch, evtVars, vcpuVars>>

\* ... then their virtio-blk devices.
virtio_blk__init ==
    /\ pc = "devices"
    /\ held' = held \cup {"blk"} /\ listed' = TRUE
    /\ pc' = "next"
    /\ UNCHANGED <<seq, sigVars, kvm, queue, io, bound, cur, xready, watch, evtVars, vcpuVars>>

\* Any of these may fail: demu_initialize returns -1 and main tears down.  An item
\* that fails undoes itself and struct kvm is freed, but nothing closes the disk
\* images when virtio_blk__init fails.
init_fail ==
    /\ MayFail
    /\ pc \in {"acquire", "images", "devices"}
    /\ pc' = "release"
    /\ held' = CASE pc = "acquire" -> held
                 [] pc = "images" -> held \ {"kvm"}
                 [] pc = "devices" -> (held \ {"kvm", "disks"}) \cup {"orphans"}
    /\ kvm' = (kvm /\ ~(pc = "acquire" /\ seq = PORTS_BOUND))
    /\ UNCHANGED <<seq, sigVars, listed, queue, io, bound, cur, xready, watch, evtVars, vcpuVars>>

\* mutant: a third call after device_initialize
seq_next_again ==
    /\ pc = "next"
    /\ seq' = IF seq = PORTS_BOUND THEN INITIALIZED + 1 ELSE seq + 1
    /\ pc' = IF seq = PORTS_BOUND THEN "select" ELSE "acquire"
    /\ UNCHANGED <<sigVars, held, devVars, bound, cur, xready, watch, evtVars, vcpuVars>>

\* demu_seq_next; twice after device_initialize.
seq_next ==
    /\ pc = "next"
    /\ seq' = IF seq = PORTS_BOUND THEN INITIALIZED ELSE seq + 1
    /\ pc' = IF seq = PORTS_BOUND THEN "select" ELSE "acquire"
    /\ UNCHANGED <<sigVars, held, devVars, bound, cur, xready, watch, evtVars, vcpuVars>>

-----------------------------------------------------------------------------
(* The loop of main                                                        *)

\* select: sleeps until a port can be read or a watch has fired.
select ==
    /\ pc = "select"
    /\ fdq # <<>> \/ watch # "none"
    /\ xready' = (watch # "none")
    /\ pc' = IF fdq # <<>> THEN "pending" ELSE "watches"
    /\ UNCHANGED <<seq, sigVars, held, devVars, bound, cur, watch, evtVars, vcpuVars>>

\* select fails: teardown, then the process ends.
select_error ==
    /\ MayFail
    /\ pc = "select"
    /\ pc' = "release" /\ exiting' = TRUE
    /\ UNCHANGED <<seq, caught, cut, held, devVars, bound, cur, xready, watch, evtVars, vcpuVars>>

AfterPoll == IF xready THEN "watches" ELSE "select"

\* mutant: the port stays masked
poll_masked ==
    /\ pc = "pending"
    /\ cur' = Head(fdq)
    /\ pc' = "page"
    /\ fdq' = Tail(fdq)
    /\ UNCHANGED <<seq, sigVars, held, devVars, bound, xready, watch, masked, again, vcpuVars>>

\* demu_poll_iopages: read one port and unmask it, which queues it again if it
\* fired while it was masked.
demu_poll_iopages ==
    /\ pc = "pending"
    /\ LET v == Head(fdq)
       IN /\ cur' = v
          /\ fdq' = IF v \in again THEN Append(Tail(fdq), v) ELSE Tail(fdq)
          /\ masked' = IF v \in again THEN masked ELSE masked \ {v}
          /\ again' = again \ {v}
    /\ pc' = "page"
    /\ UNCHANGED <<seq, sigVars, held, devVars, bound, xready, watch, vcpuVars>>

\* demu_poll_shared_iopage: take a READY request, ignore anything else.
demu_poll_shared_iopage ==
    /\ pc = "page"
    /\ IF seq = INITIALIZED /\ req[cur] = "ready"
       THEN /\ req' = [req EXCEPT ![cur] = "inprocess"]
            /\ pc' = "handle"
       ELSE /\ pc' = AfterPoll
            /\ UNCHANGED req
    /\ UNCHANGED <<seq, sigVars, held, devVars, bound, cur, xready, watch, evtVars, vpc, woken>>

\* demu_handle_ioreq: the device's MMIO callback, or nothing for an address no
\* space claims and for a request that is no copy.  QUEUE_READY makes the queue
\* and starts its I/O thread, ...
demu_handle_ioreq ==
    /\ pc = "handle"
    /\ \/ pc' = "respond" /\ UNCHANGED devVars
       \/ /\ ~queue
          /\ queue' = TRUE /\ io' = "running"
          /\ pc' = "respond"
          /\ UNCHANGED <<kvm, listed>>
       \/ /\ queue
          /\ io' = "told"
          /\ pc' = "reset"
          /\ UNCHANGED <<kvm, listed, queue>>
    /\ UNCHANGED <<seq, sigVars, held, bound, cur, xready, watch, evtVars, vcpuVars>>

\* ... and a reset joins the thread before the queue is cleared.
queue_reset ==
    /\ pc = "reset"
    /\ io = "none"
    /\ queue' = FALSE
    /\ pc' = "respond"
    /\ UNCHANGED <<seq, sigVars, held, kvm, listed, io, bound, cur, xready, watch, evtVars, vcpuVars>>

respond ==
    /\ pc = "respond"
    /\ req' = [req EXCEPT ![cur] = "resp"]
    /\ pc' = "notify"
    /\ UNCHANGED <<seq, sigVars, held, devVars, bound, cur, xready, watch, evtVars, vpc, woken>>

\* xenevtchn_notify
notify ==
    /\ pc = "notify"
    /\ woken' = woken \cup {cur}
    /\ cur' = None
    /\ pc' = AfterPoll
    /\ UNCHANGED <<seq, sigVars, held, devVars, bound, xready, watch, evtVars, req, vpc>>

\* mutant: the result of poll_watches is ignored
poll_watches_dropped ==
    /\ pc = "watches"
    /\ pc' = "select"
    /\ watch' = "none" /\ xready' = FALSE
    /\ UNCHANGED <<seq, sigVars, held, devVars, bound, cur, evtVars, vcpuVars>>

\* xenstore_poll_watches: the guest is gone, or it was nothing.
poll_watches ==
    /\ pc = "watches"
    /\ pc' = IF watch = "gone" THEN "release" ELSE "select"
    /\ watch' = "none" /\ xready' = FALSE
    /\ UNCHANGED <<seq, sigVars, held, devVars, bound, cur, evtVars, vcpuVars>>

\* The toolstack touches or removes a watched node; during a release nobody reads
\* the event.
xenstore_event ==
    /\ pc \in Starting \cup Serving /\ seq >= XENSTORE_ATTACHED
    /\ \/ watch = "none" /\ watch' = "benign"
       \/ watch # "gone" /\ watch' = "gone"
    /\ UNCHANGED <<mainVars, evtVars, vcpuVars>>
-----------------------------------------------------------------------------
(* demu_teardown                                                           *)

\* Releasing the server frees the vCPUs that wait for an answer.
Freed ==
    /\ req' = [v \in Vcpus |-> "none"] /\ vpc' = [v \in Vcpus |-> "run"] /\ woken' = {}

\* One rung but the devices': give back what the rung stands for (unbinding
\* closes every port, with what was queued for it) ...
release ==
    /\ pc = "release" /\ seq \notin {UNINITIALIZED, DEVICE_INITIALIZED}
    /\ CASE seq \in {INITIALIZED, PORTS_BOUND} -> UNCHANGED <<held, bound, evtVars, vcpuVars>>
         [] seq = PORT_ARRAY_ALLOCATED ->
                /\ bound' = {} /\ held' = held \ {"array"}
                /\ masked' = {} /\ again' = {} /\ fdq' = <<>>
                /\ UNCHANGED vcpuVars
         [] seq = SERVER_REGISTERED ->
                held' = held \ {"server"} /\ Freed /\ UNCHANGED <<bound, evtVars>>
         [] OTHER -> held' = held \ {Ladder[seq]} /\ UNCHANGED <<bound, evtVars, vcpuVars>>
    /\ pc' = "lower"
    /\ UNCHANGED <<seq, sigVars, devVars, cur, xready, watch>>

\* The devices' rung is device_teardown, which runs the exit items in reverse.
\* virtio_blk__exit takes a device off the list, ...
device_teardown ==
    /\ pc = "release" /\ seq = DEVICE_INITIALIZED
    /\ pc' = IF kvm THEN "unlist" ELSE "lower"
    /\ UNCHANGED <<seq, sigVars, held, devVars, bound, cur, xready, watch, evtVars, vcpuVars>>

virtio_blk__exit ==
    /\ pc = "unlist"
    /\ listed' = FALSE
    /\ pc' = IF listed THEN "stop" ELSE "close"
    /\ UNCHANGED <<seq, sigVars, held, kvm, queue, io, bound, cur, xready, watch, evtVars, vcpuVars>>

\* ... tells its I/O thread, if the queue is enabled, to end and wakes it, ...
exit_vq ==
    /\ pc = "stop"
    /\ IF queue
       THEN /\ io' = IF io = "none" THEN "none" ELSE "told"
            /\ pc' = "join"
            /\ UNCHANGED held
       ELSE /\ held' = held \ {"blk"}
            /\ pc' = "close"
            /\ UNCHANGED io
    /\ UNCHANGED <<seq, sigVars, kvm, listed, queue, bound, cur, xready, watch, evtVars, vcpuVars>>

\* mutant: exit_vq does not join the I/O thread
join_no_wait ==
    /\ pc = "join"
    /\ queue' = FALSE
    /\ held' = held \ {"blk"}
    /\ pc' = "close"
    /\ UNCHANGED <<seq, sigVars, kvm, listed, io, bound, cur, xready, watch, evtVars, vcpuVars>>

\* ... joins it and frees the device.  A thread that an interrupted reset is
\* joining already cannot be joined: the call returns at once.
join ==
    /\ pc = "join"
    /\ io = "none" \/ \E c \in cut : c.pc = "reset"
    /\ queue' = FALSE
    /\ held' = held \ {"blk"}
    /\ pc' = "close"
    /\ UNCHANGED <<seq, sigVars, kvm, listed, io, bound, cur, xready, watch, evtVars, vcpuVars>>

\* Then disk_image__exit closes the images, and struct kvm is freed and forgotten.
disk_image__exit ==
    /\ pc = "close"
    /\ held' = held \ {"disks"}
    /\ pc' = "free"
    /\ UNCHANGED <<seq, sigVars, devVars, bound, cur, xready, watch, evtVars, vcpuVars>>

free_kvm ==
    /\ \/ /\ pc = "free"
          /\ held' = held \ {"kvm"}
          /\ pc' = "null"
          /\ UNCHANGED kvm
       \/ /\ pc = "null"
          /\ kvm' = FALSE
          /\ pc' = "lower"
          /\ UNCHANGED held
    /\ UNCHANGED <<seq, sigVars, listed, queue, io, bound, cur, xready, watch, evtVars, vcpuVars>>

\* mutant: a server that was not enabled is not destroyed
lower_skips ==
    /\ pc = "lower"
    /\ seq' = IF seq = RESOURCE_MAPPED THEN XENGNTTAB_OPEN ELSE seq - 1
    /\ pc' = "release"
    /\ UNCHANGED <<sigVars, held, devVars, bound, cur, xready, watch, evtVars, vcpuVars>>

\* ... then step down.
lower ==
    /\ pc = "lower"
    /\ seq' = seq - 1
    /\ pc' = "release"
    /\ UNCHANGED <<sigVars, held, devVars, bound, cur, xready, watch, evtVars, vcpuVars>>

\* Everything is released: look for the next guest, or give back the xenstore
\* instance ...
torn_down ==
    /\ pc = "release" /\ seq = UNINITIALIZED
    /\ pc' = IF exiting THEN "destroy" ELSE "wait"
    /\ cur' = None /\ xready' = FALSE
    /\ UNCHANGED <<seq, sigVars, held, devVars, bound, watch, evtVars, vcpuVars>>

\* ... and exit, which ends the I/O thread too.
exit ==
    /\ \/ /\ pc = "destroy"
          /\ held' = held \ {"xsdev"}
          /\ pc' = "exit"
          /\ UNCHANGED io
       \/ /\ pc = "exit"
          /\ pc' = "exited" /\ io' = "none"
          /\ UNCHANGED held
    /\ UNCHANGED <<seq, sigVars, kvm, listed, queue, bound, cur, xready, watch, evtVars, vcpuVars>>

\* demu_sigterm, on top of whatever the main thread was doing, another handler
\* included; it does not return.
demu_sigterm(s) ==
    /\ pc \notin {"exited", "crashed"}
    /\ s \notin caught
    /\ caught' = caught \cup {s}
    /\ cut' = cut \cup {[pc |-> pc, seq |-> seq]}
    /\ exiting' = TRUE
    /\ pc' = "release"
    /\ cur' = None /\ xready' = FALSE
    /\ UNCHANGED <<seq, held, devVars, bound, watch, evtVars, vcpuVars>>

-----------------------------------------------------------------------------
(* The I/O thread                                                          *)

\* It ends when it sees io_done.
io_end ==
    /\ io = "told"
    /\ io' = "none"
    /\ UNCHANGED <<seq, pc, sigVars, held, kvm, listed, queue, bound, cur, xready>>
    /\ UNCHANGED <<watch, evtVars, vcpuVars>>

\* What it maps memory, raises interrupts and reads the disk with.
IoUses == {"blk", "disks", "fmem", "gnttab", "devmodel"}

\* Undefined behaviour: what is given back has been given back before (the calls
\* at the other rungs only fail then), a thread is joined twice, or it uses what
\* is gone.  The process may go on, as above, or die.
crash ==
    /\ pc \notin {"exited", "crashed"}
    /\ \/ /\ pc = "release" /\ seq \in DOMAIN Ladder
          /\ Ladder[seq] \notin held \cup {"xenstore", "server", "enabled"}
       \/ pc \in {"unlist", "free"} /\ "kvm" \notin held
       \/ pc = "close" /\ "disks" \notin held
       \/ pc = "join" /\ \E c \in cut : c.pc = "reset"
       \/ pc = "destroy" /\ "xsdev" \notin held
       \/ io # "none" /\ ~(IoUses \subseteq held)
    /\ pc' = "crashed" /\ io' = "none"
    /\ UNCHANGED <<seq, sigVars, held, kvm, listed, queue, bound, cur, xready>>
    /\ UNCHANGED <<watch, evtVars, vcpuVars>>

-----------------------------------------------------------------------------
Main ==
    \/ acquire \/ device_initialize \/ disk_image__init \/ virtio_blk__init \/ init_fail
    \/ seq_next
    \/ \E v \in Vcpus : bind(v)
    \/ select \/ demu_poll_iopages \/ demu_poll_shared_iopage \/ demu_handle_ioreq
    \/ queue_reset \/ respond \/ notify \/ poll_watches
    \/ release \/ lower \/ torn_down \/ exit
    \/ device_teardown \/ virtio_blk__exit \/ exit_vq \/ join \/ disk_image__exit \/ free_kvm

Vcpu(v) == vcpu_send(v) \/ vcpu_wake(v)

Next ==
    \/ guest_found \/ Main \/ select_error \/ xenstore_event \/ io_end \/ crash
    \/ \E s \in Signals : demu_sigterm(s)
    \/ \E v \in Vcpus : vcpu_ready(v) \/ Vcpu(v)

\* The threads are scheduled and Xen finishes what it began; guests, failures,
\* signals and watch events come or do not.
Fairness == WF_vars(Main) /\ WF_vars(io_end) /\ \A v \in Vcpus : WF_vars(Vcpu(v))

Safety == Init /\ [][Next]_vars
Spec == Safety /\ Fairness
-----------------------------------------------------------------------------
(* Properties                                                              *)

TypeOK ==
    /\ seq \in UNINITIALIZED .. INITIALIZED
    /\ pc \in Pcs
    /\ exiting \in BOOLEAN /\ xready \in BOOLEAN
    /\ caught \in SUBSET Signals
    /\ cut \in SUBSET [pc : Pcs, seq : UNINITIALIZED .. INITIALIZED]
    /\ held \in SUBSET Handles
    /\ kvm \in BOOLEAN /\ listed \in BOOLEAN /\ queue \in BOOLEAN
    /\ io \in {"none", "running", "told"}
    /\ bound \in SUBSET Vcpus
    /\ cur \in Vcpus \cup {None}
    /\ watch \in {"none", "benign", "gone"}
    /\ masked \in SUBSET Vcpus /\ again \in SUBSET Vcpus /\ fdq \in Seq(Vcpus)
    /\ req \in [Vcpus -> {"none", "ready", "inprocess", "resp"}]
    /\ vpc \in [Vcpus -> {"run", "send", "asleep"}]
    /\ woken \in SUBSET Vcpus

\* The handles a rung of the ladder stands for.
HeldAt(n) ==
    {Ladder[k] : k \in {i \in DOMAIN Ladder : i <= n}}
        \cup (IF n >= DEVICE_INITIALIZED THEN DeviceItems ELSE {})
        \cup {"xsdev"}

\* The handles of a main thread that stands at control point p with s in seq:
\* between an acquisition and demu_seq_next, and between a release and the store
\* to seq, they are one step ahead of it.
At(p, s) ==
    CASE p = "next" -> HeldAt(s + 1)
      [] p = "lower" -> HeldAt(s - 1)
      [] p = "images" -> HeldAt(s) \cup {"kvm"}
      [] p = "devices" -> HeldAt(s) \cup {"kvm", "disks"}
      [] p = "close" -> HeldAt(s) \ {"blk"}
      [] p = "free" -> HeldAt(s) \ {"blk", "disks"}
      [] p = "null" -> HeldAt(s) \ DeviceItems
      [] p \in {"exit", "exited"} -> HeldAt(s) \ {"xsdev"}
      [] OTHER -> HeldAt(s)

\* What an interrupted step had taken and not counted, or a device it had taken off
\* the list and not freed: the handler knows nothing of it.
Forgotten ==
    (UNION {At(c.pc, c.seq) \ HeldAt(c.seq) : c \in cut})
        \cup (IF \E c \in cut : c.pc \in {"stop", "join"} THEN {"blk"} ELSE {})

\* What an interrupted step had given back and still counted: the handler does it again.
Released == UNION {HeldAt(c.seq) \ At(c.pc, c.seq) : c \in cut}

\* demu_state.seq and the place of the main thread tell exactly which handles the
\* process has, after every failure of demu_initialize and wherever signals
\* arrive, so that demu_teardown gives each back once.  What a handler forgets or
\* gives back twice is what the step it interrupts was about and no more.  Only
\* the disk images of a failed device_initialize are outside the count.
HandlesMatchSeq ==
    pc # "crashed" =>
        held \ {"orphans"} = (At(pc, seq) \ Released) \cup Forgotten

\* A handler has interrupted the end of the I/O thread, where nothing makes it
\* wait for the thread: virtio_blk__exit between list_del and the join, or a
\* reset that joins.
JoinCut == \E c \in cut : c.pc \in {"stop", "join", "reset"}

\* Nothing is released under something that uses it: the I/O thread maps guest
\* memory, raises interrupts and reads the disk until device_teardown has joined
\* it, unless a signal cuts that off; the page belongs to the server, the ports
\* to the event channel handle.  And the process dies only in a handler that has
\* interrupted a release.
NothingDangles ==
    /\ io # "none" => IoUses \subseteq held \/ JoinCut
    /\ "iopage" \in held \ Forgotten => {"fmem", "server"} \subseteq held
    /\ "server" \in held \ Forgotten => "devmodel" \in held
    /\ bound # {} => {"evtchn", "array"} \subseteq held
    /\ pc \in Polling => {"iopage", "evtchn", "blk"} \subseteq held
    /\ pc = "crashed" => Released # {} \/ JoinCut

\* Every access a vCPU waits on is answered, or its server is destroyed, unless
\* signals have brought the process down.
IoreqAnswered == \A v \in Vcpus : vpc[v] = "asleep" ~> (vpc[v] = "run" \/ pc = "crashed")

\* When the guest goes away the process releases what it has and looks for the
\* next one, or ends, however busy its vCPUs keep it.
GuestLetGo ==
    (watch = "gone" /\ seq = INITIALIZED) ~> (pc \in {"wait", "exited", "crashed"})
=============================================================================
