------------------------------ MODULE Xenstore ------------------------------
(***************************************************************************)
(* The Xenstore side of virtio-disk (xs_dev.c): finding the guest that     *)
(* wants a disk, connecting to it, noticing that it has gone, and closing  *)
(* the backend.  Demu has what the process does in between.  Every step is *)
(* one request to xenstored, which the toolstack's may come between.       *)
(***************************************************************************)
EXTENDS Naturals, Sequences

CONSTANT MaxDomid       \* bound: guests created; the ids of Xen go up

ASSUME XenstoreAssumption == MaxDomid \in Nat

VARIABLES
    \* Xenstore: the directories under backend/<type>, the guests whose device
    \* nodes are still being written, those with all of them, the state node of
    \* each backend, the last guest
    dirs, pending, full, be_state, newest,
    \* the connection: watches set, events not read yet
    watches, events,
    \* virtio-disk: its next step, the static curr_domid, the guest
    pc, curr_domid, domid

storeVars == <<dirs, pending, full, be_state, newest>>
vars == <<storeVars, watches, events, pc, curr_domid, domid>>

Domids == 1 .. MaxDomid
Absent == "absent"

\* Watches and their events: a change of the list of directories, another
\* change below, and changes of one guest's backend or frontend.
Path == [token |-> "path", domid |-> 0, exact |-> TRUE]
Below == [token |-> "path", domid |-> 0, exact |-> FALSE]
Be(d) == [token |-> "be", domid |-> d, exact |-> TRUE]
Fe(d) == [token |-> "fe", domid |-> d, exact |-> TRUE]

Init ==
    /\ dirs = {} /\ pending = {} /\ full = {} /\ newest = 0
    /\ be_state = [d \in Domids |-> Absent]
    /\ watches = {} /\ events = <<>>
    /\ pc = "watch" /\ curr_domid = 0 /\ domid = 0

-----------------------------------------------------------------------------
(* xenstored and the toolstack                                             *)

\* Every watch that matches a change gets an event, the writer's too; an event
\* stays when its watch is removed.
Fire(s) ==
    events' = events \o SelectSeq(s, LAMBDA e : [e EXCEPT !.exact = TRUE] \in watches)

\* A guest with a disk is created, ...
ts_create ==
    /\ newest < MaxDomid
    /\ newest' = newest + 1
    /\ dirs' = dirs \cup {newest'} /\ pending' = pending \cup {newest'}
    /\ Fire(<<Path>>)
    /\ UNCHANGED <<full, be_state, watches, pc, curr_domid, domid>>

\* ... its nodes are written, ...
ts_complete(d) ==
    /\ d \in pending
    /\ pending' = pending \ {d} /\ full' = full \cup {d}
    /\ be_state' = [be_state EXCEPT ![d] = "Initialising"]
    /\ Fire(<<Below>>)
    /\ UNCHANGED <<dirs, newest, watches, pc, curr_domid, domid>>

\* ... the disk is being detached, ...
ts_closing(d) ==
    /\ d \in full
    /\ be_state[d] \in {"Initialising", "InitWait"}
    /\ be_state' = [be_state EXCEPT ![d] = "Closing"]
    /\ Fire(<<Below, Be(d)>>)
    /\ UNCHANGED <<dirs, pending, full, newest, watches, pc, curr_domid, domid>>

\* ... and everything is removed.
ts_destroy(d) ==
    /\ d \in full
    /\ full' = full \ {d} /\ dirs' = dirs \ {d}
    /\ be_state' = [be_state EXCEPT ![d] = Absent]
    /\ Fire(<<Path, Be(d), Fe(d)>>)
    /\ UNCHANGED <<pending, newest, watches, pc, curr_domid, domid>>

\* xs_watch: the watch fires once when it is set.
xs_watch(e) == watches' = watches \cup {e} /\ events' = Append(events, e)

\* xs_read_watch takes the first event.
xs_read_watch == events # <<>> /\ events' = Tail(events)

\* xs_write of the backend's state; it creates what is missing.
set_be_state(state) ==
    /\ be_state' = [be_state EXCEPT ![domid] = state]
    /\ dirs' = dirs \cup {domid}
    /\ Fire(<<Be(domid)>>)

Goto(next) == pc' = next /\ UNCHANGED <<storeVars, watches, events, curr_domid, domid>>

-----------------------------------------------------------------------------
(* xenstore_wait_fe_domid                                                  *)

watch_path ==
    /\ pc = "watch"
    /\ xs_watch(Path)
    /\ pc' = "poll"
    /\ UNCHANGED <<storeVars, curr_domid, domid>>

\* mutant: the event is not compared with the path of the watch
poll_be_watch_frontend ==
    /\ pc = "poll"
    /\ xs_read_watch
    /\ pc' = IF Head(events) = Below THEN "directory" ELSE "poll"
    /\ UNCHANGED <<storeVars, watches, curr_domid, domid>>

\* xenstore_poll_be_watch: only a change of the list itself counts.
poll_be_watch ==
    /\ pc = "poll"
    /\ xs_read_watch
    /\ pc' = IF Head(events) = Path THEN "directory" ELSE "poll"
    /\ UNCHANGED <<storeVars, watches, curr_domid, domid>>

\* xenstore_get_fe_domid: the highest guest, if it is higher than all before.
get_fe_domid ==
    /\ pc = "directory"
    /\ dirs # {}
    /\ \E d \in dirs \cup {curr_domid} :
          (\A e \in dirs \cup {curr_domid} : e <= d) /\ curr_domid' = d
    /\ pc' = IF curr_domid' > curr_domid THEN "check" ELSE "poll"
    /\ UNCHANGED <<storeVars, watches, events, domid>>

\* Without directories the list is empty, or xs_directory fails and the wait
\* starts again from main.
no_directory ==
    /\ pc = "directory"
    /\ dirs = {}
    /\ \/ pc' = "poll" /\ UNCHANGED watches
       \/ pc' = "watch" /\ watches' = {}
    /\ UNCHANGED <<storeVars, events, curr_domid, domid>>

\* xenstore_check_fe_exists, at the end of its delay of 200 ms, wherever the
\* toolstack is by then: the list of the guest's devices.  It may not have one
\* yet; devid[0] of an empty list is no pointer, and reading a number there ends
\* the process or gives any device.
check_fe_directory ==
    /\ pc = "check"
    /\ \/ curr_domid \notin dirs /\ pc' = "poll"
       \/ curr_domid \in full /\ pc' = "check_fe"
       \/ curr_domid \in dirs \ full /\ pc' \in {"check_fe", "dead"}
    /\ UNCHANGED <<storeVars, watches, events, curr_domid, domid>>

\* ... and the frontend's node, which ends the wait or is never looked for again.
check_fe_exists ==
    /\ pc = "check_fe"
    /\ IF curr_domid \in full
       THEN domid' = curr_domid /\ watches' = {} /\ pc' = "read_be"
       ELSE pc' = "poll" /\ UNCHANGED <<domid, watches>>
    /\ UNCHANGED <<storeVars, events, curr_domid>>

-----------------------------------------------------------------------------
(* xenstore_connect_dom                                                    *)

read_be ==
    /\ pc = "read_be"
    /\ Goto(IF be_state[domid] = "Initialising" THEN "init_wait" ELSE "close")

init_wait ==
    /\ pc = "init_wait"
    /\ set_be_state("InitWait")
    /\ pc' = "read_fe"
    /\ UNCHANGED <<pending, full, newest, watches, curr_domid, domid>>

\* The frontend's path and its state, which stays Initialising: the guest
\* knows nothing of xenbus.
read_fe ==
    /\ pc = "read_fe"
    /\ Goto(IF domid \in full THEN "watch_be" ELSE "close")

watch_be ==
    /\ pc = "watch_be"
    /\ xs_watch(Be(domid))
    /\ pc' = "watch_fe"
    /\ UNCHANGED <<storeVars, curr_domid, domid>>

watch_fe ==
    /\ pc = "watch_fe"
    /\ xs_watch(Fe(domid))
    /\ pc' = "wait_be"
    /\ UNCHANGED <<storeVars, curr_domid, domid>>

\* mutant: a state that cannot be read is taken for one not written yet
wait_be_state_patient ==
    /\ pc = "wait_be"
    /\ be_state[domid] = "InitWait"
    /\ Goto("config")

\* xenstore_wait_be_state: read the state; when it is not the one awaited take
\* an event, whatever it is, and read again.
wait_be_state ==
    /\ pc = "wait_be"
    /\ be_state[domid] \in {Absent, "InitWait"}
    /\ Goto(IF be_state[domid] = "InitWait" THEN "config" ELSE "close")

wait_be_again ==
    /\ pc = "wait_be"
    /\ be_state[domid] \notin {Absent, "InitWait"}
    /\ xs_read_watch
    /\ UNCHANGED <<storeVars, watches, pc, curr_domid, domid>>

\* demu_read_xenstore_config
read_config ==
    /\ pc = "config"
    /\ Goto(IF domid \in full THEN "connected" ELSE "close")

-----------------------------------------------------------------------------
(* Connected                                                               *)

\* mutant: a closing backend ends the connection
poll_watches_closing ==
    /\ pc = "connected"
    /\ xs_read_watch
    /\ pc' = IF \/ Head(events) = Be(domid) /\ be_state[domid] \in {Absent, "Closing"}
                \/ Head(events) = Fe(domid) /\ domid \notin full
             THEN "close" ELSE "connected"
    /\ UNCHANGED <<storeVars, watches, curr_domid, domid>>

\* mutant: the backend is looked at for Closing, and not for being gone
poll_watches_gone_missed ==
    /\ pc = "connected"
    /\ xs_read_watch
    /\ pc' = IF Head(events) \in {Be(domid), Fe(domid)} /\ be_state[domid] = "Closing"
             THEN "close" ELSE "connected"
    /\ UNCHANGED <<storeVars, watches, curr_domid, domid>>

\* xenstore_poll_watches: an event of this guest's backend or frontend, and its
\* state cannot be read any more.
poll_watches ==
    /\ pc = "connected"
    /\ xs_read_watch
    /\ pc' = IF \/ Head(events) = Be(domid) /\ be_state[domid] = Absent
                \/ Head(events) = Fe(domid) /\ domid \notin full
             THEN "close" ELSE "connected"
    /\ UNCHANGED <<storeVars, watches, curr_domid, domid>>

\* xenstore_disconnect_dom: Closed, which creates the node anew if the
\* toolstack has removed it, ...
set_closed ==
    /\ pc = "close"
    /\ set_be_state("Closed")
    /\ pc' = "remove"
    /\ UNCHANGED <<pending, full, newest, watches, curr_domid, domid>>

\* mutant: the guest's directory goes with the nodes of the one device
disconnect_rm_directory ==
    /\ pc = "remove"
    /\ watches' = {}
    /\ be_state' = [be_state EXCEPT ![domid] = Absent]
    /\ dirs' = dirs \ {domid}
    /\ pc' = "watch"
    /\ UNCHANGED <<pending, full, newest, events, curr_domid, domid>>

\* ... then the watches and the backend's nodes are removed, and main waits for
\* the next guest.
disconnect ==
    /\ pc = "remove"
    /\ watches' = {}
    /\ be_state' = [be_state EXCEPT ![domid] = Absent]
    /\ pc' = "watch"
    /\ UNCHANGED <<dirs, pending, full, newest, events, curr_domid, domid>>

-----------------------------------------------------------------------------
Find ==
    \/ watch_path \/ poll_be_watch \/ get_fe_domid \/ no_directory
    \/ check_fe_directory \/ check_fe_exists
Connect ==
    \/ read_be \/ init_wait \/ read_fe \/ watch_be \/ watch_fe
    \/ wait_be_state \/ wait_be_again \/ read_config
Leave == poll_watches \/ set_closed \/ disconnect

Toolstack == ts_create \/ \E d \in Domids : ts_complete(d) \/ ts_closing(d) \/ ts_destroy(d)

Next == Find \/ Connect \/ Leave \/ Toolstack

\* virtio-disk runs; the toolstack finishes what it has begun, writing the
\* nodes of a guest and removing a disk that is being detached.
Fairness ==
    /\ WF_vars(Find \/ Connect \/ Leave)
    /\ \A d \in Domids :
        WF_vars(ts_complete(d)) /\ WF_vars(be_state[d] = "Closing" /\ ts_destroy(d))

Safety == Init /\ [][Next]_vars
Spec == Safety /\ Fairness
-----------------------------------------------------------------------------
(* Properties                                                              *)

Searching == {"watch", "poll", "directory", "check", "check_fe", "dead"}
Connecting == {"read_be", "init_wait", "read_fe", "watch_be", "watch_fe", "wait_be", "config"}

TypeOK ==
    /\ dirs \subseteq Domids /\ pending \subseteq dirs \ full /\ full \subseteq dirs
    /\ be_state \in [Domids -> {Absent, "Initialising", "InitWait", "Closing", "Closed"}]
    /\ newest \in 0 .. MaxDomid
    /\ watches \subseteq {Path} \cup {Be(d) : d \in Domids} \cup {Fe(d) : d \in Domids}
    /\ pc \in Searching \cup Connecting \cup {"connected", "close", "remove"}
    /\ curr_domid \in 0 .. newest /\ domid \in 0 .. curr_domid

\* A connected guest is only let go when it is gone: not for an event left over
\* from an earlier guest, nor for a backend that is only closing.
KeptWhileThere == [][pc = "connected" /\ pc' = "close" => domid \notin full]_vars

\* A guest that goes away is let go, whenever it goes: also when its events were
\* taken while the backend's state was awaited.
GuestLeft == pc = "connected" /\ domid \notin full ~> pc = "watch"

\* Connecting ends, one way or the other.
ConnectEnds == pc = "read_be" ~> pc \in {"connected", "watch"}

\* The newest guest is found when its nodes are there by the time it is looked at,
\* whether it comes while virtio-disk waits, while it is busy with another guest
\* or in between, and whether its directory is seen before its nodes are there,
\* which the delay of check_fe_exists is for, or after; unless the process has
\* died looking at a guest too early.
NewestFound ==
    \A d \in Domids :
        d = newest /\ d \in full /\ (curr_domid < d \/ (curr_domid = d /\ pc = "check"))
            ~> \/ domid = d
               \/ d \notin full \/ newest > d
               \/ pc = "connected" /\ domid # d
               \/ pc = "dead"
=============================================================================
