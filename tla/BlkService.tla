----------------------------- MODULE BlkService -----------------------------
(***************************************************************************)
(* What virtio-disk promises a guest driver, without rings, indices,       *)
(* threads or notifications: requests are taken in the order in which they *)
(* were submitted; each is either answered once, with a status, or dropped *)
(* once; answers reach the driver in the order in which they were given;   *)
(* and neither the device nor the driver stops while there is work.        *)
(***************************************************************************)
EXTENDS Sequences

CONSTANT Heads      \* names of the requests a driver can have outstanding

VARIABLES
    up,         \* the queue is enabled
    free,       \* names the driver may use
    queue,      \* submitted, oldest first
    done,       \* answered and not yet seen by the driver, oldest first
    lost        \* dropped: the driver never hears of them

bsVars == <<up, free, queue, done, lost>>

Statuses == {"ok", "ioerr"}

Cleared(u) == up' = u /\ free' = Heads /\ queue' = <<>> /\ done' = <<>> /\ lost' = {}

Init == ~up /\ free = Heads /\ queue = <<>> /\ done = <<>> /\ lost = {}

Bind == ~up /\ Cleared(TRUE)

Submit(h) ==
    /\ up
    /\ h \in free
    /\ free' = free \ {h}
    /\ queue' = Append(queue, h)
    /\ UNCHANGED <<up, done, lost>>

Answer(status) ==
    /\ queue # <<>>
    /\ done' = Append(done, [head |-> Head(queue), status |-> status])
    /\ queue' = Tail(queue)
    /\ UNCHANGED <<up, free, lost>>

Drop ==
    /\ queue # <<>>
    /\ lost' = lost \cup {Head(queue)}
    /\ queue' = Tail(queue)
    /\ UNCHANGED <<up, free, done>>

Reap ==
    /\ done # <<>>
    /\ free' = free \cup {Head(done).head}
    /\ done' = Tail(done)
    /\ UNCHANGED <<up, queue, lost>>

Reset == up /\ Cleared(FALSE)

Serve == Drop \/ \E st \in Statuses : Answer(st)

Next ==
    \/ Bind
    \/ \E h \in Heads : Submit(h)
    \/ Serve
    \/ Reap
    \/ Reset

Safety == Init /\ [][Next]_bsVars
Spec == Safety /\ WF_bsVars(Serve) /\ WF_bsVars(Reap)
=============================================================================
