---------------------------- MODULE DiskService ----------------------------
(***************************************************************************)
(* What a disk image promises the virtio-blk device: a request moves its   *)
(* bytes between the addressed part of the disk and its buffer, in any     *)
(* order and any number of them at a time, touches no other byte of the    *)
(* disk or of memory, and is answered with success only when all of them   *)
(* have moved.  Of a read from an image that could not be read, only what  *)
(* lands in its buffer is promised.                                        *)
(***************************************************************************)
EXTENDS Integers

CONSTANTS Idle          \* no request

VARIABLES
    content,    \* content[p], byte p of the disk as the guest sees it
    req,        \* the request in progress, [op, start]
    buf,        \* its buffer, a sequence of bytes
    ok,         \* how the last request ended
    failed,     \* a read of the image failed
    astray      \* memory beside the buffer was written

dsVars == <<content, req, buf, ok, failed, astray>>

\* Byte k of the buffer and byte At(k) of the disk are the same byte.
At(k) == req.start + k - 1

Submit(op, start) ==
    /\ req = Idle
    /\ req' = [op |-> op, start |-> start]
    /\ failed' = FALSE /\ astray' = FALSE
    /\ UNCHANGED <<content, ok>>

\* Some bytes of the request move.
MoveIn ==
    /\ req.op = "read"
    /\ DOMAIN buf' = DOMAIN buf
    /\ \A k \in DOMAIN buf : buf'[k] \in {buf[k], content[At(k)]}
    /\ UNCHANGED content

MoveOut ==
    /\ req.op = "write"
    /\ DOMAIN content' = DOMAIN content
    /\ \A p \in DOMAIN content :
           content'[p] \in {content[p]} \cup {buf[k] : k \in {j \in DOMAIN buf : At(j) = p}}
    /\ UNCHANGED buf

Move ==
    /\ req # Idle
    /\ MoveIn \/ MoveOut
    /\ failed' \in {failed, req.op = "read"}
    /\ \/ UNCHANGED <<req, ok>>
       \/ /\ req' = Idle
          /\ ok' \in BOOLEAN
          /\ ok' /\ ~failed' => \A k \in DOMAIN buf : buf'[k] = content'[At(k)]

\* Memory beside the buffer changes only when the image could not be read.
Stray == astray' \in {astray, failed}

Init == req = Idle /\ ok = TRUE /\ failed = FALSE /\ astray = FALSE

Next ==
    \/ \E op \in {"read", "write"}, start \in DOMAIN content : Submit(op, start)
    \/ Move /\ Stray

Spec == Init /\ [][Next]_dsVars
=============================================================================
