------------------------------- MODULE Vring -------------------------------
(***************************************************************************)
(* Index arithmetic of a split virtqueue.  The indices of both rings are   *)
(* free-running u16 counters; a ring entry lives at index % num.  The      *)
(* width is a parameter: IdxMod stands for 2^16 and Num for                *)
(* VIRTIO_BLK_QUEUE_SIZE (virtio/blk.c), which divides it.                 *)
(***************************************************************************)
EXTENDS Integers

CONSTANTS
    Num,        \* vring.num: entries of the ring
    IdxMod      \* number of values of a ring index (2^16 in the code)

ASSUME RingAssumption ==
    /\ Num \in Nat \ {0}
    /\ IdxMod \in Nat \ {0}
    /\ Num < IdxMod
    /\ IdxMod % Num = 0

Heads == 0 .. Num - 1       \* descriptor heads, and ring slots
Idx == 0 .. IdxMod - 1      \* u16 values

\* mutant: the index is wider than the ring's u16
IdxInc_wide(i) == i + 1

\* idx + 1 in u16 arithmetic
IdxInc(i) == IF i + 1 = IdxMod THEN 0 ELSE i + 1

\* a - b in u16 arithmetic
IdxSub(a, b) == IF a >= b THEN a - b ELSE (a - b) + IdxMod

\* the ring slot of an index
Slot(i) == i % Num

\* vring_need_event(event_idx, new_idx, old) of <linux/virtio_ring.h>:
\* (u16)(new_idx - event_idx - 1) < (u16)(new_idx - old)
vring_need_event(event, new, old) ==
    IdxSub(new, IdxInc(event)) < IdxSub(new, old)

\* i + n in u16 arithmetic
IdxAdd(i, n) == IF i + n >= IdxMod THEN (i + n) - IdxMod ELSE i + n
=============================================================================
