---------------------------- MODULE MCVirtioBlk ----------------------------
(***************************************************************************)
(* Instances of VirtioBlk for TLC.                                         *)
(***************************************************************************)
EXTENDS VirtioBlk

\* A driver that accepts the event index as Linux does, with seg_max ...
EventIdxFeatures == {{2, 9, 28, 29}}
\* ... and one that accepts neither, so that avail->flags rule.
FlagsFeatures == {{9}}
\* seg_max without the event index
SegMaxOnly == {{2}}
=============================================================================
