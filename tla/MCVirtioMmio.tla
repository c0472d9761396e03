---------------------------- MODULE MCVirtioMmio ----------------------------
(***************************************************************************)
(* Instances of VirtioMmio: rings at 6 and 11, with words of 4, have halves *)
(* that all differ, and one ring begins in the next word.                  *)
(***************************************************************************)
EXTENDS VirtioMmio

MCAddrs == {6, 11}
MCHostFeatures == {"EVENT_IDX", "RO"}
=============================================================================
