------------------------------- MODULE MCDemu -------------------------------
(***************************************************************************)
(* Instances of Demu for TLC: two vCPUs and one signal; a second signal on *)
(* top of the handler of the first is left to the theorems.                *)
(***************************************************************************)
EXTENDS Demu
=============================================================================
