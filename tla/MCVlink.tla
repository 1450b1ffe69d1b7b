------------------------------- MODULE MCVlink -------------------------------
(***************************************************************************)
(* Small instances of Vlink.                                               *)
(***************************************************************************)
EXTENDS Vlink, TLC

(* Both Ethernet modules have the type VLINKNLGRP_ETHERNET. *)
SameType == [s \in Subsys |-> "ethernet"]

VlinkSymmetry == Permutations(Vname) \cup Permutations(Carrier) \cup Permutations(Tag)
=============================================================================
