------------------------------ MODULE MCFblock ------------------------------
(***************************************************************************)
(* Small instances of Fblock.                                              *)
(***************************************************************************)
EXTENDS Fblock, TLC

(* The command sets of the runs. *)
LifeCycle == {"ADD", "RM", "BIND", "UNBIND"}
Stack     == LifeCycle \cup {"REPLACE", "SUBSCRIBE"}
Devices   == LifeCycle \cup {"HOOK", "UNHOOK"}

Symmetry == Permutations(Fblock) \cup Permutations(FbName) \cup Permutations(Device)
=============================================================================
