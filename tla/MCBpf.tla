-------------------------------- MODULE MCBpf --------------------------------
(***************************************************************************)
(* A small instance of Bpf: two CPUs and two processes need at most four   *)
(* filters at a time.                                                      *)
(***************************************************************************)
EXTENDS Bpf, TLC

BpfSymmetry == Permutations(Proc) \cup Permutations(Sf)
=============================================================================
