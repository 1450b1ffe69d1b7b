------------------------------ MODULE MCPorts -------------------------------
(***************************************************************************)
(* Small instances of Ports.                                               *)
(***************************************************************************)
EXTENDS Ports, TLC

(* The kinds that differ in their locks, ports or readers. *)
AllKinds == {Counter, Tee, Bpf, Eth, PfLana}
OneKind  == {Dummy}

(* The control process runs on the last CPU. *)
LastCpu == [q \in Ctl |-> NCpu]

FbSymmetry == Permutations(Fb)
=============================================================================
