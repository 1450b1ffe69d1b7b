------------------------------ MODULE MCEngine ------------------------------
(***************************************************************************)
(* Small instances of Engine: where the timers expire, and the symmetry of *)
(* the packets.                                                            *)
(***************************************************************************)
EXTENDS Engine, TLC

(* init_engine starts all timers from one CPU, and a timer is re-armed on  *)
(* the CPU it expired on.                                                  *)
InitCpu == CHOOSE c \in Cpu : TRUE
TimersOfInitCpu == [c \in Cpu |-> {InitCpu}]

(* Timers may be moved to any CPU. *)
RoamingTimers == [c \in Cpu |-> Cpu]

SafetySymmetry == Permutations(Skb) \cup Permutations(Cpu)
=============================================================================
