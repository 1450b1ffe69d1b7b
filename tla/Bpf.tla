--------------------------------- MODULE Bpf ---------------------------------
(***************************************************************************)
(* The packet filters of fb_bpf.c: every CPU has its own copy of the       *)
(* filter of a block.  Processes that write to the block's procfs file     *)
(* take the old copies away, one CPU after the other, and then put new     *)
(* ones in; packets run the copy of their CPU under flock.                 *)
(*                                                                         *)
(* procfs does not keep two processes from writing at the same time, and   *)
(* the block may be removed from the system.                               *)
(***************************************************************************)
EXTENDS Naturals, FiniteSets

CONSTANTS
    NCpu,           \* the online CPUs are 1 .. NCpu
    Proc,           \* processes that write filters or remove the block
    Prog,           \* filter programs
    Bad,            \* those that sk_chk_filter refuses
    Sf,             \* sk_filter objects
    RacingRemoval,  \* whether filters are written while the block is removed
    NULL

ASSUME CpuAssumption == NCpu \in Nat \ {0}
ASSUME ProgAssumption == Bad \subseteq Prog /\ NULL \notin Prog \cup Sf
ASSUME RemovalAssumption == RacingRemoval \in BOOLEAN

Cpu == 1 .. NCpu

VARIABLES
    block,      \* "free", "in" use, going "down", or waiting for "rcu"
    filter,     \* filter[c]: the filter of the block on CPU c
    mem,        \* mem[f]: the program in f, NULL when f is free memory
    proc,       \* proc[p]: where the process p stands
    rx,         \* rx[c]: whether a packet on CPU c holds flock, and its filter
    alone,      \* history: no two processes were at work since the last one began
    result      \* history: the program the last writer has reported injected

vars == <<block, filter, mem, proc, rx, alone, result>>

(* A process is at CPU i of a loop over the CPUs; it wants to inject prog, *)
(* or only to take filters away (prog is NULL), and has new and old in its *)
(* hands.                                                                  *)
ProcRec == [pc : {"idle", "cleanup", "cleaned", "init", "swap", "swapped"}, i : Cpu,
            prog : Prog \cup {NULL}, new : Sf \cup {NULL}, old : Sf \cup {NULL}]
Idle    == [pc |-> "idle", i |-> 1, prog |-> NULL, new |-> NULL, old |-> NULL]

RxRec  == [flock : BOOLEAN, run : Sf \cup {NULL}]
NoRx   == [flock |-> FALSE, run |-> NULL]

Init ==
    /\ block = "free"
    /\ filter = [c \in Cpu |-> NULL]
    /\ mem = [f \in Sf |-> NULL]
    /\ proc = [p \in Proc |-> Idle]
    /\ rx = [c \in Cpu |-> NoRx]
    /\ alone = TRUE
    /\ result = NULL

-----------------------------------------------------------------------------
Others(p) == {q \in Proc \ {p} : proc[q].pc # "idle"}

Freed(f) == IF f = NULL THEN mem ELSE [mem EXCEPT ![f] = NULL]

(* for_each_online_cpu: another round, or what comes after the loop. *)
NextCpu(s, again, done) ==
    IF s.i = NCpu THEN done ELSE [s EXCEPT !.i = @ + 1, !.pc = again, !.old = NULL]

(* fb_bpf_ctor *)
Ctor ==
    /\ block = "free"
    /\ block' = "in"
    /\ filter' = [c \in Cpu |-> NULL]
    /\ result' = NULL
    /\ UNCHANGED <<mem, proc, rx, alone>>

(* fb_bpf_proc_write, once the program g is parsed *)
Write(p, g) ==
    /\ block = "in" \/ (RacingRemoval /\ block # "free")
    /\ proc[p].pc = "idle"
    /\ proc' = [proc EXCEPT ![p] = [Idle EXCEPT !.pc = "cleanup", !.prog = g]]
    /\ alone' = (Others(p) = {})
    /\ UNCHANGED <<block, filter, mem, rx, result>>

(* The last put_fblock: fb_bpf_dtor_outside_rcu.  Packets do not find the  *)
(* block any more.                                                         *)
Remove(p) ==
    /\ block = "in"
    /\ proc[p].pc = "idle"
    /\ RacingRemoval \/ Others(p) = {}
    /\ block' = "down"
    /\ proc' = [proc EXCEPT ![p] = [Idle EXCEPT !.pc = "cleanup"]]
    /\ alone' = (Others(p) = {})
    /\ UNCHANGED <<filter, mem, rx, result>>

(* Wrong variant: flock is not taken. *)
CleanupNoLock(p) ==
    LET s == proc[p] IN
    /\ s.pc = "cleanup"
    /\ proc' = [proc EXCEPT ![p].pc = "cleaned", ![p].old = filter[s.i]]
    /\ filter' = [filter EXCEPT ![s.i] = NULL]
    /\ UNCHANGED <<block, mem, rx, alone, result>>

(* fb_bpf_cleanup_filter, under flock *)
Cleanup(p) ==
    LET s == proc[p] IN
    /\ s.pc = "cleanup"
    /\ ~rx[s.i].flock
    /\ proc' = [proc EXCEPT ![p].pc = "cleaned", ![p].old = filter[s.i]]
    /\ filter' = [filter EXCEPT ![s.i] = NULL]
    /\ UNCHANGED <<block, mem, rx, alone, result>>

(* kfree(sfold).  After the last CPU a writer goes on to inject its        *)
(* program; it is done if it was undoing that, and so is a remover, which  *)
(* leaves the rest to RCU.                                                 *)
CleanupFree(p) ==
    LET s    == proc[p]
        last == s.i = NCpu /\ s.prog = NULL
    IN  /\ s.pc = "cleaned"
        /\ mem' = Freed(s.old)
        /\ proc' = [proc EXCEPT ![p] =
                      NextCpu(s, "cleanup",
                              IF s.prog = NULL THEN Idle
                              ELSE [s EXCEPT !.i = 1, !.pc = "init", !.old = NULL])]
        /\ block' = IF last /\ block = "down" THEN "rcu" ELSE block
        /\ result' = IF last THEN NULL ELSE result
        /\ UNCHANGED <<filter, rx, alone>>

(* Wrong variant: an error does not take away what was injected already. *)
InitFilterNoUndo(p) ==
    LET s == proc[p] IN
    /\ s.pc = "init"
    /\ \/ \E f \in Sf : /\ mem[f] = NULL
                        /\ s.prog \notin Bad
                        /\ mem' = [mem EXCEPT ![f] = s.prog]
                        /\ proc' = [proc EXCEPT ![p].pc = "swap", ![p].new = f]
                        /\ UNCHANGED result
       \/ /\ proc' = [proc EXCEPT ![p] = Idle]
          /\ result' = NULL
          /\ UNCHANGED mem
    /\ UNCHANGED <<block, filter, rx, alone>>

(* fb_bpf_init_filter: memory for the copy, and sk_chk_filter.  On an      *)
(* error all filters are taken away again.                                 *)
InitFilter(p) ==
    LET s == proc[p] IN
    /\ s.pc = "init"
    /\ \/ \E f \in Sf : /\ mem[f] = NULL
                        /\ s.prog \notin Bad
                        /\ mem' = [mem EXCEPT ![f] = s.prog]
                        /\ proc' = [proc EXCEPT ![p].pc = "swap", ![p].new = f]
       \/ /\ proc' = [proc EXCEPT ![p] = [Idle EXCEPT !.pc = "cleanup"]]
          /\ UNCHANGED mem
    /\ UNCHANGED <<block, filter, rx, alone, result>>

(* Wrong variant: it is assumed that no filter is there. *)
InitSwapOver(p) ==
    LET s == proc[p] IN
    /\ s.pc = "swap"
    /\ ~rx[s.i].flock
    /\ filter' = [filter EXCEPT ![s.i] = s.new]
    /\ proc' = [proc EXCEPT ![p].pc = "swapped", ![p].new = NULL]
    /\ UNCHANGED <<block, mem, rx, alone, result>>

(* The new filter for the old one, under flock; another writer may have    *)
(* put one in meanwhile.                                                   *)
InitSwap(p) ==
    LET s == proc[p] IN
    /\ s.pc = "swap"
    /\ ~rx[s.i].flock
    /\ filter' = [filter EXCEPT ![s.i] = s.new]
    /\ proc' = [proc EXCEPT ![p].pc = "swapped", ![p].new = NULL, ![p].old = filter[s.i]]
    /\ UNCHANGED <<block, mem, rx, alone, result>>

(* kfree(sfold); "Filter injected!" after the last CPU *)
InitFree(p) ==
    LET s == proc[p] IN
    /\ s.pc = "swapped"
    /\ mem' = Freed(s.old)
    /\ proc' = [proc EXCEPT ![p] = NextCpu(s, "init", Idle)]
    /\ result' = IF s.i = NCpu THEN s.prog ELSE result
    /\ UNCHANGED <<block, filter, rx, alone>>

(* fb_bpf_dtor after a grace period: free_percpu *)
RcuFree ==
    /\ block = "rcu"
    /\ \A c \in Cpu : ~rx[c].flock
    /\ block' = "free"
    /\ filter' = [c \in Cpu |-> NULL]
    /\ UNCHANGED <<mem, proc, rx, alone, result>>

-----------------------------------------------------------------------------
(* fb_bpf_netrx: the filter runs on a packet while flock is held.  (What   *)
(* it says, and the ports, are in Ports.)                                  *)
RunFilter(c) ==
    /\ block = "in"
    /\ ~rx[c].flock
    /\ rx' = [rx EXCEPT ![c] = [flock |-> TRUE, run |-> filter[c]]]
    /\ UNCHANGED <<block, filter, mem, proc, alone, result>>

FilterDone(c) ==
    /\ rx[c].flock
    /\ rx' = [rx EXCEPT ![c] = NoRx]
    /\ UNCHANGED <<block, filter, mem, proc, alone, result>>

-----------------------------------------------------------------------------
Next ==
    \/ Ctor
    \/ RcuFree
    \/ \E p \in Proc, g \in Prog : Write(p, g)
    \/ \E p \in Proc : Remove(p)
    \/ \E p \in Proc : Cleanup(p)
    \/ \E p \in Proc : CleanupFree(p)
    \/ \E p \in Proc : InitFilter(p)
    \/ \E p \in Proc : InitSwap(p)
    \/ \E p \in Proc : InitFree(p)
    \/ \E c \in Cpu : RunFilter(c)
    \/ \E c \in Cpu : FilterDone(c)

Spec == Init /\ [][Next]_vars

-----------------------------------------------------------------------------
(* Type correctness of the filters, the processes and the packets. *)
TypeOK ==
    /\ block \in {"free", "in", "down", "rcu"}
    /\ filter \in [Cpu -> Sf \cup {NULL}]
    /\ mem \in [Sf -> Prog \cup {NULL}]
    /\ proc \in [Proc -> ProcRec]
    /\ rx \in [Cpu -> RxRec]
    /\ alone \in BOOLEAN
    /\ result \in Prog \cup {NULL}

(* A packet never runs a filter that is freed, or that is no longer the    *)
(* one of its CPU, although writers free old filters without a grace       *)
(* period.                                                                 *)
NoFreedFilter ==
    \A c \in Cpu : rx[c].flock /\ rx[c].run # NULL
                      => mem[rx[c].run] # NULL /\ filter[c] = rx[c].run

(* Every filter in memory has exactly one owner, a CPU or the hand of a    *)
(* process: none is leaked and none is freed twice, however two writers    *)
(* get in each other's way and wherever one of them fails.                 *)
OneOwner ==
    \A f \in Sf :
        LET owners == {<<"cpu", c>> : c \in {d \in Cpu : filter[d] = f}}
                      \cup {<<"new", p>> : p \in {q \in Proc : proc[q].new = f}}
                      \cup {<<"old", p>> : p \in {q \in Proc : proc[q].old = f}}
        IN  Cardinality(owners) = IF mem[f] = NULL THEN 0 ELSE 1

(* A write that no other one overlapped is all or nothing, whatever came   *)
(* before it: when it is done, all CPUs have the program that it reported  *)
(* injected, and after an error on any CPU none has a filter.              *)
AllOrNothing ==
    (\A p \in Proc : proc[p].pc = "idle") /\ alone /\ block # "free" =>
        \A c \in Cpu : IF result = NULL THEN filter[c] = NULL
                       ELSE filter[c] # NULL /\ mem[filter[c]] = result
=============================================================================
