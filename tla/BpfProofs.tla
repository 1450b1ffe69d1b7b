------------------------------ MODULE BpfProofs ------------------------------
(***************************************************************************)
(* Proofs about Bpf for any number of CPUs, writers, programs and filters. *)
(***************************************************************************)
EXTENDS Bpf, FiniteSetTheorems, TLAPS

(* What a process has in its hands at which step. *)
Hands ==
    \A p \in Proc :
        /\ proc[p].new # NULL <=> proc[p].pc = "swap"
        /\ proc[p].old # NULL => proc[p].pc \in {"cleaned", "swapped"}
        /\ proc[p].prog = NULL => proc[p].pc \in {"idle", "cleanup", "cleaned"}

TypeInv == TypeOK /\ Hands

(* No filter is in two places. *)
CpuOnce == \A c, d \in Cpu : filter[c] = filter[d] /\ filter[c] # NULL => c = d
NewOnce == \A p, q \in Proc : proc[p].new = proc[q].new /\ proc[p].new # NULL => p = q
OldOnce == \A p, q \in Proc : proc[p].old = proc[q].old /\ proc[p].old # NULL => p = q
CpuNotHand ==
    \A c \in Cpu, p \in Proc :
        filter[c] # NULL => filter[c] # proc[p].new /\ filter[c] # proc[p].old
NewNotOld == \A p, q \in Proc : proc[p].new # NULL => proc[p].new # proc[q].old

Sole == CpuOnce /\ NewOnce /\ OldOnce /\ CpuNotHand /\ NewNotOld

(* What is in some place is not freed. *)
CpuInMem == \A c \in Cpu : filter[c] # NULL => mem[filter[c]] # NULL
HandInMem ==
    \A p \in Proc : /\ proc[p].new # NULL => mem[proc[p].new] # NULL
                    /\ proc[p].old # NULL => mem[proc[p].old] # NULL

(* A packet that holds flock runs the filter of its CPU: whoever takes     *)
(* that filter away has to take flock.                                     *)
RunsOwn == \A c \in Cpu : rx[c].flock => rx[c].run = filter[c]
Quiet   == block = "free" => \A c \in Cpu : ~rx[c].flock

SafeInv == Sole /\ CpuInMem /\ HandInMem /\ RunsOwn /\ Quiet

-----------------------------------------------------------------------------
(* What a process that removes the block, or writes to it alone, has done  *)
(* so far.                                                                 *)
Busy(p) == proc[p].pc # "idle"

Emptied(p) ==
    /\ proc[p].pc = "cleanup" => \A c \in Cpu : c < proc[p].i => filter[c] = NULL
    /\ proc[p].pc = "cleaned" => \A c \in Cpu : c <= proc[p].i => filter[c] = NULL

Injected(p, c) == filter[c] # NULL /\ mem[filter[c]] = proc[p].prog

Filled(p) ==
    /\ proc[p].pc \in {"init", "swap"} =>
           \A c \in Cpu : IF c < proc[p].i THEN Injected(p, c) ELSE filter[c] = NULL
    /\ proc[p].pc = "swapped" =>
           \A c \in Cpu : IF c <= proc[p].i THEN Injected(p, c) ELSE filter[c] = NULL
    /\ proc[p].pc = "swap" => mem[proc[p].new] = proc[p].prog

(* The block is only taken down by a process that works alone, and nobody  *)
(* works on one that is down.                                              *)
DownAlone ==
    block = "down" =>
        \E p \in Proc : /\ Busy(p) /\ proc[p].prog = NULL /\ Emptied(p)
                        /\ \A q \in Proc : Busy(q) => q = p
DownEmpty ==
    block \in {"free", "rcu"} => /\ \A p \in Proc : ~Busy(p)
                                 /\ \A c \in Cpu : filter[c] = NULL
NotLeaked ==
    \A f \in Sf : mem[f] # NULL =>
        \/ \E c \in Cpu : filter[c] = f
        \/ \E p \in Proc : proc[p].new = f \/ proc[p].old = f

OwnerInv == DownAlone /\ DownEmpty /\ NotLeaked

AloneInv ==
    alone => /\ \A p, q \in Proc : Busy(p) /\ Busy(q) => p = q
             /\ \A p \in Proc : Busy(p) => Emptied(p) /\ Filled(p)

-----------------------------------------------------------------------------
(* Type correctness, and what each step of a process does to its record    *)
(* and to nobody else's.                                                   *)
LEMMA TypeInvInit == Init => TypeInv
BY CpuAssumption DEF Init, TypeInv, TypeOK, Hands, Idle, NoRx, ProcRec, RxRec, Cpu

(* The fields of a process. *)
LEMMA ProcFields ==
    ASSUME TypeInv, NEW p \in Proc
    PROVE  /\ proc[p] \in ProcRec
           /\ proc[p].pc \in {"idle", "cleanup", "cleaned", "init", "swap", "swapped"}
           /\ proc[p].i \in 1 .. NCpu /\ proc[p].prog \in Prog \cup {NULL}
           /\ proc[p].new \in Sf \cup {NULL} /\ proc[p].old \in Sf \cup {NULL}
BY DEF TypeInv, TypeOK, ProcRec, Cpu

(* fb_bpf_proc_write begins. *)
LEMMA WriteEffect ==
    ASSUME TypeInv, NEW p \in Proc, NEW g \in Prog, Write(p, g)
    PROVE  /\ \A q \in Proc : q # p => proc'[q] = proc[q]
           /\ proc'[p].pc = "cleanup" /\ proc'[p].i = 1 /\ proc'[p].prog = g
           /\ proc'[p].new = NULL /\ proc'[p].old = NULL
           /\ proc[p].pc = "idle" /\ proc[p].new = NULL /\ proc[p].old = NULL
           /\ UNCHANGED <<block, filter, mem, rx, result>>
BY DEF TypeInv, TypeOK, Hands, Write, Idle

(* fb_bpf_dtor_outside_rcu begins. *)
LEMMA RemoveEffect ==
    ASSUME TypeInv, NEW p \in Proc, Remove(p)
    PROVE  /\ \A q \in Proc : q # p => proc'[q] = proc[q]
           /\ proc'[p].pc = "cleanup" /\ proc'[p].i = 1 /\ proc'[p].prog = NULL
           /\ proc'[p].new = NULL /\ proc'[p].old = NULL
           /\ proc[p].pc = "idle" /\ proc[p].new = NULL /\ proc[p].old = NULL
           /\ block = "in" /\ block' = "down"
           /\ UNCHANGED <<filter, mem, rx, result>>
BY DEF TypeInv, TypeOK, Hands, Remove, Idle

(* fb_bpf_cleanup_filter takes the filter of one CPU away. *)
LEMMA CleanupEffect ==
    ASSUME TypeInv, NEW p \in Proc, Cleanup(p)
    PROVE  /\ \A q \in Proc : q # p => proc'[q] = proc[q]
           /\ proc[p].pc = "cleanup" /\ proc'[p].pc = "cleaned"
           /\ proc'[p].i = proc[p].i /\ proc'[p].prog = proc[p].prog
           /\ proc[p].new = NULL /\ proc[p].old = NULL
           /\ proc'[p].new = NULL /\ proc'[p].old = filter[proc[p].i]
           /\ proc[p].i \in Cpu /\ ~rx[proc[p].i].flock
           /\ filter'[proc[p].i] = NULL
           /\ \A c \in Cpu : c # proc[p].i => filter'[c] = filter[c]
           /\ UNCHANGED <<block, mem, rx, alone, result>>
BY DEF TypeInv, TypeOK, Hands, Cleanup, ProcRec

(* It frees what it has taken and goes to the next CPU, or on to the       *)
(* injection, or it is done.                                               *)
LEMMA CleanupFreeEffect ==
    ASSUME TypeInv, NEW p \in Proc, CleanupFree(p)
    PROVE  /\ \A q \in Proc : q # p => proc'[q] = proc[q]
           /\ proc[p].pc = "cleaned" /\ proc[p].i \in 1 .. NCpu
           /\ proc[p].new = NULL /\ proc'[p].new = NULL /\ proc'[p].old = NULL
           /\ \/ /\ proc[p].i < NCpu /\ proc'[p].pc = "cleanup"
                 /\ proc'[p].i = proc[p].i + 1 /\ proc'[p].prog = proc[p].prog
                 /\ block' = block /\ result' = result
              \/ /\ proc[p].i = NCpu /\ proc[p].prog = NULL
                 /\ proc'[p].pc = "idle" /\ proc'[p].i = 1 /\ proc'[p].prog = NULL
                 /\ block' = IF block = "down" THEN "rcu" ELSE block
                 /\ result' = NULL
              \/ /\ proc[p].i = NCpu /\ proc[p].prog # NULL
                 /\ proc'[p].pc = "init" /\ proc'[p].i = 1 /\ proc'[p].prog = proc[p].prog
                 /\ block' = block /\ result' = result
           /\ mem' = Freed(proc[p].old)
           /\ UNCHANGED <<filter, rx, alone>>
<1>1. proc[p] \in ProcRec /\ proc[p].i \in 1 .. NCpu /\ NCpu \in Nat
    BY ProcFields, CpuAssumption
<1>2. proc[p].pc = "cleaned" /\ proc[p].new = NULL
    BY DEF TypeInv, Hands, CleanupFree
<1>3. proc' = [proc EXCEPT ![p] =
                  IF proc[p].i = NCpu
                  THEN IF proc[p].prog = NULL THEN Idle
                       ELSE [proc[p] EXCEPT !.i = 1, !.pc = "init", !.old = NULL]
                  ELSE [proc[p] EXCEPT !.i = @ + 1, !.pc = "cleanup", !.old = NULL]]
    BY DEF CleanupFree, NextCpu
<1>4. proc \in [Proc -> ProcRec]
    BY DEF TypeInv, TypeOK
<1>5. /\ mem' = Freed(proc[p].old) /\ UNCHANGED <<filter, rx, alone>>
      /\ block' = IF (proc[p].i = NCpu /\ proc[p].prog = NULL) /\ block = "down"
                  THEN "rcu" ELSE block
      /\ result' = IF proc[p].i = NCpu /\ proc[p].prog = NULL THEN NULL ELSE result
    BY DEF CleanupFree
<1>6. CASE proc[p].i # NCpu
    BY <1>1, <1>2, <1>3, <1>4, <1>5, <1>6 DEF ProcRec
<1>7. CASE proc[p].i = NCpu /\ proc[p].prog = NULL
    BY <1>1, <1>2, <1>3, <1>4, <1>5, <1>7 DEF ProcRec, Idle
<1>8. CASE proc[p].i = NCpu /\ proc[p].prog # NULL
    BY <1>1, <1>2, <1>3, <1>4, <1>5, <1>8 DEF ProcRec
<1>9. QED
    BY <1>6, <1>7, <1>8

(* fb_bpf_init_filter has a new filter in its hands, or undoes all. *)
LEMMA InitFilterEffect ==
    ASSUME TypeInv, NEW p \in Proc, InitFilter(p)
    PROVE  /\ \A q \in Proc : q # p => proc'[q] = proc[q]
           /\ proc[p].pc = "init" /\ proc[p].new = NULL /\ proc[p].old = NULL
           /\ proc[p].prog \in Prog
           /\ \/ \E f \in Sf :
                    /\ mem[f] = NULL /\ mem' = [mem EXCEPT ![f] = proc[p].prog]
                    /\ proc'[p].pc = "swap" /\ proc'[p].i = proc[p].i
                    /\ proc'[p].prog = proc[p].prog
                    /\ proc'[p].new = f /\ proc'[p].old = NULL
              \/ /\ mem' = mem
                 /\ proc'[p].pc = "cleanup" /\ proc'[p].i = 1 /\ proc'[p].prog = NULL
                 /\ proc'[p].new = NULL /\ proc'[p].old = NULL
           /\ UNCHANGED <<block, filter, rx, alone, result>>
<1>1. proc \in [Proc -> ProcRec] /\ proc[p].prog \in Prog \cup {NULL}
    BY ProcFields DEF TypeInv, TypeOK
<1>2. /\ proc[p].pc = "init" /\ proc[p].new = NULL /\ proc[p].old = NULL
      /\ proc[p].prog # NULL
    BY DEF TypeInv, Hands, InitFilter
<1>3. UNCHANGED <<block, filter, rx, alone, result>>
    BY DEF InitFilter
<1>4. CASE proc' = [proc EXCEPT ![p] = [Idle EXCEPT !.pc = "cleanup"]] /\ mem' = mem
    BY <1>1, <1>2, <1>3, <1>4 DEF Idle
<1>5. ASSUME NEW f \in Sf, mem[f] = NULL, mem' = [mem EXCEPT ![f] = proc[p].prog],
             proc' = [proc EXCEPT ![p].pc = "swap", ![p].new = f]
      PROVE  /\ \A q \in Proc : q # p => proc'[q] = proc[q]
             /\ proc'[p].pc = "swap" /\ proc'[p].i = proc[p].i
             /\ proc'[p].prog = proc[p].prog
             /\ proc'[p].new = f /\ proc'[p].old = NULL
    BY <1>1, <1>2, <1>5 DEF ProcRec
<1>6. \/ proc' = [proc EXCEPT ![p] = [Idle EXCEPT !.pc = "cleanup"]] /\ mem' = mem
      \/ \E f \in Sf : /\ mem[f] = NULL /\ mem' = [mem EXCEPT ![f] = proc[p].prog]
                       /\ proc' = [proc EXCEPT ![p].pc = "swap", ![p].new = f]
    BY DEF InitFilter
<1>7. QED
    BY <1>1, <1>2, <1>3, <1>4, <1>5, <1>6

(* The new filter is put in, the old one is in its hands. *)
LEMMA InitSwapEffect ==
    ASSUME TypeInv, NEW p \in Proc, InitSwap(p)
    PROVE  /\ \A q \in Proc : q # p => proc'[q] = proc[q]
           /\ proc[p].pc = "swap" /\ proc'[p].pc = "swapped"
           /\ proc'[p].i = proc[p].i /\ proc'[p].prog = proc[p].prog
           /\ proc[p].prog \in Prog
           /\ proc[p].new \in Sf /\ proc[p].new # NULL /\ proc[p].old = NULL
           /\ proc'[p].new = NULL /\ proc'[p].old = filter[proc[p].i]
           /\ proc[p].i \in Cpu /\ ~rx[proc[p].i].flock
           /\ filter'[proc[p].i] = proc[p].new
           /\ \A c \in Cpu : c # proc[p].i => filter'[c] = filter[c]
           /\ UNCHANGED <<block, mem, rx, alone, result>>
<1>1. proc \in [Proc -> ProcRec] /\ filter \in [Cpu -> Sf \cup {NULL}]
    BY DEF TypeInv, TypeOK
<1>2. /\ proc[p].i \in Cpu /\ proc[p].prog \in Prog \cup {NULL}
      /\ proc[p].new \in Sf \cup {NULL}
    BY ProcFields DEF Cpu
<1>3. /\ proc[p].pc = "swap" /\ proc[p].new # NULL /\ proc[p].old = NULL
      /\ proc[p].prog # NULL
    BY DEF TypeInv, Hands, InitSwap
<1>4. QED
    BY <1>1, <1>2, <1>3 DEF InitSwap, ProcRec

(* The old filter is freed; the next CPU, or the end. *)
LEMMA InitFreeEffect ==
    ASSUME TypeInv, NEW p \in Proc, InitFree(p)
    PROVE  /\ \A q \in Proc : q # p => proc'[q] = proc[q]
           /\ proc[p].pc = "swapped" /\ proc[p].i \in 1 .. NCpu
           /\ proc[p].prog \in Prog
           /\ proc[p].new = NULL /\ proc'[p].new = NULL /\ proc'[p].old = NULL
           /\ \/ /\ proc[p].i < NCpu /\ proc'[p].pc = "init"
                 /\ proc'[p].i = proc[p].i + 1 /\ proc'[p].prog = proc[p].prog
                 /\ result' = result
              \/ /\ proc[p].i = NCpu /\ proc'[p].pc = "idle"
                 /\ proc'[p].i = 1 /\ proc'[p].prog = NULL
                 /\ result' = proc[p].prog
           /\ mem' = Freed(proc[p].old)
           /\ UNCHANGED <<block, filter, rx, alone>>
<1>1. /\ proc[p] \in ProcRec /\ proc[p].i \in 1 .. NCpu /\ NCpu \in Nat
      /\ proc[p].prog \in Prog \cup {NULL}
    BY ProcFields, CpuAssumption
<1>2. proc[p].pc = "swapped" /\ proc[p].new = NULL /\ proc[p].prog # NULL
    BY DEF TypeInv, Hands, InitFree
<1>3. proc' = [proc EXCEPT ![p] =
                  IF proc[p].i = NCpu THEN Idle
                  ELSE [proc[p] EXCEPT !.i = @ + 1, !.pc = "init", !.old = NULL]]
    BY DEF InitFree, NextCpu
<1>4. proc \in [Proc -> ProcRec]
    BY DEF TypeInv, TypeOK
<1>5. /\ mem' = Freed(proc[p].old) /\ UNCHANGED <<block, filter, rx, alone>>
      /\ result' = IF proc[p].i = NCpu THEN proc[p].prog ELSE result
    BY DEF InitFree
<1>6. CASE proc[p].i # NCpu
    BY <1>1, <1>2, <1>3, <1>4, <1>5, <1>6 DEF ProcRec
<1>7. CASE proc[p].i = NCpu
    BY <1>1, <1>2, <1>3, <1>4, <1>5, <1>7 DEF ProcRec, Idle
<1>8. QED
    BY <1>6, <1>7

(* The records that the steps of a process leave. *)
LEMMA ProcUpdates ==
    ASSUME NEW s \in ProcRec, NEW f \in Sf \cup {NULL}, NEW n \in Cpu
    PROVE  /\ [s EXCEPT !.pc = "cleaned", !.old = f] \in ProcRec
           /\ [s EXCEPT !.pc = "swapped", !.new = NULL, !.old = f] \in ProcRec
           /\ [s EXCEPT !.i = n, !.pc = "init", !.old = NULL] \in ProcRec
           /\ [s EXCEPT !.i = n, !.pc = "cleanup", !.old = NULL] \in ProcRec
<1>1. [s EXCEPT !.pc = "cleaned", !.old = f] \in ProcRec
    BY DEF ProcRec
<1>2. [s EXCEPT !.pc = "swapped", !.new = NULL, !.old = f] \in ProcRec
    BY DEF ProcRec
<1>3. [s EXCEPT !.i = n, !.pc = "init", !.old = NULL] \in ProcRec
    BY DEF ProcRec
<1>4. [s EXCEPT !.i = n, !.pc = "cleanup", !.old = NULL] \in ProcRec
    BY DEF ProcRec
<1>5. QED
    BY <1>1, <1>2, <1>3, <1>4

(* kfree of a filter, or of nothing. *)
LEMMA FreedType ==
    ASSUME TypeInv, NEW f \in Sf \cup {NULL}
    PROVE  /\ Freed(f) \in [Sf -> Prog \cup {NULL}]
           /\ \A g \in Sf : Freed(f)[g] = IF g = f THEN NULL ELSE mem[g]
BY ProgAssumption DEF TypeInv, TypeOK, Freed

(* Every step keeps the types and what the processes have in their hands. *)
LEMMA TypeInvStep == TypeInv /\ [Next]_vars => TypeInv'
<1> SUFFICES ASSUME TypeInv, [Next]_vars PROVE TypeInv'
    OBVIOUS
<1>t. /\ block \in {"free", "in", "down", "rcu"}
      /\ filter \in [Cpu -> Sf \cup {NULL}]
      /\ mem \in [Sf -> Prog \cup {NULL}]
      /\ rx \in [Cpu -> RxRec]
      /\ result \in Prog \cup {NULL}
    BY DEF TypeInv, TypeOK
<1>a. alone \in BOOLEAN
    BY DEF TypeInv, TypeOK
<1>p. proc \in [Proc -> ProcRec]
    BY DEF TypeInv, TypeOK
<1>h. Hands
    BY DEF TypeInv
<1>n. 1 \in Cpu /\ NULL \notin Prog /\ NULL \notin Sf
    BY CpuAssumption, ProgAssumption DEF Cpu
<1>e. ASSUME block' \in {"free", "in", "down", "rcu"}, filter' \in [Cpu -> Sf \cup {NULL}],
             mem' \in [Sf -> Prog \cup {NULL}], proc' \in [Proc -> ProcRec],
             rx' \in [Cpu -> RxRec], alone' \in BOOLEAN, result' \in Prog \cup {NULL},
             Hands'
      PROVE  TypeInv'
    BY <1>e DEF TypeInv, TypeOK
<1>1. CASE Ctor
    <2>1. Hands'
        BY <1>1, <1>h DEF Ctor, Hands
    <2>2. QED
        BY <2>1, <1>1, <1>t, <1>a, <1>p, <1>e DEF Ctor
<1>2. CASE RcuFree
    <2>1. Hands'
        BY <1>2, <1>h DEF RcuFree, Hands
    <2>2. QED
        BY <2>1, <1>2, <1>t, <1>a, <1>p, <1>e DEF RcuFree
<1>3. ASSUME NEW p \in Proc, NEW g \in Prog, Write(p, g) PROVE TypeInv'
    <2>1. Hands'
        BY <1>3, <1>h, <1>n, WriteEffect DEF Hands
    <2>2. proc' \in [Proc -> ProcRec]
        BY <1>3, <1>p, <1>n DEF Write, Idle, ProcRec
    <2>3. alone' \in BOOLEAN
        BY <1>3 DEF Write
    <2>4. QED
        BY <2>1, <2>2, <2>3, <1>3, <1>t, <1>e DEF Write
<1>4. ASSUME NEW p \in Proc, Remove(p) PROVE TypeInv'
    <2>1. Hands'
        BY <1>4, <1>h, <1>n, RemoveEffect DEF Hands
    <2>2. proc' \in [Proc -> ProcRec]
        BY <1>4, <1>p, <1>n DEF Remove, Idle, ProcRec
    <2>3. alone' \in BOOLEAN
        BY <1>4 DEF Remove
    <2>4. QED
        BY <2>1, <2>2, <2>3, <1>4, <1>t, <1>e DEF Remove
<1>5. ASSUME NEW p \in Proc, Cleanup(p) PROVE TypeInv'
    <2>1. Hands'
        BY <1>5, <1>h, <1>n, CleanupEffect DEF Hands
    <2>2. proc[p].i \in Cpu
        BY <1>5, CleanupEffect
    <2>3. proc' \in [Proc -> ProcRec]
        <3>1. filter[proc[p].i] \in Sf \cup {NULL}
            BY <1>t, <2>2
        <3>2. proc' = [proc EXCEPT ![p].pc = "cleaned", ![p].old = filter[proc[p].i]]
            BY <1>5 DEF Cleanup
        <3>3. [proc[p] EXCEPT !.pc = "cleaned", !.old = filter[proc[p].i]] \in ProcRec
            BY <1>p, <1>n, <3>1, ProcUpdates
        <3>4. QED
            BY <1>p, <3>2, <3>3
    <2>4. filter' \in [Cpu -> Sf \cup {NULL}]
        BY <1>5, <1>t, <2>2 DEF Cleanup
    <2>5. QED
        BY <2>1, <2>3, <2>4, <1>5, <1>t, <1>a, <1>e DEF Cleanup
<1>6. ASSUME NEW p \in Proc, CleanupFree(p) PROVE TypeInv'
    <2>1. Hands'
        BY <1>6, <1>h, <1>n, CleanupFreeEffect DEF Hands
    <2>2. mem' \in [Sf -> Prog \cup {NULL}]
        BY <1>6, CleanupFreeEffect, ProcFields, FreedType
    <2>3. proc' \in [Proc -> ProcRec]
        <3>1. proc' = [proc EXCEPT ![p] =
                  IF proc[p].i = NCpu
                  THEN IF proc[p].prog = NULL THEN Idle
                       ELSE [proc[p] EXCEPT !.i = 1, !.pc = "init", !.old = NULL]
                  ELSE [proc[p] EXCEPT !.i = @ + 1, !.pc = "cleanup", !.old = NULL]]
            BY <1>6 DEF CleanupFree, NextCpu
        <3>2. proc[p].i # NCpu => proc[p].i + 1 \in Cpu
            BY ProcFields, CpuAssumption DEF Cpu
        <3>3. Idle \in ProcRec
            BY <1>n DEF ProcRec, Idle
        <3>4. [proc[p] EXCEPT !.i = 1, !.pc = "init", !.old = NULL] \in ProcRec
            BY <1>p, <1>n, ProcUpdates
        <3>5. proc[p].i # NCpu =>
                  [proc[p] EXCEPT !.i = @ + 1, !.pc = "cleanup", !.old = NULL] \in ProcRec
            BY <1>p, <3>2, ProcUpdates
        <3>6. QED
            BY <3>1, <3>3, <3>4, <3>5, <1>p
    <2>4. block' \in {"free", "in", "down", "rcu"} /\ result' \in Prog \cup {NULL}
        BY <1>6, <1>t DEF CleanupFree
    <2>5. QED
        BY <2>1, <2>2, <2>3, <2>4, <1>6, <1>t, <1>a, <1>e DEF CleanupFree
<1>7. ASSUME NEW p \in Proc, InitFilter(p) PROVE TypeInv'
    <2>1. Hands'
        BY <1>7, <1>h, <1>n, InitFilterEffect DEF Hands
    <2>2. mem' \in [Sf -> Prog \cup {NULL}]
        BY <1>7, <1>t, InitFilterEffect
    <2>3. proc' \in [Proc -> ProcRec]
        BY <1>7, <1>p, <1>n DEF InitFilter, Idle, ProcRec
    <2>4. QED
        BY <2>1, <2>2, <2>3, <1>7, <1>t, <1>a, <1>e DEF InitFilter
<1>8. ASSUME NEW p \in Proc, InitSwap(p) PROVE TypeInv'
    <2>1. Hands'
        BY <1>8, <1>h, <1>n, InitSwapEffect DEF Hands
    <2>2. proc[p].i \in Cpu /\ proc[p].new \in Sf
        BY <1>8, InitSwapEffect
    <2>3. proc' \in [Proc -> ProcRec]
        <3>1. filter[proc[p].i] \in Sf \cup {NULL}
            BY <1>t, <2>2
        <3>2. proc' = [proc EXCEPT ![p].pc = "swapped", ![p].new = NULL,
                                   ![p].old = filter[proc[p].i]]
            BY <1>8 DEF InitSwap
        <3>3. [proc[p] EXCEPT !.pc = "swapped", !.new = NULL, !.old = filter[proc[p].i]]
                  \in ProcRec
            BY <1>p, <1>n, <3>1, ProcUpdates
        <3>4. QED
            BY <1>p, <3>2, <3>3
    <2>4. filter' \in [Cpu -> Sf \cup {NULL}]
        BY <1>8, <1>t, <2>2 DEF InitSwap
    <2>5. QED
        BY <2>1, <2>3, <2>4, <1>8, <1>t, <1>a, <1>e DEF InitSwap
<1>9. ASSUME NEW p \in Proc, InitFree(p) PROVE TypeInv'
    <2>1. Hands'
        BY <1>9, <1>h, <1>n, InitFreeEffect DEF Hands
    <2>2. mem' \in [Sf -> Prog \cup {NULL}] /\ result' \in Prog \cup {NULL}
        BY <1>9, <1>t, InitFreeEffect, ProcFields, FreedType
    <2>3. proc' \in [Proc -> ProcRec]
        <3>1. proc' = [proc EXCEPT ![p] =
                  IF proc[p].i = NCpu THEN Idle
                  ELSE [proc[p] EXCEPT !.i = @ + 1, !.pc = "init", !.old = NULL]]
            BY <1>9 DEF InitFree, NextCpu
        <3>2. proc[p].i # NCpu => proc[p].i + 1 \in Cpu
            BY ProcFields, CpuAssumption DEF Cpu
        <3>3. Idle \in ProcRec
            BY <1>n DEF ProcRec, Idle
        <3>4. proc[p].i # NCpu =>
                  [proc[p] EXCEPT !.i = @ + 1, !.pc = "init", !.old = NULL] \in ProcRec
            BY <1>p, <3>2, ProcUpdates
        <3>5. QED
            BY <3>1, <3>3, <3>4, <1>p
    <2>4. QED
        BY <2>1, <2>2, <2>3, <1>9, <1>t, <1>a, <1>e DEF InitFree
<1>10. ASSUME NEW c \in Cpu, RunFilter(c) PROVE TypeInv'
    <2>1. Hands'
        BY <1>10, <1>h DEF RunFilter, Hands
    <2>2. rx' \in [Cpu -> RxRec]
        BY <1>10, <1>t DEF RunFilter, RxRec
    <2>3. QED
        BY <2>1, <2>2, <1>10, <1>t, <1>a, <1>p, <1>e DEF RunFilter
<1>11. ASSUME NEW c \in Cpu, FilterDone(c) PROVE TypeInv'
    <2>1. Hands'
        BY <1>11, <1>h DEF FilterDone, Hands
    <2>2. rx' \in [Cpu -> RxRec]
        BY <1>11, <1>t DEF FilterDone, NoRx, RxRec
    <2>3. QED
        BY <2>1, <2>2, <1>11, <1>t, <1>a, <1>p, <1>e DEF FilterDone
<1>12. CASE UNCHANGED vars
    BY <1>12 DEF vars, TypeInv, TypeOK, Hands
<1>13. QED
    BY <1>1, <1>2, <1>3, <1>4, <1>5, <1>6, <1>7, <1>8, <1>9, <1>10, <1>11, <1>12
       DEF Next

(* Type correctness in every behaviour. *)
THEOREM TypeCorrect == Spec => []TypeOK
<1>1. TypeInv => TypeOK
    BY DEF TypeInv
<1>2. QED
    BY TypeInvInit, TypeInvStep, <1>1, PTL DEF Spec

-----------------------------------------------------------------------------
(* Nothing is allocated at first. *)
LEMMA SafeInit == Init => SafeInv
BY DEF Init, SafeInv, Sole, CpuOnce, NewOnce, OldOnce, CpuNotHand, NewNotOld,
       CpuInMem, HandInMem, RunsOwn, Quiet, Idle, NoRx

(* The steps that take all filters of the block away, which nobody uses. *)
LEMMA SafeEmptied ==
    ASSUME SafeInv, filter' = [c \in Cpu |-> NULL], UNCHANGED <<mem, proc, rx>>,
           \A c \in Cpu : ~rx[c].flock
    PROVE  SafeInv'
BY DEF SafeInv, Sole, CpuOnce, NewOnce, OldOnce, CpuNotHand, NewNotOld,
       CpuInMem, HandInMem, RunsOwn, Quiet

(* The steps of a process that leave filters and memory alone and have     *)
(* nothing in their hands.                                                 *)
LEMMA SafeEmptyHands ==
    ASSUME SafeInv, NEW p \in Proc, \A q \in Proc : q # p => proc'[q] = proc[q],
           proc'[p].new = NULL, proc'[p].old = NULL,
           UNCHANGED <<filter, mem, rx>>, block' # "free"
    PROVE  SafeInv'
<1>1. Sole'
    BY DEF SafeInv, Sole, CpuOnce, NewOnce, OldOnce, CpuNotHand, NewNotOld
<1>2. CpuInMem' /\ HandInMem' /\ RunsOwn' /\ Quiet'
    BY DEF SafeInv, CpuInMem, HandInMem, RunsOwn, Quiet
<1>3. QED
    BY <1>1, <1>2 DEF SafeInv

(* The steps in which a process frees what it holds as old. *)
LEMMA SafeFreed ==
    ASSUME TypeInv, SafeInv, NEW p \in Proc,
           \A q \in Proc : q # p => proc'[q] = proc[q],
           proc[p].new = NULL, proc'[p].new = NULL, proc'[p].old = NULL,
           mem' = Freed(proc[p].old),
           UNCHANGED <<filter, rx>>, block = "free" <=> block' = "free"
    PROVE  SafeInv'
<1>1. filter \in [Cpu -> Sf \cup {NULL}] /\ proc[p].old \in Sf \cup {NULL}
    BY ProcFields DEF TypeInv, TypeOK
<1>2. \A g \in Sf : mem'[g] = IF g = proc[p].old THEN NULL ELSE mem[g]
    BY <1>1, FreedType
<1>3. \A q \in Proc : proc[q].new \in Sf \cup {NULL} /\ proc[q].old \in Sf \cup {NULL}
    BY ProcFields
<1>4. Sole'
    BY DEF SafeInv, Sole, CpuOnce, NewOnce, OldOnce, CpuNotHand, NewNotOld
<1>5. CpuInMem'
    BY <1>1, <1>2 DEF SafeInv, Sole, CpuNotHand, CpuInMem
<1>6. HandInMem'
    BY <1>2, <1>3 DEF SafeInv, Sole, OldOnce, NewNotOld, HandInMem
<1>7. RunsOwn' /\ Quiet'
    BY DEF SafeInv, RunsOwn, Quiet
<1>8. QED
    BY <1>4, <1>5, <1>6, <1>7 DEF SafeInv

(* Every step keeps each filter in one place and in memory. *)
LEMMA SafeStep == TypeInv /\ SafeInv /\ [Next]_vars => SafeInv'
<1> SUFFICES ASSUME TypeInv, SafeInv, [Next]_vars PROVE SafeInv'
    OBVIOUS
<1>t. /\ filter \in [Cpu -> Sf \cup {NULL}]
      /\ mem \in [Sf -> Prog \cup {NULL}]
      /\ rx \in [Cpu -> RxRec]
    BY DEF TypeInv, TypeOK
<1>h. \A q \in Proc : proc[q].new \in Sf \cup {NULL} /\ proc[q].old \in Sf \cup {NULL}
    BY ProcFields
<1>s. /\ CpuOnce /\ NewOnce /\ OldOnce /\ CpuNotHand /\ NewNotOld
      /\ CpuInMem /\ HandInMem /\ RunsOwn /\ Quiet
    BY DEF SafeInv, Sole
<1>n. NULL \notin Prog /\ NULL \notin Sf
    BY ProgAssumption
<1>1. CASE Ctor
    BY <1>1, <1>s, SafeEmptied DEF Ctor, Quiet
<1>2. CASE RcuFree
    BY <1>2, SafeEmptied DEF RcuFree
<1>3. ASSUME NEW p \in Proc, NEW g \in Prog, Write(p, g) PROVE SafeInv'
    <2>1. block' # "free"
        BY <1>3 DEF Write
    <2>2. QED
        BY <2>1, <1>3, WriteEffect, SafeEmptyHands
<1>4. ASSUME NEW p \in Proc, Remove(p) PROVE SafeInv'
    BY <1>4, RemoveEffect, SafeEmptyHands
<1>5. ASSUME NEW p \in Proc, Cleanup(p) PROVE SafeInv'
    <2>1. /\ \A q \in Proc : q # p => proc'[q] = proc[q]
          /\ proc'[p].new = NULL /\ proc'[p].old = filter[proc[p].i]
          /\ proc[p].new = NULL /\ proc[p].old = NULL
          /\ proc[p].i \in Cpu /\ ~rx[proc[p].i].flock
          /\ filter'[proc[p].i] = NULL
          /\ \A c \in Cpu : c # proc[p].i => filter'[c] = filter[c]
          /\ mem' = mem /\ rx' = rx /\ block' = block
        BY <1>5, CleanupEffect
    <2>2. CpuOnce' /\ NewOnce'
        BY <2>1, <1>s DEF CpuOnce, NewOnce
    <2>3. OldOnce'
        BY <2>1, <1>s DEF OldOnce, CpuNotHand
    <2>4. CpuNotHand' /\ NewNotOld'
        BY <2>1, <1>s DEF CpuNotHand, NewNotOld, CpuOnce
    <2>5. CpuInMem' /\ HandInMem'
        BY <2>1, <1>s DEF CpuInMem, HandInMem
    <2>6. RunsOwn' /\ Quiet'
        BY <2>1, <1>s DEF RunsOwn, Quiet
    <2>7. QED
        BY <2>2, <2>3, <2>4, <2>5, <2>6 DEF SafeInv, Sole
<1>6. ASSUME NEW p \in Proc, CleanupFree(p) PROVE SafeInv'
    <2>1. /\ \A q \in Proc : q # p => proc'[q] = proc[q]
          /\ proc[p].new = NULL /\ proc'[p].new = NULL /\ proc'[p].old = NULL
          /\ mem' = Freed(proc[p].old) /\ filter' = filter /\ rx' = rx
        BY <1>6, CleanupFreeEffect
    <2>2. block = "free" <=> block' = "free"
        BY <1>6, CleanupFreeEffect
    <2>3. QED
        BY <2>1, <2>2, SafeFreed
<1>7. ASSUME NEW p \in Proc, InitFilter(p) PROVE SafeInv'
    <2>0. /\ \A q \in Proc : q # p => proc'[q] = proc[q]
          /\ proc[p].new = NULL /\ proc[p].old = NULL /\ proc[p].prog \in Prog
          /\ filter' = filter /\ rx' = rx /\ block' = block
        BY <1>7, InitFilterEffect
    <2>1. ASSUME NEW f \in Sf, mem[f] = NULL, mem' = [mem EXCEPT ![f] = proc[p].prog],
                 proc'[p].new = f, proc'[p].old = NULL
          PROVE  SafeInv'
        <3>1. /\ \A c \in Cpu : filter[c] # f
              /\ \A q \in Proc : proc[q].new # f /\ proc[q].old # f
            BY <2>1, <1>n, <1>s DEF CpuInMem, HandInMem
        <3>2. \A x \in Sf : mem[x] # NULL => mem'[x] # NULL
            BY <2>0, <2>1, <1>t, <1>n
        <3>3. mem'[f] # NULL
            BY <2>0, <2>1, <1>t, <1>n
        <3>4. CpuOnce' /\ NewOnce' /\ OldOnce'
            BY <2>0, <2>1, <3>1, <1>s DEF CpuOnce, NewOnce, OldOnce
        <3>5. CpuNotHand' /\ NewNotOld'
            BY <2>0, <2>1, <3>1, <1>s DEF CpuNotHand, NewNotOld
        <3>6. CpuInMem' /\ HandInMem'
            BY <2>0, <2>1, <3>2, <3>3, <1>s, <1>t, <1>h DEF CpuInMem, HandInMem
        <3>7. RunsOwn' /\ Quiet'
            BY <2>0, <1>s DEF RunsOwn, Quiet
        <3>8. QED
            BY <3>4, <3>5, <3>6, <3>7 DEF SafeInv, Sole
    <2>2. CASE mem' = mem /\ proc'[p].new = NULL /\ proc'[p].old = NULL
        <3>1. CpuOnce' /\ NewOnce' /\ OldOnce' /\ CpuNotHand' /\ NewNotOld'
            BY <2>0, <2>2, <1>s DEF CpuOnce, NewOnce, OldOnce, CpuNotHand, NewNotOld
        <3>2. CpuInMem' /\ HandInMem' /\ RunsOwn' /\ Quiet'
            BY <2>0, <2>2, <1>s DEF CpuInMem, HandInMem, RunsOwn, Quiet
        <3>3. QED
            BY <3>1, <3>2 DEF SafeInv, Sole
    <2>3. QED
        BY <2>1, <2>2, <1>7, InitFilterEffect
<1>8. ASSUME NEW p \in Proc, InitSwap(p) PROVE SafeInv'
    <2>1. /\ \A q \in Proc : q # p => proc'[q] = proc[q]
          /\ proc[p].new # NULL /\ proc[p].old = NULL
          /\ proc'[p].new = NULL /\ proc'[p].old = filter[proc[p].i]
          /\ proc[p].i \in Cpu /\ ~rx[proc[p].i].flock
          /\ filter'[proc[p].i] = proc[p].new
          /\ \A c \in Cpu : c # proc[p].i => filter'[c] = filter[c]
          /\ mem' = mem /\ rx' = rx /\ block' = block
        BY <1>8, InitSwapEffect
    <2>2. CpuOnce' /\ NewOnce'
        BY <2>1, <1>s DEF CpuOnce, NewOnce, CpuNotHand
    <2>3. OldOnce'
        BY <2>1, <1>s DEF OldOnce, CpuNotHand
    <2>4. CpuNotHand'
        BY <2>1, <1>s DEF CpuNotHand, NewNotOld, NewOnce, CpuOnce
    <2>5. NewNotOld'
        BY <2>1, <1>s DEF CpuNotHand, NewNotOld
    <2>6. CpuInMem' /\ HandInMem'
        BY <2>1, <1>s DEF CpuInMem, HandInMem
    <2>7. RunsOwn' /\ Quiet'
        BY <2>1, <1>s DEF RunsOwn, Quiet
    <2>8. QED
        BY <2>2, <2>3, <2>4, <2>5, <2>6, <2>7 DEF SafeInv, Sole
<1>9. ASSUME NEW p \in Proc, InitFree(p) PROVE SafeInv'
    <2>1. /\ \A q \in Proc : q # p => proc'[q] = proc[q]
          /\ proc[p].new = NULL /\ proc'[p].new = NULL /\ proc'[p].old = NULL
          /\ mem' = Freed(proc[p].old) /\ filter' = filter /\ rx' = rx /\ block' = block
        BY <1>9, InitFreeEffect
    <2>2. QED
        BY <2>1, SafeFreed
<1>10. ASSUME NEW c \in Cpu, RunFilter(c) PROVE SafeInv'
    <2>1. RunsOwn' /\ Quiet'
        BY <1>10, <1>t, <1>s DEF RunFilter, RunsOwn, Quiet
    <2>2. QED
        BY <2>1, <1>10, <1>s DEF RunFilter, SafeInv, Sole, CpuOnce, NewOnce, OldOnce,
           CpuNotHand, NewNotOld, CpuInMem, HandInMem
<1>11. ASSUME NEW c \in Cpu, FilterDone(c) PROVE SafeInv'
    <2>1. RunsOwn' /\ Quiet'
        BY <1>11, <1>t, <1>s DEF FilterDone, RunsOwn, Quiet, NoRx
    <2>2. QED
        BY <2>1, <1>11, <1>s DEF FilterDone, SafeInv, Sole, CpuOnce, NewOnce, OldOnce,
           CpuNotHand, NewNotOld, CpuInMem, HandInMem
<1>12. CASE UNCHANGED vars
    BY <1>12, <1>s DEF vars, SafeInv, Sole, CpuOnce, NewOnce, OldOnce,
       CpuNotHand, NewNotOld, CpuInMem, HandInMem, RunsOwn, Quiet
<1>13. QED
    BY <1>1, <1>2, <1>3, <1>4, <1>5, <1>6, <1>7, <1>8, <1>9, <1>10, <1>11, <1>12
       DEF Next

(* No packet runs a freed filter or one that is not its CPU's any more,    *)
(* with any number of writers, and even while the block is removed under   *)
(* them: flock alone replaces the grace period that kfree does not wait    *)
(* for.                                                                    *)
THEOREM FilterNotFreed == Spec => []NoFreedFilter
<1>1. SafeInv => NoFreedFilter
    BY DEF SafeInv, CpuInMem, RunsOwn, NoFreedFilter
<1>2. QED
    BY TypeInvInit, TypeInvStep, SafeInit, SafeStep, <1>1, PTL DEF Spec

-----------------------------------------------------------------------------
(* The invariants say that a filter in memory has exactly one owner. *)
LEMMA OwnerInvImplies == TypeInv /\ SafeInv /\ OwnerInv => OneOwner
<1> SUFFICES ASSUME TypeInv, SafeInv, OwnerInv, NEW f \in Sf
             PROVE  LET owners == {<<"cpu", c>> : c \in {d \in Cpu : filter[d] = f}}
                          \cup {<<"new", p>> : p \in {q \in Proc : proc[q].new = f}}
                          \cup {<<"old", p>> : p \in {q \in Proc : proc[q].old = f}}
                    IN  Cardinality(owners) = IF mem[f] = NULL THEN 0 ELSE 1
    BY DEF OneOwner
<1> DEFINE cpus == {<<"cpu", c>> : c \in {d \in Cpu : filter[d] = f}}
           news == {<<"new", p>> : p \in {q \in Proc : proc[q].new = f}}
           olds == {<<"old", p>> : p \in {q \in Proc : proc[q].old = f}}
<1>n. f # NULL
    BY ProgAssumption
<1>s. /\ CpuOnce /\ NewOnce /\ OldOnce /\ CpuNotHand /\ NewNotOld
      /\ CpuInMem /\ HandInMem /\ NotLeaked
    BY DEF SafeInv, Sole, OwnerInv
<1>1. CASE mem[f] = NULL
    <2>1. cpus = {} /\ news = {} /\ olds = {}
        BY <1>1, <1>n, <1>s DEF CpuInMem, HandInMem
    <2>2. cpus \cup news \cup olds = {}
        BY <2>1
    <2>3. QED
        BY <2>2, <1>1, FS_EmptySet
<1>2. CASE mem[f] # NULL
    <2>1. ASSUME NEW c \in Cpu, filter[c] = f
          PROVE  cpus \cup news \cup olds = {<<"cpu", c>>}
        <3>1. news = {} /\ olds = {}
            BY <2>1, <1>n, <1>s DEF CpuNotHand
        <3>2. cpus = {<<"cpu", c>>}
            BY <2>1, <1>n, <1>s DEF CpuOnce
        <3>3. QED
            BY <3>1, <3>2
    <2>2. ASSUME NEW p \in Proc, proc[p].new = f
          PROVE  cpus \cup news \cup olds = {<<"new", p>>}
        <3>1. cpus = {} /\ olds = {}
            BY <2>2, <1>n, <1>s DEF CpuNotHand, NewNotOld
        <3>2. news = {<<"new", p>>}
            BY <2>2, <1>n, <1>s DEF NewOnce
        <3>3. QED
            BY <3>1, <3>2
    <2>3. ASSUME NEW p \in Proc, proc[p].old = f
          PROVE  cpus \cup news \cup olds = {<<"old", p>>}
        <3>1. cpus = {} /\ news = {}
            BY <2>3, <1>n, <1>s DEF CpuNotHand, NewNotOld
        <3>2. olds = {<<"old", p>>}
            BY <2>3, <1>n, <1>s DEF OldOnce
        <3>3. QED
            BY <3>1, <3>2
    <2>4. \E o : cpus \cup news \cup olds = {o}
        BY <2>1, <2>2, <2>3, <1>2, <1>s DEF NotLeaked
    <2>5. QED
        BY <2>4, <1>2, FS_Singleton
<1>3. QED
    BY <1>1, <1>2

(* No block and no filter at first. *)
LEMMA OwnerInit == Init => OwnerInv
BY DEF Init, OwnerInv, DownAlone, DownEmpty, NotLeaked, Busy, Idle

(* Every step keeps each filter in somebody's hands, if the block is only  *)
(* removed while nobody writes to it.                                      *)
LEMMA OwnerStep ==
    ASSUME RacingRemoval = FALSE, TypeInv, SafeInv, OwnerInv, [Next]_vars
    PROVE  OwnerInv'
<1>t. /\ filter \in [Cpu -> Sf \cup {NULL}]
      /\ mem \in [Sf -> Prog \cup {NULL}]
      /\ block \in {"free", "in", "down", "rcu"}
    BY DEF TypeInv, TypeOK
<1>h. \A q \in Proc : /\ proc[q].i \in 1 .. NCpu
                      /\ proc[q].new \in Sf \cup {NULL} /\ proc[q].old \in Sf \cup {NULL}
    BY ProcFields
<1>o. DownAlone /\ DownEmpty /\ NotLeaked
    BY DEF OwnerInv
<1>n. NULL \notin Prog /\ NULL \notin Sf /\ NCpu \in Nat
    BY ProgAssumption, CpuAssumption
<1>r. \A q \in Proc : proc[q].new # NULL \/ proc[q].old # NULL => Busy(q)
    BY DEF TypeInv, Hands, Busy
<1>1. CASE Ctor
    <2>1. \A c \in Cpu : filter[c] = NULL
        BY <1>1, <1>o DEF Ctor, DownEmpty
    <2>2. NotLeaked'
        BY <1>1, <2>1, <1>o, <1>n DEF Ctor, NotLeaked
    <2>3. QED
        BY <2>2, <1>1 DEF Ctor, OwnerInv, DownAlone, DownEmpty
<1>2. CASE RcuFree
    <2>1. \A c \in Cpu : filter[c] = NULL
        BY <1>2, <1>o DEF RcuFree, DownEmpty
    <2>2. NotLeaked'
        BY <1>2, <2>1, <1>o, <1>n DEF RcuFree, NotLeaked
    <2>3. DownEmpty' /\ DownAlone'
        BY <1>2, <1>o DEF RcuFree, DownEmpty, DownAlone, Busy
    <2>4. QED
        BY <2>2, <2>3 DEF OwnerInv
<1>3. ASSUME NEW p \in Proc, NEW g \in Prog, Write(p, g) PROVE OwnerInv'
    <2>1. block = "in" /\ block' = "in"
        BY <1>3 DEF Write
    <2>2. NotLeaked'
        BY <1>3, <1>o, <1>n, WriteEffect DEF NotLeaked
    <2>3. QED
        BY <2>1, <2>2 DEF OwnerInv, DownAlone, DownEmpty
<1>4. ASSUME NEW p \in Proc, Remove(p) PROVE OwnerInv'
    <2>1. /\ \A q \in Proc : q # p => proc'[q] = proc[q] /\ proc[q].pc = "idle"
          /\ proc'[p].pc = "cleanup" /\ proc'[p].i = 1 /\ proc'[p].prog = NULL
          /\ block' = "down" /\ filter' = filter
        BY <1>4, RemoveEffect DEF Remove, Others
    <2>2. NotLeaked'
        BY <1>4, <1>o, <1>n, RemoveEffect DEF NotLeaked
    <2>3. DownAlone'
        <3>1. \A c \in Cpu : ~(c < 1)
            BY <1>n DEF Cpu
        <3>2. QED
            BY <2>1, <3>1 DEF DownAlone, Busy, Emptied
    <2>4. QED
        BY <2>1, <2>2, <2>3 DEF OwnerInv, DownEmpty
<1>5. ASSUME NEW p \in Proc, Cleanup(p) PROVE OwnerInv'
    <2>1. /\ \A q \in Proc : q # p => proc'[q] = proc[q]
          /\ proc[p].pc = "cleanup" /\ proc'[p].pc = "cleaned"
          /\ proc'[p].i = proc[p].i /\ proc'[p].prog = proc[p].prog
          /\ proc[p].new = NULL /\ proc[p].old = NULL
          /\ proc'[p].new = NULL /\ proc'[p].old = filter[proc[p].i]
          /\ proc[p].i \in Cpu
          /\ filter'[proc[p].i] = NULL
          /\ \A c \in Cpu : c # proc[p].i => filter'[c] = filter[c]
          /\ mem' = mem /\ block' = block
        BY <1>5, CleanupEffect
    <2>2. NotLeaked'
        BY <2>1, <1>o, <1>n DEF NotLeaked
    <2>3. DownAlone'
        <3>1. \A c \in Cpu : c \in Nat /\ (c <= proc[p].i => c < proc[p].i \/ c = proc[p].i)
            BY <1>h DEF Cpu
        <3>2. Busy(p) /\ Busy(p)' /\ \A q \in Proc : Busy(q)' => Busy(q)
            BY <2>1 DEF Busy
        <3>3. Emptied(p) => Emptied(p)'
            BY <2>1, <3>1 DEF Emptied
        <3>4. QED
            BY <2>1, <3>2, <3>3, <1>o DEF DownAlone
    <2>4. DownEmpty'
        BY <2>1, <1>o DEF DownEmpty, Busy
    <2>5. QED
        BY <2>2, <2>3, <2>4 DEF OwnerInv
<1>6. ASSUME NEW p \in Proc, CleanupFree(p) PROVE OwnerInv'
    <2>1. /\ \A q \in Proc : q # p => proc'[q] = proc[q]
          /\ proc[p].pc = "cleaned" /\ proc[p].i \in 1 .. NCpu
          /\ proc[p].new = NULL /\ proc'[p].new = NULL /\ proc'[p].old = NULL
          /\ mem' = Freed(proc[p].old) /\ filter' = filter
        BY <1>6, CleanupFreeEffect
    <2>2. \A g \in Sf : mem'[g] = IF g = proc[p].old THEN NULL ELSE mem[g]
        BY <2>1, <1>h, FreedType
    <2>3. NotLeaked'
        BY <2>1, <2>2, <1>o, <1>n DEF NotLeaked
    <2>4. block # "free" /\ block # "rcu"
        BY <2>1, <1>o DEF DownEmpty, Busy
    <2>5. CASE proc[p].i < NCpu /\ proc'[p].pc = "cleanup" /\ block' = block
               /\ proc'[p].i = proc[p].i + 1 /\ proc'[p].prog = proc[p].prog
        <3>1. \A c \in Cpu : c < proc[p].i + 1 => c <= proc[p].i
            BY <1>h DEF Cpu
        <3>2. Emptied(p) => Emptied(p)'
            BY <2>1, <2>5, <3>1 DEF Emptied
        <3>3. Busy(p) /\ Busy(p)' /\ \A q \in Proc : Busy(q)' => Busy(q)
            BY <2>1, <2>5 DEF Busy
        <3>4. DownAlone'
            BY <2>5, <3>2, <3>3, <1>o DEF DownAlone
        <3>5. QED
            BY <2>3, <2>4, <2>5, <3>4 DEF OwnerInv, DownEmpty
    <2>6. CASE proc[p].i = NCpu /\ proc[p].prog = NULL /\ proc'[p].pc = "idle"
               /\ block' = IF block = "down" THEN "rcu" ELSE block
        <3>1. CASE block = "in"
            BY <3>1, <2>3, <2>6 DEF OwnerInv, DownAlone, DownEmpty
        <3>2. CASE block = "down"
            <4>1. PICK r \in Proc : /\ Busy(r) /\ Emptied(r)
                                    /\ \A q \in Proc : Busy(q) => q = r
                BY <3>2, <1>o DEF DownAlone
            <4>2. r = p
                BY <4>1, <2>1 DEF Busy
            <4>3. \A c \in Cpu : c <= NCpu
                BY <1>n DEF Cpu
            <4>4. \A c \in Cpu : filter[c] = NULL
                BY <4>1, <4>2, <4>3, <2>1, <2>6 DEF Emptied
            <4>5. \A q \in Proc : ~Busy(q)'
                BY <4>1, <4>2, <2>1, <2>6 DEF Busy
            <4>6. QED
                BY <3>2, <2>1, <2>3, <2>6, <4>4, <4>5 DEF OwnerInv, DownAlone, DownEmpty
        <3>3. QED
            BY <3>1, <3>2, <2>4, <1>t
    <2>7. CASE proc[p].i = NCpu /\ proc[p].prog # NULL /\ block' = block
        <3>1. block # "down"
            BY <2>1, <2>7, <1>o DEF DownAlone, Busy
        <3>2. QED
            BY <3>1, <2>3, <2>4, <2>7 DEF OwnerInv, DownAlone, DownEmpty
    <2>8. QED
        BY <2>5, <2>6, <2>7, <1>6, CleanupFreeEffect
<1>7. ASSUME NEW p \in Proc, InitFilter(p) PROVE OwnerInv'
    <2>1. /\ \A q \in Proc : q # p => proc'[q] = proc[q]
          /\ proc[p].pc = "init" /\ proc[p].new = NULL /\ proc[p].old = NULL
          /\ proc[p].prog \in Prog
          /\ filter' = filter /\ block' = block
        BY <1>7, InitFilterEffect
    <2>2. block = "in"
        BY <2>1, <1>o, <1>n, <1>t DEF DownAlone, DownEmpty, Busy
    <2>3. NotLeaked'
        <3>1. CASE mem' = mem
            BY <3>1, <2>1, <1>o, <1>n DEF NotLeaked
        <3>2. ASSUME NEW f \in Sf, mem' = [mem EXCEPT ![f] = proc[p].prog], proc'[p].new = f
              PROVE  NotLeaked'
            BY <3>2, <2>1, <1>o, <1>n, <1>t DEF NotLeaked
        <3>3. QED
            BY <3>1, <3>2, <1>7, InitFilterEffect
    <2>4. QED
        BY <2>1, <2>2, <2>3 DEF OwnerInv, DownAlone, DownEmpty
<1>8. ASSUME NEW p \in Proc, InitSwap(p) PROVE OwnerInv'
    <2>1. /\ \A q \in Proc : q # p => proc'[q] = proc[q]
          /\ proc[p].pc = "swap" /\ proc[p].prog \in Prog
          /\ proc[p].old = NULL
          /\ proc'[p].old = filter[proc[p].i] /\ proc[p].i \in Cpu
          /\ filter'[proc[p].i] = proc[p].new
          /\ \A c \in Cpu : c # proc[p].i => filter'[c] = filter[c]
          /\ mem' = mem /\ block' = block
        BY <1>8, InitSwapEffect
    <2>2. block = "in"
        BY <2>1, <1>o, <1>n, <1>t DEF DownAlone, DownEmpty, Busy
    <2>3. NotLeaked'
        BY <2>1, <1>o, <1>n DEF NotLeaked
    <2>4. QED
        BY <2>1, <2>2, <2>3 DEF OwnerInv, DownAlone, DownEmpty
<1>9. ASSUME NEW p \in Proc, InitFree(p) PROVE OwnerInv'
    <2>1. /\ \A q \in Proc : q # p => proc'[q] = proc[q]
          /\ proc[p].pc = "swapped" /\ proc[p].prog \in Prog
          /\ proc[p].new = NULL /\ proc'[p].new = NULL /\ proc'[p].old = NULL
          /\ mem' = Freed(proc[p].old) /\ filter' = filter /\ block' = block
        BY <1>9, InitFreeEffect
    <2>2. \A g \in Sf : mem'[g] = IF g = proc[p].old THEN NULL ELSE mem[g]
        BY <2>1, <1>h, FreedType
    <2>3. block = "in"
        BY <2>1, <1>o, <1>n, <1>t DEF DownAlone, DownEmpty, Busy
    <2>4. NotLeaked'
        BY <2>1, <2>2, <1>o, <1>n DEF NotLeaked
    <2>5. QED
        BY <2>1, <2>3, <2>4 DEF OwnerInv, DownAlone, DownEmpty
<1>10. ASSUME NEW c \in Cpu, RunFilter(c) \/ FilterDone(c) PROVE OwnerInv'
    BY <1>10, <1>o DEF RunFilter, FilterDone, OwnerInv, DownAlone, DownEmpty,
       NotLeaked, Busy, Emptied
<1>11. CASE UNCHANGED vars
    BY <1>11, <1>o DEF vars, OwnerInv, DownAlone, DownEmpty, NotLeaked, Busy, Emptied
<1>12. QED
    BY <1>1, <1>2, <1>3, <1>4, <1>5, <1>6, <1>7, <1>8, <1>9, <1>10, <1>11
       DEF Next

(* Where the block is not removed under its writers, every filter in       *)
(* memory has exactly one owner, however the writers overlap and wherever  *)
(* an injection fails: no leak and no double kfree.                        *)
THEOREM FilterHasOneOwner ==
    ASSUME RacingRemoval = FALSE
    PROVE  Spec => []OneOwner
<1>1. TypeInv /\ SafeInv /\ OwnerInv /\ [Next]_vars => OwnerInv'
    BY OwnerStep
<1>2. QED
    BY TypeInvInit, TypeInvStep, SafeInit, SafeStep, OwnerInit, <1>1,
       OwnerInvImplies, PTL DEF Spec

-----------------------------------------------------------------------------
(* Nobody writes at first. *)
LEMMA AloneInit == Init => AloneInv /\ AllOrNothing
BY DEF Init, AloneInv, AllOrNothing, Busy, Idle

(* A writer that is alone keeps its promise step by step: the CPUs before  *)
(* it are done, those after it untouched.                                  *)
LEMMA AloneStep ==
    ASSUME TypeInv, SafeInv, OwnerInv, AloneInv, AllOrNothing, [Next]_vars
    PROVE  AloneInv' /\ AllOrNothing'
<1>t. /\ filter \in [Cpu -> Sf \cup {NULL}]
      /\ mem \in [Sf -> Prog \cup {NULL}]
    BY DEF TypeInv, TypeOK
<1>h. \A q \in Proc : /\ proc[q].i \in 1 .. NCpu
                      /\ proc[q].new \in Sf \cup {NULL} /\ proc[q].old \in Sf \cup {NULL}
    BY ProcFields
<1>n. /\ NULL \notin Prog /\ NULL \notin Sf /\ NCpu \in Nat
      /\ \A c \in Cpu : c \in Nat /\ c <= NCpu /\ ~(c < 1)
    BY ProgAssumption, CpuAssumption DEF Cpu
<1>s. CpuNotHand /\ CpuInMem /\ HandInMem
    BY DEF SafeInv, Sole
<1>b. ASSUME NEW p \in Proc, Busy(p)', alone' => alone,
             \A q \in Proc : Busy(q)' => Busy(q),
             alone /\ (\A q \in Proc : Busy(q) => q = p) /\ Emptied(p) /\ Filled(p)
                 => Emptied(p)' /\ Filled(p)'
      PROVE  AloneInv' /\ AllOrNothing'
    <2>1. AllOrNothing'
        BY <1>b DEF AllOrNothing, Busy
    <2>2. AloneInv'
        BY <1>b DEF AloneInv
    <2>3. QED
        BY <2>1, <2>2
<1>f. ASSUME NEW p \in Proc, Busy(p), ~Busy(p)', alone' => alone,
             \A q \in Proc : Busy(q)' => Busy(q),
             alone /\ (\A q \in Proc : Busy(q) => q = p) /\ Emptied(p) /\ Filled(p)
                 => AllOrNothing'
      PROVE  AloneInv' /\ AllOrNothing'
    <2>1. CASE alone
        <3>1. (\A q \in Proc : Busy(q) => q = p) /\ Emptied(p) /\ Filled(p)
            BY <2>1, <1>f DEF AloneInv
        <3>2. \A q \in Proc : ~Busy(q)'
            BY <3>1, <1>f
        <3>3. QED
            BY <2>1, <3>1, <3>2, <1>f DEF AloneInv
    <2>2. CASE ~alone
        BY <2>2, <1>f DEF AloneInv, AllOrNothing
    <2>3. QED
        BY <2>1, <2>2
<1>w. ASSUME NEW p \in Proc, proc'[p].pc = "cleanup", proc'[p].i = 1,
             \A q \in Proc : q # p => proc'[q] = proc[q],
             alone' => \A q \in Proc : q # p => ~Busy(q)
      PROVE  AloneInv' /\ AllOrNothing'
    <2>1. Emptied(p)' /\ Filled(p)' /\ Busy(p)'
        BY <1>w, <1>n DEF Emptied, Filled, Busy
    <2>2. \A q \in Proc : q # p => (Busy(q)' <=> Busy(q))
        BY <1>w DEF Busy
    <2>3. AloneInv'
        BY <2>1, <2>2, <1>w DEF AloneInv
    <2>4. AllOrNothing'
        BY <2>1 DEF AllOrNothing, Busy
    <2>5. QED
        BY <2>3, <2>4
<1>1. CASE Ctor
    <2>1. \A q \in Proc : ~Busy(q)'
        BY <1>1 DEF Ctor, OwnerInv, DownEmpty, Busy
    <2>2. AloneInv'
        BY <2>1 DEF AloneInv
    <2>3. AllOrNothing'
        BY <1>1 DEF Ctor, AllOrNothing
    <2>4. QED
        BY <2>2, <2>3
<1>2. CASE RcuFree
    <2>1. \A q \in Proc : ~Busy(q)'
        BY <1>2 DEF RcuFree, OwnerInv, DownEmpty, Busy
    <2>2. AloneInv'
        BY <2>1 DEF AloneInv
    <2>3. AllOrNothing'
        BY <1>2 DEF RcuFree, AllOrNothing
    <2>4. QED
        BY <2>2, <2>3
<1>3. ASSUME NEW p \in Proc, NEW g \in Prog, Write(p, g) PROVE AloneInv' /\ AllOrNothing'
    <2>1. alone' => \A q \in Proc : q # p => ~Busy(q)
        BY <1>3 DEF Write, Others, Busy
    <2>2. QED
        BY <2>1, <1>3, <1>w, WriteEffect
<1>4. ASSUME NEW p \in Proc, Remove(p) PROVE AloneInv' /\ AllOrNothing'
    <2>1. alone' => \A q \in Proc : q # p => ~Busy(q)
        BY <1>4 DEF Remove, Others, Busy
    <2>2. QED
        BY <2>1, <1>4, <1>w, RemoveEffect
<1>5. ASSUME NEW p \in Proc, Cleanup(p) PROVE AloneInv' /\ AllOrNothing'
    <2>1. /\ \A q \in Proc : q # p => proc'[q] = proc[q]
          /\ proc[p].pc = "cleanup" /\ proc'[p].pc = "cleaned"
          /\ proc'[p].i = proc[p].i /\ proc[p].i \in Cpu
          /\ filter'[proc[p].i] = NULL
          /\ \A c \in Cpu : c # proc[p].i => filter'[c] = filter[c]
        BY <1>5, CleanupEffect
    <2>2. alone' = alone
        BY <1>5, CleanupEffect
    <2>3. Busy(p)' /\ \A q \in Proc : Busy(q)' => Busy(q)
        BY <2>1 DEF Busy
    <2>4. Emptied(p) => Emptied(p)' /\ Filled(p)'
        <3>1. \A c \in Cpu : c <= proc[p].i => c < proc[p].i \/ c = proc[p].i
            BY <1>n, <1>h
        <3>2. QED
            BY <2>1, <3>1 DEF Emptied, Filled
    <2>5. QED
        BY <2>2, <2>3, <2>4, <1>b
<1>6. ASSUME NEW p \in Proc, CleanupFree(p) PROVE AloneInv' /\ AllOrNothing'
    <2>1. /\ \A q \in Proc : q # p => proc'[q] = proc[q]
          /\ proc[p].pc = "cleaned" /\ proc[p].i \in 1 .. NCpu
          /\ filter' = filter
        BY <1>6, CleanupFreeEffect
    <2>2. alone' = alone
        BY <1>6, CleanupFreeEffect
    <2>3. Busy(p) /\ \A q \in Proc : Busy(q)' => Busy(q)
        BY <2>1 DEF Busy
    <2>4. CASE proc[p].i < NCpu /\ proc'[p].pc = "cleanup" /\ proc'[p].i = proc[p].i + 1
        <3>1. \A c \in Cpu : c < proc[p].i + 1 => c <= proc[p].i
            BY <1>n, <1>h
        <3>2. Emptied(p) => Emptied(p)' /\ Filled(p)'
            BY <2>1, <2>4, <3>1 DEF Emptied, Filled
        <3>3. QED
            BY <2>2, <2>3, <2>4, <3>2, <1>b DEF Busy
    <2>5. CASE proc[p].i = NCpu /\ proc'[p].pc = "idle" /\ result' = NULL
        <3>1. Emptied(p) => AllOrNothing'
            BY <2>1, <2>5, <1>n DEF Emptied, AllOrNothing
        <3>2. ~Busy(p)'
            BY <2>5 DEF Busy
        <3>3. QED
            BY <2>2, <2>3, <3>1, <3>2, <1>f
    <2>6. CASE proc[p].i = NCpu /\ proc'[p].pc = "init" /\ proc'[p].i = 1
        <3>1. Emptied(p) => Emptied(p)' /\ Filled(p)'
            BY <2>1, <2>6, <1>n DEF Emptied, Filled
        <3>2. QED
            BY <2>2, <2>3, <2>6, <3>1, <1>b DEF Busy
    <2>7. QED
        BY <2>4, <2>5, <2>6, <1>6, CleanupFreeEffect
<1>7. ASSUME NEW p \in Proc, InitFilter(p) PROVE AloneInv' /\ AllOrNothing'
    <2>1. /\ \A q \in Proc : q # p => proc'[q] = proc[q]
          /\ proc[p].pc = "init" /\ proc[p].prog \in Prog /\ filter' = filter
        BY <1>7, InitFilterEffect
    <2>2. alone' = alone
        BY <1>7, InitFilterEffect
    <2>3. Busy(p) /\ \A q \in Proc : Busy(q)' => Busy(q)
        BY <2>1 DEF Busy
    <2>4. ASSUME NEW f \in Sf, mem[f] = NULL, mem' = [mem EXCEPT ![f] = proc[p].prog],
                 proc'[p].pc = "swap", proc'[p].i = proc[p].i,
                 proc'[p].prog = proc[p].prog, proc'[p].new = f
          PROVE  AloneInv' /\ AllOrNothing'
        <3>1. \A c \in Cpu : Injected(p, c) => Injected(p, c)'
            BY <2>1, <2>4, <1>t, <1>n DEF Injected
        <3>2. mem'[f] = proc[p].prog
            BY <2>4, <1>t
        <3>3. Filled(p) => Emptied(p)' /\ Filled(p)'
            BY <2>1, <2>4, <3>1, <3>2 DEF Emptied, Filled
        <3>4. QED
            BY <2>2, <2>3, <2>4, <3>3, <1>b DEF Busy
    <2>5. CASE proc'[p].pc = "cleanup" /\ proc'[p].i = 1
        <3>1. Emptied(p)' /\ Filled(p)'
            BY <2>5, <1>n DEF Emptied, Filled
        <3>2. QED
            BY <2>2, <2>3, <2>5, <3>1, <1>b DEF Busy
    <2>6. QED
        BY <2>4, <2>5, <1>7, InitFilterEffect
<1>8. ASSUME NEW p \in Proc, InitSwap(p) PROVE AloneInv' /\ AllOrNothing'
    <2>1. /\ \A q \in Proc : q # p => proc'[q] = proc[q]
          /\ proc[p].pc = "swap" /\ proc'[p].pc = "swapped"
          /\ proc'[p].i = proc[p].i /\ proc'[p].prog = proc[p].prog
          /\ proc[p].new # NULL /\ proc[p].i \in Cpu
          /\ filter'[proc[p].i] = proc[p].new
          /\ \A c \in Cpu : c # proc[p].i => filter'[c] = filter[c]
          /\ mem' = mem
        BY <1>8, InitSwapEffect
    <2>2. alone' = alone
        BY <1>8, InitSwapEffect
    <2>3. Busy(p)' /\ \A q \in Proc : Busy(q)' => Busy(q)
        BY <2>1 DEF Busy
    <2>4. Filled(p) => Emptied(p)' /\ Filled(p)'
        <3>1. \A c \in Cpu : c <= proc[p].i <=> (c < proc[p].i \/ c = proc[p].i)
            BY <1>n, <1>h
        <3>2. \A c \in Cpu : c # proc[p].i => (Injected(p, c)' <=> Injected(p, c))
            BY <2>1 DEF Injected
        <3>3. mem[proc[p].new] = proc[p].prog => Injected(p, proc[p].i)'
            BY <2>1 DEF Injected
        <3>4. ASSUME Filled(p) PROVE Filled(p)'
            BY <2>1, <3>1, <3>2, <3>3, <3>4 DEF Filled
        <3>5. QED
            BY <2>1, <3>4 DEF Emptied
    <2>5. QED
        BY <2>2, <2>3, <2>4, <1>b
<1>9. ASSUME NEW p \in Proc, InitFree(p) PROVE AloneInv' /\ AllOrNothing'
    <2>1. /\ \A q \in Proc : q # p => proc'[q] = proc[q]
          /\ proc[p].pc = "swapped" /\ proc[p].prog \in Prog
          /\ mem' = Freed(proc[p].old) /\ filter' = filter
        BY <1>9, InitFreeEffect
    <2>2. alone' = alone
        BY <1>9, InitFreeEffect
    <2>3. Busy(p) /\ \A q \in Proc : Busy(q)' => Busy(q)
        BY <2>1 DEF Busy
    <2>4. \A c \in Cpu : filter[c] # NULL => mem'[filter[c]] = mem[filter[c]]
        BY <2>1, <1>h, <1>t, <1>s, FreedType DEF CpuNotHand
    <2>5. CASE proc[p].i < NCpu /\ proc'[p].pc = "init" /\ proc'[p].i = proc[p].i + 1
               /\ proc'[p].prog = proc[p].prog
        <3>1. \A c \in Cpu : c < proc[p].i + 1 <=> c <= proc[p].i
            BY <1>n, <1>h
        <3>2. \A c \in Cpu : Injected(p, c) => Injected(p, c)'
            BY <2>1, <2>4, <2>5 DEF Injected
        <3>3. Filled(p) => Emptied(p)' /\ Filled(p)'
            BY <2>1, <2>5, <3>1, <3>2 DEF Emptied, Filled
        <3>4. QED
            BY <2>2, <2>3, <2>5, <3>3, <1>b DEF Busy
    <2>6. CASE proc[p].i = NCpu /\ proc'[p].pc = "idle" /\ result' = proc[p].prog
        <3>1. Filled(p) => AllOrNothing'
            BY <2>1, <2>4, <2>6, <1>n DEF Filled, Injected, AllOrNothing
        <3>2. ~Busy(p)'
            BY <2>6 DEF Busy
        <3>3. QED
            BY <2>2, <2>3, <3>1, <3>2, <1>f
    <2>7. QED
        BY <2>5, <2>6, <1>9, InitFreeEffect
<1>10. ASSUME NEW c \in Cpu, RunFilter(c) \/ FilterDone(c) PROVE AloneInv' /\ AllOrNothing'
    BY <1>10 DEF RunFilter, FilterDone, AloneInv, AllOrNothing, Busy, Emptied,
       Filled, Injected
<1>11. CASE UNCHANGED vars
    BY <1>11 DEF vars, AloneInv, AllOrNothing, Busy, Emptied, Filled, Injected
<1>12. QED
    BY <1>1, <1>2, <1>3, <1>4, <1>5, <1>6, <1>7, <1>8, <1>9, <1>10, <1>11
       DEF Next

(* A write that no other one overlaps is all or nothing, on any number of  *)
(* CPUs and wherever memory or sk_chk_filter fails it.                     *)
THEOREM LoneWriteAllOrNothing ==
    ASSUME RacingRemoval = FALSE
    PROVE  Spec => []AllOrNothing
<1>1. TypeInv /\ SafeInv /\ OwnerInv /\ [Next]_vars => OwnerInv'
    BY OwnerStep
<1>2. TypeInv /\ SafeInv /\ OwnerInv /\ AloneInv /\ AllOrNothing /\ [Next]_vars
          => AloneInv' /\ AllOrNothing'
    BY AloneStep
<1>3. QED
    BY TypeInvInit, TypeInvStep, SafeInit, SafeStep, OwnerInit, AloneInit,
       <1>1, <1>2, PTL DEF Spec
=============================================================================
