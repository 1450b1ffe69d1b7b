-------------------------------- MODULE Ports --------------------------------
(***************************************************************************)
(* The ports of functional blocks while packets are processed: the per-CPU *)
(* private data of fb_dummy, fb_counter, fb_tee, fb_bpf, fb_eth,           *)
(* fb_ethvlink and fb_pflana, its readers (netrx, the receive handlers of  *)
(* devices, sendmsg) and its writers (the BIND and UNBIND events that      *)
(* __fblock_bind and __fblock_unbind send).                                *)
(*                                                                         *)
(* A control process visits the CPUs one after the other; for each it      *)
(* looks at the port and then writes it under a lock.  userctl_rcv() takes *)
(* no lock of its own, so that several control processes may run.  On each *)
(* CPU one packet at a time is processed, in a softirq that interrupts the *)
(* control process of that CPU and runs to completion.                     *)
(*                                                                         *)
(* A seqlock is modelled by its writer and, instead of a counter, by a     *)
(* flag of the reader that a writer has been there since read_seqbegin().  *)
(***************************************************************************)
EXTENDS Naturals, FiniteSets

CONSTANTS
    Fb,         \* functional blocks; a block stands for its idp as well
    NCpu,       \* the online CPUs are 1 .. NCpu
    Ctl,        \* control processes
    CtlCpu,     \* CtlCpu[p]: the CPU that p runs on
    RxCpu,      \* the CPUs on which packets arrive
    Kinds,      \* the kinds of blocks that are loaded, see below
    NULL        \* IDP_UNKNOWN, nobody

ASSUME CpuAssumption == NCpu \in Nat \ {0}
ASSUME CtlCpuAssumption == CtlCpu \in [Ctl -> 1 .. NCpu]
ASSUME RxCpuAssumption == RxCpu \subseteq 1 .. NCpu

Cpu  == 1 .. NCpu
Dir  == {"ingress", "egress"}
Port == Dir \cup {"clone"}

ASSUME NullAssumption == NULL \notin Fb \cup Ctl \cup Port

(* The kinds of blocks: the lock that guards the ports, whether there is a *)
(* third port, and how a packet meets the ports.  "forward" and "filter"   *)
(* are a netrx that reads the port of the packet's direction (the third    *)
(* port, read along with it, only adds a copy: see Engine); "frame" is     *)
(* the receive handler of a device, which reads the ingress port, and      *)
(* "send" the sendmsg of a socket, which reads the egress port.            *)
K(lock, clone, rx) == [lock |-> lock, clone |-> clone, rx |-> rx]
Dummy    == K("seq",  FALSE, "forward")
Counter  == K("seq",  FALSE, "forward")
Tee      == K("seq",  TRUE,  "forward")
Bpf      == K("spin", FALSE, "filter")
Eth      == K("seq",  FALSE, "frame")
EthVlink == K("seq",  FALSE, "frame")
PfLana   == K("seq",  FALSE, "send")

ASSUME KindAssumption == Kinds \subseteq {Dummy, Counter, Tee, Bpf, Eth, EthVlink, PfLana}

VARIABLES
    kind,       \* kind[b]: the kind of the block b
    port,       \* port[b][c]: the ports of b on CPU c
    writer,     \* writer[b][c]: the control process that holds the lock
    ctl,        \* ctl[p]: where the control process p stands
    rx          \* rx[c]: where the packet on CPU c stands

vars == <<kind, port, writer, ctl, rx>>

Op == {"bind", "unbind"}

(* A control process sends the event of `stage' and is at CPU i of the     *)
(* loop over the CPUs; p is the port it has chosen.                        *)
CtlRec == [stage : {"idle", "one", "two", "undo", "panic"},
           pc : {"check", "lock", "write"}, op : Op,
           fb1 : Fb \cup {NULL}, fb2 : Fb \cup {NULL}, i : Cpu, p : Port \cup {NULL}]
IdleCtl == [stage |-> "idle", pc |-> "check", op |-> "bind", fb1 |-> NULL,
            fb2 |-> NULL, i |-> 1, p |-> NULL]

(* A packet on a CPU: the block b that has it, what was read so far, and   *)
(* whether a writer has been there since the last read_seqbegin().         *)
RxRec == [pc : {"idle", "peek", "begin", "next", "drop", "retry", "done"},
          b : Fb \cup {NULL}, dir : Dir, next : Fb \cup {NULL}, drop : BOOLEAN,
          stale : BOOLEAN]
IdleRx == [pc |-> "idle", b |-> NULL, dir |-> "ingress", next |-> NULL, drop |-> FALSE,
           stale |-> FALSE]

(* The constructors: all ports are IDP_UNKNOWN on every CPU. *)
Init ==
    /\ kind \in [Fb -> Kinds]
    /\ port = [b \in Fb |-> [c \in Cpu |-> [p \in Port |-> NULL]]]
    /\ writer = [b \in Fb |-> [c \in Cpu |-> NULL]]
    /\ ctl = [p \in Ctl |-> IdleCtl]
    /\ rx = [c \in Cpu |-> IdleRx]

-----------------------------------------------------------------------------
(* Control processes *)

(* A softirq on the process's CPU keeps it from running. *)
Runs(p) == rx[CtlCpu[p]].pc = "idle"

(* The event of a stage: who receives it, its dir and idp, and whether it  *)
(* is FBLOCK_BIND_IDP.                                                     *)
(* MsgDirStale is a wrong variant: the undo message keeps the direction of  *)
(* the event that failed.                                                  *)
Receiver(s) == IF s.stage = "two" THEN s.fb2 ELSE s.fb1
MsgIdp(s)   == IF s.stage = "two" THEN s.fb1 ELSE s.fb2
MsgDirStale(s) == IF s.stage \in {"two", "undo"} THEN "ingress" ELSE "egress"
MsgDir(s)   == IF s.stage = "two" THEN "ingress" ELSE "egress"
Binds(s)    == s.op = "bind" /\ s.stage # "undo"
FirstPc(b)  == IF kind[b].lock = "seq" THEN "check" ELSE "lock"

(* userctl_bind, userctl_unbind *)
Start(p, op, fb1, fb2) ==
    /\ Runs(p)
    /\ ctl[p].stage = "idle"
    /\ ctl' = [ctl EXCEPT ![p] = [IdleCtl EXCEPT !.stage = "one", !.pc = FirstPc(fb1),
                                     !.op = op, !.fb1 = fb1, !.fb2 = fb2]]
    /\ UNCHANGED <<kind, port, writer, rx>>

(* The port an event is about to write on the current CPU, NULL when it    *)
(* gives up with NOTIFY_BAD.                                               *)
Choice(s) ==
    LET b    == Receiver(s)
        here == port[b][s.i]
        free(q) == here[q] = IF Binds(s) THEN NULL ELSE MsgIdp(s)
    IN  CASE free(MsgDir(s))                                       -> MsgDir(s)
          [] ~free(MsgDir(s)) /\ kind[b].clone /\ free("clone")     -> "clone"
          [] OTHER                                                 -> NULL

(* __fblock_bind and __fblock_unbind: what follows an event that was sent  *)
(* to all CPUs, and one that was refused by a CPU.                         *)
EventDone(s) ==
    IF s.stage = "one"
    THEN [s EXCEPT !.stage = "two", !.pc = FirstPc(s.fb2), !.i = 1, !.p = NULL]
    ELSE IdleCtl

(* Wrong variant: a refused binding is not released at the first block. *)
EventBadNoUndo(s) == IdleCtl

EventBad(s) ==
    CASE s.stage = "two" /\ s.op = "bind" ->
            [s EXCEPT !.stage = "undo", !.pc = FirstPc(s.fb1), !.i = 1, !.p = NULL]
      [] s.stage = "undo" -> [IdleCtl EXCEPT !.stage = "panic"]
      [] OTHER            -> IdleCtl

(* Wrong variant: the event stops after the first CPU. *)
NextCpuFirstOnly(s) == EventDone(s)

NextCpu(s) ==
    IF s.i = NCpu THEN EventDone(s)
    ELSE [s EXCEPT !.i = @ + 1, !.pc = FirstPc(Receiver(s)), !.p = NULL]

(* The test of the port, outside the seqlock. *)
Check(p) ==
    LET s == ctl[p]
        q == Choice(s)
    IN  /\ Runs(p)
        /\ s.stage \in {"one", "two", "undo"}
        /\ s.pc = "check"
        /\ ctl' = [ctl EXCEPT ![p] = IF q = NULL THEN EventBad(s)
                                     ELSE [s EXCEPT !.pc = "lock", !.p = q]]
        /\ UNCHANGED <<kind, port, writer, rx>>

(* A reader of the block b on CPU c has to start again. *)
Stale(b, c) == [rx EXCEPT ![c].stale = (rx[c].b = b) \/ @]

(* write_seqlock, or spin_lock of fb_bpf *)
Lock(p) ==
    LET s == ctl[p]
        b == Receiver(s)
    IN  /\ Runs(p)
        /\ s.stage \in {"one", "two", "undo"}
        /\ s.pc = "lock"
        /\ writer[b][s.i] = NULL
        /\ writer' = [writer EXCEPT ![b][s.i] = p]
        /\ ctl' = [ctl EXCEPT ![p].pc = "write"]
        /\ rx' = Stale(b, s.i)
        /\ UNCHANGED <<kind, port>>

(* The assignment and write_sequnlock; fb_bpf looks at the port only here, *)
(* under its lock.                                                         *)
Write(p) ==
    LET s   == ctl[p]
        b   == Receiver(s)
        q   == IF kind[b].lock = "seq" THEN s.p ELSE Choice(s)
        new == [port[b][s.i] EXCEPT ![q] = IF Binds(s) THEN MsgIdp(s) ELSE NULL]
    IN  /\ Runs(p)
        /\ s.stage \in {"one", "two", "undo"}
        /\ s.pc = "write"
        /\ writer' = [writer EXCEPT ![b][s.i] = NULL]
        /\ UNCHANGED kind
        /\ IF q = NULL
           THEN /\ ctl' = [ctl EXCEPT ![p] = EventBad(s)]
                /\ UNCHANGED <<port, rx>>
           ELSE /\ port' = [port EXCEPT ![b][s.i] = new]
                /\ ctl' = [ctl EXCEPT ![p] = NextCpu(s)]
                /\ rx' = Stale(b, s.i)

-----------------------------------------------------------------------------
(* Packets *)

(* A block is given a packet. *)
Receive(c, b, dir) ==
    /\ rx[c].pc = "idle"
    /\ kind[b].rx = "frame" => dir = "ingress"
    /\ kind[b].rx = "send"  => dir = "egress"
    /\ rx' = [rx EXCEPT ![c] = [IdleRx EXCEPT !.b = b, !.dir = dir,
                 !.pc = IF kind[b].rx = "frame" THEN "peek" ELSE "begin"]]
    /\ UNCHANGED <<kind, port, writer, ctl>>

(* The receive handler of a device: the port is tested before the seqlock. *)
Peek(c) ==
    /\ rx[c].pc = "peek"
    /\ rx' = [rx EXCEPT ![c] =
                IF port[rx[c].b][c]["ingress"] = NULL THEN [@ EXCEPT !.pc = "done", !.drop = TRUE]
                ELSE [@ EXCEPT !.pc = "begin"]]
    /\ UNCHANGED <<kind, port, writer, ctl>>

(* read_seqbegin: wait for the writer *)
ReadSeqbegin(c) ==
    /\ rx[c].pc = "begin"
    /\ kind[rx[c].b].lock = "seq"
    /\ writer[rx[c].b][c] = NULL
    /\ rx' = [rx EXCEPT ![c].pc = "next", ![c].stale = FALSE]
    /\ UNCHANGED <<kind, port, writer, ctl>>

(* write_next_idp_to_skb *)
ReadNext(c) ==
    /\ rx[c].pc = "next"
    /\ rx' = [rx EXCEPT ![c].next = port[rx[c].b][c][rx[c].dir],
                        ![c].pc = IF kind[rx[c].b].rx = "forward" THEN "drop" ELSE "retry"]
    /\ UNCHANGED <<kind, port, writer, ctl>>

(* The port is read again to see whether the packet has to be dropped. *)
ReadDrop(c) ==
    /\ rx[c].pc = "drop"
    /\ rx' = [rx EXCEPT ![c].drop = @ \/ port[rx[c].b][c][rx[c].dir] = NULL,
                        ![c].pc = "retry"]
    /\ UNCHANGED <<kind, port, writer, ctl>>

(* Wrong variant: the reader does not start again. *)
ReadSeqretryNever(c) ==
    /\ rx[c].pc = "retry"
    /\ rx' = [rx EXCEPT ![c].pc = "done"]
    /\ UNCHANGED <<kind, port, writer, ctl>>

(* read_seqretry: drop keeps what was read before. *)
ReadSeqretry(c) ==
    /\ rx[c].pc = "retry"
    /\ rx' = [rx EXCEPT ![c].pc = IF rx[c].stale THEN "begin" ELSE "done"]
    /\ UNCHANGED <<kind, port, writer, ctl>>

(* fb_bpf_netrx, under flock: the filter refuses the packet, or the port   *)
(* is read.                                                                *)
Filter(c) ==
    LET q == port[rx[c].b][c][rx[c].dir] IN
    /\ rx[c].pc = "begin"
    /\ kind[rx[c].b].lock = "spin"
    /\ writer[rx[c].b][c] = NULL
    /\ \/ rx' = [rx EXCEPT ![c].pc = "done", ![c].drop = TRUE]
       \/ rx' = [rx EXCEPT ![c].pc = "done", ![c].next = q, ![c].drop = (q = NULL)]
    /\ UNCHANGED <<kind, port, writer, ctl>>

(* The block is done with the packet. *)
Return(c) ==
    /\ rx[c].pc = "done"
    /\ rx' = [rx EXCEPT ![c] = IdleRx]
    /\ UNCHANGED <<kind, port, writer, ctl>>

-----------------------------------------------------------------------------
CtlStep(p) == Check(p) \/ Lock(p) \/ Write(p)

RxStep(c) == \/ Peek(c) \/ ReadSeqbegin(c) \/ ReadNext(c) \/ ReadDrop(c)
             \/ ReadSeqretry(c) \/ Filter(c) \/ Return(c)

Next ==
    \/ \E p \in Ctl, op \in Op, fb1, fb2 \in Fb : Start(p, op, fb1, fb2)
    \/ \E p \in Ctl : CtlStep(p)
    \/ \E c \in RxCpu, b \in Fb, dir \in Dir : Receive(c, b, dir)
    \/ \E c \in RxCpu : RxStep(c)

Spec == Init /\ [][Next]_vars

(* A softirq runs to completion, and a process that softirqs interrupt     *)
(* again and again continues at last.  Nobody has to send a packet or to   *)
(* give a command.                                                         *)
Fairness ==
    /\ \A c \in RxCpu : WF_vars(RxStep(c))
    /\ \A p \in Ctl : SF_vars(CtlStep(p))

FairSpec == Spec /\ Fairness

-----------------------------------------------------------------------------
(* Type correctness of the ports, the locks and the two kinds of actors. *)
TypeOK ==
    /\ kind \in [Fb -> Kinds]
    /\ port \in [Fb -> [Cpu -> [Port -> Fb \cup {NULL}]]]
    /\ writer \in [Fb -> [Cpu -> Ctl \cup {NULL}]]
    /\ ctl \in [Ctl -> CtlRec]
    /\ rx \in [Cpu -> RxRec]

(* No control process is at work. *)
Quiet == \A p \in Ctl : ctl[p].stage = "idle"

(* The ports of a block are replicated per CPU and written one CPU at a    *)
(* time, and an event may be refused on any CPU: between two commands all  *)
(* CPUs have the same ports, whatever was refused or undone, so that it    *)
(* does not matter on which CPU a packet arrives.                          *)
CpusAgree ==
    Quiet => \A b \in Fb, c, d \in Cpu : port[b][c] = port[b][d]

(* Between two commands a connection of two-port blocks is known at both   *)
(* of its ends on every CPU: a binding that the lower block refuses is     *)
(* released at the upper block.                                            *)
TwoPort(b) == ~kind[b].clone
ConnectionsSymmetric ==
    Quiet => \A a, b \in Fb, c \in Cpu :
                TwoPort(a) /\ TwoPort(b) =>
                    (port[a][c]["egress"] = b <=> port[b][c]["ingress"] = a)

(* The panic of __fblock_bind is not reached: the binding that has to be   *)
(* released is found on every CPU.                                         *)
NoPanic == \A p \in Ctl : ctl[p].stage # "panic"

(* A netrx that returns PPE_SUCCESS has written a next idp to the packet,  *)
(* although it reads the port twice and writers do not wait for it.  (A    *)
(* packet without one would be lost in process_packet.)  This is not so    *)
(* for the receive handler of a device, which tests the port outside the   *)
(* seqlock, and for sendmsg, which does not test it.                       *)
SuccessHasNext ==
    \A c \in Cpu :
        rx[c].pc = "done" /\ kind[rx[c].b].rx \in {"forward", "filter"}
            => (rx[c].drop \/ rx[c].next # NULL)

(* A packet leaves the block at last, unless commands keep completing for  *)
(* ever and make its reader start again each time.                         *)
Responsive ==
    \A c \in RxCpu :
        \/ []<>(rx[c].pc = "idle")
        \/ \E p \in Ctl : []<>(ctl[p].stage = "idle") /\ []<>(ctl[p].stage # "idle")
=============================================================================
