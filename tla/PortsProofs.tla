----------------------------- MODULE PortsProofs -----------------------------
(***************************************************************************)
(* Proofs about Ports for any number of blocks and CPUs, with any packets  *)
(* and, where a hypothesis does not say otherwise, any number of control   *)
(* processes.                                                              *)
(***************************************************************************)
EXTENDS Ports, TLAPS

(* Whether an event is under way. *)
Act(s) == s.stage \in {"one", "two", "undo"}

CtlArgs ==
    \A p \in Ctl : Act(ctl[p]) => /\ ctl[p].fb1 \in Fb /\ ctl[p].fb2 \in Fb
                                  /\ ctl[p].stage = "undo" => ctl[p].op = "bind"
RxArgs ==
    \A c \in Cpu : /\ rx[c].pc # "idle" => rx[c].b \in Fb
                   /\ rx[c].pc \in {"next", "drop", "retry"} => kind[rx[c].b].lock = "seq"

TypeInv == TypeOK /\ CtlArgs /\ RxArgs

(* What a reader has read is what the port holds, unless a writer has been *)
(* there; a reader that need not start again has a next block or drops.    *)
ReadValid ==
    \A c \in Cpu :
        rx[c].pc \in {"drop", "retry"} /\ kind[rx[c].b].rx = "forward" /\ ~rx[c].stale =>
            /\ rx[c].pc = "drop" => rx[c].next = port[rx[c].b][c][rx[c].dir]
            /\ rx[c].pc = "retry" => rx[c].drop \/ rx[c].next # NULL

ReadInv == ReadValid /\ SuccessHasNext

-----------------------------------------------------------------------------
(* The port that an event chooses among the ports `row' of a block; what   *)
(* it looks for and what it writes.                                        *)
PickPort(row, clone, dir, old) ==
    IF row[dir] = old THEN dir
    ELSE IF clone /\ row["clone"] = old THEN "clone" ELSE NULL
Old(s) == IF Binds(s) THEN NULL ELSE MsgIdp(s)
New(s) == IF Binds(s) THEN MsgIdp(s) ELSE NULL
Chosen(s, c) == PickPort(port[Receiver(s)][c], kind[Receiver(s)].clone, MsgDir(s), Old(s))
Found(s, c)  == PickPort(port[s.fb1][c], kind[s.fb1].clone, "egress", s.fb2) # NULL

(* The CPUs below s.i have been visited.  All of them agree, and so do     *)
(* those that have not; the former differ from the latter by what the      *)
(* event writes.                                                           *)
Visited(s) ==
    /\ \A b \in Fb, c, d \in Cpu :
           (b # Receiver(s) \/ (c < s.i <=> d < s.i)) => port[b][c] = port[b][d]
    /\ \A c, d \in Cpu : c < s.i /\ s.i <= d =>
           /\ Chosen(s, d) # NULL
           /\ port[Receiver(s)][c] = [port[Receiver(s)][d] EXCEPT ![Chosen(s, d)] = New(s)]

(* What was chosen outside the lock is still right under it. *)
ChoiceHolds(s) ==
    s.pc \in {"lock", "write"} /\ kind[Receiver(s)].lock = "seq"
        => s.p = Chosen(s, s.i) /\ s.p # NULL

(* As long as the second block may refuse a binding, and while it is being *)
(* released, the CPUs that come next have it at the first block.           *)
Releasable(s) ==
    s.stage = "undo" \/ (s.stage = "two" /\ s.op = "bind")
        => \A c \in Cpu : s.i <= c => Found(s, c)

EventInv ==
    /\ CpusAgree
    /\ NoPanic
    /\ \A p \in Ctl : Act(ctl[p]) => /\ Visited(ctl[p]) /\ ChoiceHolds(ctl[p])
                                     /\ Releasable(ctl[p])

-----------------------------------------------------------------------------
(* A connection is known at both of its ends or at none, but for the       *)
(* connection that a command is about: the first event reaches the block   *)
(* above, the second one the block below, and what is undone is undone     *)
(* above.                                                                  *)
Sym(a, b, c) == port[a][c]["egress"] = b <=> port[b][c]["ingress"] = a
Above(s, c)  == port[s.fb1][c]["egress"] = s.fb2
Below(s, c)  == port[s.fb2][c]["ingress"] = s.fb1

EndsAt(s, c) ==
    /\ (s.stage = "one" /\ s.i <= c) => (Above(s, c) <=> Below(s, c))
    /\ (s.stage = "one" /\ c < s.i) => /\ Above(s, c) <=> s.op = "bind"
                                       /\ Below(s, c) <=> s.op = "unbind"
    /\ s.stage = "two" => /\ Above(s, c) <=> s.op = "bind"
                          /\ Below(s, c) <=> (s.op = "bind" <=> c < s.i)
    /\ s.stage = "undo" => ~Below(s, c) /\ (Above(s, c) <=> s.i <= c)

PairBound(s) == TwoPort(s.fb1) /\ TwoPort(s.fb2) => \A c \in Cpu : EndsAt(s, c)

SymInv ==
    /\ \A a, b \in Fb, c \in Cpu :
           TwoPort(a) /\ TwoPort(b) =>
               \/ Sym(a, b, c)
               \/ \E p \in Ctl : Act(ctl[p]) /\ ctl[p].fb1 = a /\ ctl[p].fb2 = b
    /\ \A p \in Ctl : Act(ctl[p]) => PairBound(ctl[p])
-----------------------------------------------------------------------------
(* Records of control processes. *)
LEMMA KindFields ==
    ASSUME kind \in [Fb -> Kinds], NEW b \in Fb
    PROVE  /\ kind[b].lock \in {"seq", "spin"} /\ kind[b].clone \in BOOLEAN
           /\ kind[b].rx = "filter" => kind[b].lock = "spin"
<1>1. kind[b] \in {Dummy, Counter, Tee, Bpf, Eth, EthVlink, PfLana}
    BY KindAssumption
<1>2. \A k \in {Dummy, Counter, Tee, Bpf, Eth, EthVlink, PfLana} :
          /\ k.lock \in {"seq", "spin"} /\ k.clone \in BOOLEAN
          /\ k.rx = "filter" => k.lock = "spin"
    <2>1. /\ Dummy.lock = "seq" /\ Dummy.clone = FALSE /\ Dummy.rx = "forward"
          /\ Counter.lock = "seq" /\ Counter.clone = FALSE /\ Counter.rx = "forward"
          /\ Tee.lock = "seq" /\ Tee.clone = TRUE /\ Tee.rx = "forward"
          /\ Bpf.lock = "spin" /\ Bpf.clone = FALSE /\ Bpf.rx = "filter"
        BY DEF Dummy, Counter, Tee, Bpf, K
    <2>2. /\ Eth.lock = "seq" /\ Eth.clone = FALSE /\ Eth.rx = "frame"
          /\ EthVlink.lock = "seq" /\ EthVlink.clone = FALSE /\ EthVlink.rx = "frame"
          /\ PfLana.lock = "seq" /\ PfLana.clone = FALSE /\ PfLana.rx = "send"
        BY DEF Eth, EthVlink, PfLana, K
    <2>3. QED
        BY <2>1, <2>2
<1>3. QED
    BY <1>1, <1>2

(* Where an event starts on a CPU. *)
LEMMA FirstPcType ==
    ASSUME NEW b
    PROVE  FirstPc(b) \in {"check", "lock", "write"} /\ FirstPc(b) # "write"
           /\ (FirstPc(b) = "lock" => kind[b].lock # "seq")
BY DEF FirstPc

(* A control process without a command. *)
LEMMA IdleCtlType ==
    IdleCtl \in CtlRec /\ IdleCtl.stage = "idle" /\ ~Act(IdleCtl)
BY CpuAssumption DEF IdleCtl, CtlRec, Cpu, Op, Port, Act

(* What follows an event that was sent to a CPU: the next CPU, the second  *)
(* event, or the end.                                                      *)
SameCmd(t, s) == t \in CtlRec /\ t.op = s.op /\ t.fb1 = s.fb1 /\ t.fb2 = s.fb2
Onward(t, s)  == SameCmd(t, s) /\ t.stage = s.stage /\ t.i = s.i + 1 /\ t.pc = FirstPc(Receiver(s))
Second(t, s)  == SameCmd(t, s) /\ t.stage = "two" /\ t.i = 1 /\ t.pc = FirstPc(s.fb2)
Release(t, s) == SameCmd(t, s) /\ t.stage = "undo" /\ t.i = 1 /\ t.pc = FirstPc(s.fb1)

(* After a CPU an event goes on to the next CPU, to the other block or to  *)
(* its end.                                                                *)
LEMMA NextCpuFields ==
    ASSUME NEW s \in CtlRec, Act(s)
    PROVE  \/ s.i # NCpu /\ Onward(NextCpu(s), s)
           \/ s.i = NCpu /\ s.stage = "one" /\ Second(NextCpu(s), s)
           \/ s.i = NCpu /\ s.stage # "one" /\ NextCpu(s) = IdleCtl
<1>1. s.i \in Cpu /\ s.stage \in {"one", "two", "undo"}
    BY DEF CtlRec, Act
<1>2. 1 \in Cpu /\ "two" \in {"one", "two", "undo"}
    BY CpuAssumption DEF Cpu
<1>3. CASE s.i # NCpu
    <2>1. s.i + 1 \in Cpu
        BY <1>1, <1>3, CpuAssumption DEF Cpu
    <2> DEFINE t == [s EXCEPT !.stage = s.stage, !.pc = FirstPc(Receiver(s)), !.i = s.i + 1,
                              !.p = NULL]
    <2>2. /\ t \in CtlRec /\ t.stage = s.stage /\ t.pc = FirstPc(Receiver(s)) /\ t.i = s.i + 1
          /\ t.op = s.op /\ t.fb1 = s.fb1 /\ t.fb2 = s.fb2
        BY <1>1, <2>1, FirstPcType DEF CtlRec
    <2>3. NextCpu(s) = t
        BY <1>3 DEF NextCpu, CtlRec
    <2>4. QED
        BY <1>3, <2>2, <2>3 DEF Onward, SameCmd
<1>4. CASE s.i = NCpu /\ s.stage = "one"
    <2> DEFINE t == [s EXCEPT !.stage = "two", !.pc = FirstPc(s.fb2), !.i = 1, !.p = NULL]
    <2>1. /\ t \in CtlRec /\ t.stage = "two" /\ t.pc = FirstPc(s.fb2) /\ t.i = 1
          /\ t.op = s.op /\ t.fb1 = s.fb1 /\ t.fb2 = s.fb2
        BY <1>2, FirstPcType DEF CtlRec
    <2>2. NextCpu(s) = t
        BY <1>4 DEF NextCpu, EventDone
    <2>3. QED
        BY <1>4, <2>1, <2>2 DEF Second, SameCmd
<1>5. CASE s.i = NCpu /\ s.stage # "one"
    BY <1>5 DEF NextCpu, EventDone
<1>6. QED
    BY <1>3, <1>4, <1>5

(* What follows an event that was refused. *)
LEMMA EventBadFields ==
    ASSUME NEW s \in CtlRec, Act(s)
    PROVE  \/ s.stage = "two" /\ s.op = "bind" /\ Release(EventBad(s), s)
           \/ s.stage = "undo" /\ EventBad(s) \in CtlRec /\ EventBad(s).stage = "panic"
           \/ /\ s.stage = "one" \/ (s.stage = "two" /\ s.op = "unbind")
              /\ EventBad(s) = IdleCtl
<1>1. s.stage \in {"one", "two", "undo"} /\ s.op \in {"bind", "unbind"}
    BY DEF CtlRec, Act, Op
<1>2. 1 \in Cpu /\ "undo" \in {"one", "two", "undo"}
    BY CpuAssumption DEF Cpu
<1>3. CASE s.stage = "two" /\ s.op = "bind"
    <2> DEFINE t == [s EXCEPT !.stage = "undo", !.pc = FirstPc(s.fb1), !.i = 1, !.p = NULL]
    <2>1. /\ t \in CtlRec /\ t.stage = "undo" /\ t.pc = FirstPc(s.fb1) /\ t.i = 1
          /\ t.op = s.op /\ t.fb1 = s.fb1 /\ t.fb2 = s.fb2
        BY <1>2, FirstPcType DEF CtlRec
    <2>2. EventBad(s) = t
        BY <1>3 DEF EventBad
    <2>3. QED
        BY <1>3, <2>1, <2>2 DEF Release, SameCmd
<1>4. CASE s.stage = "undo"
    <2>1. EventBad(s) = [IdleCtl EXCEPT !.stage = "panic"]
        BY <1>4 DEF EventBad
    <2>2. [IdleCtl EXCEPT !.stage = "panic"] \in CtlRec
        BY IdleCtlType DEF CtlRec
    <2>3. [IdleCtl EXCEPT !.stage = "panic"].stage = "panic"
        BY DEF IdleCtl
    <2>4. QED
        BY <1>4, <2>1, <2>2, <2>3
<1>5. CASE s.stage = "one" \/ (s.stage = "two" /\ s.op = "unbind")
    <2>1. ~(s.stage = "two" /\ s.op = "bind") /\ s.stage # "undo"
        BY <1>5
    <2>2. EventBad(s) = IdleCtl
        BY <2>1 DEF EventBad
    <2>3. QED
        BY <1>5, <2>2
<1>6. QED
    BY <1>1, <1>3, <1>4, <1>5

(* The choice of a port, in terms of the ports alone. *)
LEMMA ChoiceIsChosen ==
    ASSUME NEW s
    PROVE  Choice(s) = Chosen(s, s.i)
BY DEF Choice, Chosen, PickPort, Old

(* The port that an event picks had the idp it looked for. *)
LEMMA PickPortType ==
    ASSUME NEW row, NEW clone, NEW dir \in Dir, NEW old,
           PickPort(row, clone, dir, old) # NULL
    PROVE  /\ PickPort(row, clone, dir, old) \in Port
           /\ row[PickPort(row, clone, dir, old)] = old
           /\ \/ PickPort(row, clone, dir, old) = dir
              \/ clone /\ PickPort(row, clone, dir, old) = "clone"
BY DEF PickPort, Port

-----------------------------------------------------------------------------
(* What each step does. *)
OthersStay(p) == \A q \in Ctl : q # p => ctl'[q] = ctl[q]
CtlType(t) == t \in CtlRec /\ (Act(t) => /\ t.fb1 \in Fb /\ t.fb2 \in Fb
                                         /\ t.stage = "undo" => t.op = "bind")

(* The blocks, the CPU and the direction of an event. *)
LEMMA ReceiverType ==
    ASSUME TypeInv, NEW p \in Ctl, Act(ctl[p])
    PROVE  /\ CtlType(ctl[p])
           /\ Receiver(ctl[p]) \in Fb /\ MsgIdp(ctl[p]) \in Fb /\ ctl[p].i \in Cpu
           /\ MsgDir(ctl[p]) \in Dir
<1>1. ctl[p] \in CtlRec /\ ctl[p].fb1 \in Fb /\ ctl[p].fb2 \in Fb
    BY DEF TypeInv, TypeOK, CtlArgs
<1>2. CtlType(ctl[p])
    BY <1>1 DEF CtlType, TypeInv, CtlArgs
<1>3. QED
    BY <1>1, <1>2 DEF Receiver, MsgIdp, MsgDir, Dir, CtlRec

(* userctl_bind and userctl_unbind start. *)
LEMMA StartEffect ==
    ASSUME TypeInv, NEW p \in Ctl, NEW op \in Op, NEW fb1 \in Fb, NEW fb2 \in Fb,
           Start(p, op, fb1, fb2)
    PROVE  /\ ctl[p].stage = "idle" /\ OthersStay(p) /\ ctl' \in [Ctl -> CtlRec]
           /\ CtlType(ctl'[p])
           /\ ctl'[p].stage = "one" /\ ctl'[p].op = op /\ ctl'[p].fb1 = fb1 /\ ctl'[p].fb2 = fb2
           /\ ctl'[p].i = 1 /\ ctl'[p].pc = FirstPc(fb1)
           /\ UNCHANGED <<kind, port, writer, rx>>
<1> DEFINE t == [IdleCtl EXCEPT !.stage = "one", !.pc = FirstPc(fb1),
                                !.op = op, !.fb1 = fb1, !.fb2 = fb2]
<1>1. /\ t \in CtlRec /\ t.stage = "one" /\ t.op = op /\ t.fb1 = fb1 /\ t.fb2 = fb2
      /\ t.i = 1 /\ t.pc = FirstPc(fb1)
    <2>1. FirstPc(fb1) \in {"check", "lock", "write"} /\ 1 \in Cpu
        BY CpuAssumption, FirstPcType DEF Cpu
    <2>2. QED
        BY <2>1 DEF IdleCtl, CtlRec
<1>2. ctl' = [ctl EXCEPT ![p] = t] /\ ctl \in [Ctl -> CtlRec]
    BY DEF Start, TypeInv, TypeOK
<1>3. CtlType(t)
    BY <1>1 DEF CtlType
<1> HIDE DEF t
<1>4. ctl'[p] = t /\ OthersStay(p) /\ ctl' \in [Ctl -> CtlRec]
    BY <1>1, <1>2 DEF OthersStay
<1>5. QED
    BY <1>1, <1>3, <1>4 DEF Start

(* After a refusal; the process may have panicked. *)
LEMMA BadType ==
    ASSUME TypeInv, NEW p \in Ctl, Act(ctl[p])
    PROVE  CtlType(EventBad(ctl[p]))
<1>1. CtlType(ctl[p])
    BY ReceiverType
<1>2. QED
    BY <1>1, EventBadFields, IdleCtlType DEF CtlType, Release, SameCmd, Act

(* NextCpu keeps the type of a command. *)
LEMMA NextCpuType ==
    ASSUME TypeInv, NEW p \in Ctl, Act(ctl[p])
    PROVE  CtlType(NextCpu(ctl[p]))
<1>1. CtlType(ctl[p])
    BY ReceiverType
<1>2. QED
    BY <1>1, NextCpuFields, IdleCtlType DEF CtlType, Onward, Second, SameCmd, Act

Refused(p) == ctl'[p] = EventBad(ctl[p]) /\ UNCHANGED <<port, rx>>

(* The test before the lock. *)
LEMMA CheckEffect ==
    ASSUME TypeInv, NEW p \in Ctl, Check(p)
    PROVE  /\ Act(ctl[p]) /\ OthersStay(p) /\ ctl' \in [Ctl -> CtlRec] /\ CtlType(ctl'[p])
           /\ \/ Chosen(ctl[p], ctl[p].i) = NULL /\ Refused(p)
              \/ /\ Chosen(ctl[p], ctl[p].i) # NULL /\ ctl'[p].pc = "lock"
                 /\ ctl'[p].p = Chosen(ctl[p], ctl[p].i)
                 /\ SameCmd(ctl'[p], ctl[p])
                 /\ ctl'[p].stage = ctl[p].stage /\ ctl'[p].i = ctl[p].i
           /\ UNCHANGED <<kind, port, writer, rx>>
<1> DEFINE s == ctl[p]
           q == Chosen(s, s.i)
           t == IF q = NULL THEN EventBad(s) ELSE [s EXCEPT !.pc = "lock", !.p = q]
<1>1. Act(s) /\ s \in CtlRec /\ CtlType(s) /\ MsgDir(s) \in Dir
    BY ReceiverType DEF Check, Act, CtlType
<1>2. ctl' = [ctl EXCEPT ![p] = t] /\ ctl \in [Ctl -> CtlRec]
    BY ChoiceIsChosen DEF Check, TypeInv, TypeOK
<1>3. CASE q = NULL
    <2>1. CtlType(t) /\ t = EventBad(s)
        BY <1>1, <1>3, BadType
    <2> HIDE DEF t
    <2>2. ctl'[p] = t /\ OthersStay(p) /\ ctl' \in [Ctl -> CtlRec]
        BY <1>2, <2>1 DEF OthersStay, CtlType
    <2>3. QED
        BY <1>1, <1>3, <2>1, <2>2 DEF Check, Refused
<1>4. CASE q # NULL
    <2>1. q \in Port
        BY <1>1, <1>4, PickPortType DEF Chosen
    <2> HIDE DEF q
    <2>2. /\ t \in CtlRec /\ t.pc = "lock" /\ t.p = q
          /\ t.stage = s.stage /\ t.i = s.i /\ t.op = s.op /\ t.fb1 = s.fb1 /\ t.fb2 = s.fb2
        BY <1>1, <1>4, <2>1 DEF CtlRec
    <2> HIDE DEF t
    <2>3. ctl'[p] = t /\ OthersStay(p) /\ ctl' \in [Ctl -> CtlRec]
        BY <1>2, <2>2 DEF OthersStay
    <2>4. CtlType(t)
        BY <1>1, <2>2 DEF CtlType, Act
    <2>5. QED
        BY <1>1, <1>4, <2>2, <2>3, <2>4 DEF Check, SameCmd, q
<1>5. QED
    BY <1>3, <1>4
(* A writer that comes along: nothing but the flag of a reader changes. *)
SameReader(d) ==
    /\ rx'[d].pc = rx[d].pc /\ rx'[d].b = rx[d].b /\ rx'[d].dir = rx[d].dir
    /\ rx'[d].next = rx[d].next /\ rx'[d].drop = rx[d].drop
    /\ rx[d].stale => rx'[d].stale

(* A write of a seqlock makes the reader on this CPU start again, and does *)
(* nothing else.                                                           *)
LEMMA StaleEffect ==
    ASSUME rx \in [Cpu -> RxRec], NEW b, NEW c \in Cpu, rx' = Stale(b, c)
    PROVE  /\ rx' \in [Cpu -> RxRec] /\ \A d \in Cpu : SameReader(d)
           /\ rx[c].b = b => rx'[c].stale
<1> DEFINE t == [rx[c] EXCEPT !.stale = (rx[c].b = b) \/ @]
<1>1. rx[c] \in RxRec
    OBVIOUS
<1>2. /\ t \in RxRec /\ t.pc = rx[c].pc /\ t.b = rx[c].b /\ t.dir = rx[c].dir
      /\ t.next = rx[c].next /\ t.drop = rx[c].drop
    BY <1>1 DEF RxRec
<1>3. t.stale = ((rx[c].b = b) \/ rx[c].stale)
    BY <1>1 DEF RxRec
<1>4. rx' = [rx EXCEPT ![c] = t]
    BY DEF Stale
<1> HIDE DEF t
<1>5. /\ rx' \in [Cpu -> RxRec] /\ rx'[c] = t /\ \A d \in Cpu : d # c => rx'[d] = rx[d]
    BY <1>2, <1>4
<1>6. SameReader(c)
    BY <1>2, <1>3, <1>5 DEF SameReader
<1>7. \A d \in Cpu : d # c => SameReader(d)
    BY <1>5 DEF SameReader
<1>8. rx[c].b = b => rx'[c].stale
    BY <1>3, <1>5
<1>9. QED
    BY <1>5, <1>6, <1>7, <1>8

(* write_seqlock, or the lock of the block. *)
LEMMA LockEffect ==
    ASSUME TypeInv, NEW p \in Ctl, Lock(p)
    PROVE  /\ Act(ctl[p]) /\ ctl[p].pc = "lock"
           /\ OthersStay(p) /\ ctl' \in [Ctl -> CtlRec] /\ CtlType(ctl'[p])
           /\ ctl'[p].pc = "write" /\ ctl'[p].p = ctl[p].p
           /\ SameCmd(ctl'[p], ctl[p])
           /\ ctl'[p].stage = ctl[p].stage /\ ctl'[p].i = ctl[p].i
           /\ writer' \in [Fb -> [Cpu -> Ctl \cup {NULL}]]
           /\ rx' \in [Cpu -> RxRec] /\ \A d \in Cpu : SameReader(d)
           /\ UNCHANGED <<kind, port>>
<1> DEFINE s == ctl[p]
           t == [s EXCEPT !.pc = "write"]
<1>1. Act(s) /\ s \in CtlRec /\ CtlType(s) /\ Receiver(s) \in Fb /\ s.i \in Cpu
    BY ReceiverType DEF Lock, Act, CtlType
<1>2. ctl' = [ctl EXCEPT ![p] = t] /\ ctl \in [Ctl -> CtlRec]
    BY DEF Lock, TypeInv, TypeOK
<1>3. /\ t \in CtlRec /\ t.pc = "write" /\ t.p = s.p
      /\ t.stage = s.stage /\ t.i = s.i /\ t.op = s.op /\ t.fb1 = s.fb1 /\ t.fb2 = s.fb2
    BY <1>1 DEF CtlRec
<1> HIDE DEF t
<1>4. ctl'[p] = t /\ OthersStay(p) /\ ctl' \in [Ctl -> CtlRec]
    BY <1>2, <1>3 DEF OthersStay
<1>5. CtlType(t)
    BY <1>1, <1>3 DEF CtlType, Act
<1>6. writer' \in [Fb -> [Cpu -> Ctl \cup {NULL}]]
    <2>1. writer \in [Fb -> [Cpu -> Ctl \cup {NULL}]]
        BY DEF TypeInv, TypeOK
    <2>2. writer' = [writer EXCEPT ![Receiver(s)][s.i] = p]
        BY DEF Lock
    <2>3. QED
        BY <1>1, <2>1, <2>2
<1>7. rx' = Stale(Receiver(s), s.i) /\ rx \in [Cpu -> RxRec]
    BY DEF Lock, TypeInv, TypeOK
<1>8. rx' \in [Cpu -> RxRec] /\ \A d \in Cpu : SameReader(d)
    BY <1>1, <1>7, StaleEffect
<1>9. QED
    BY <1>1, <1>3, <1>4, <1>5, <1>6, <1>8 DEF Lock, SameCmd

(* The port that is written: chosen before, or under the spinlock. *)
Target(s) == IF kind[Receiver(s)].lock = "seq" THEN s.p ELSE Chosen(s, s.i)

Written(p) ==
    LET s == ctl[p]
        b == Receiver(s)
    IN  /\ port'[b][s.i] = [port[b][s.i] EXCEPT ![Target(s)] = New(s)]
        /\ \A a \in Fb, c \in Cpu : (a # b \/ c # s.i) => port'[a][c] = port[a][c]
        /\ rx[s.i].b = b => rx'[s.i].stale
        /\ ctl'[p] = NextCpu(s)

(* The ports of one block on one CPU are written. *)
LEMMA PortSet ==
    ASSUME port \in [Fb -> [Cpu -> [Port -> Fb \cup {NULL}]]], NEW b \in Fb, NEW i \in Cpu,
           NEW row \in [Port -> Fb \cup {NULL}], port' = [port EXCEPT ![b][i] = row]
    PROVE  /\ port' \in [Fb -> [Cpu -> [Port -> Fb \cup {NULL}]]]
           /\ port'[b][i] = row
           /\ \A a \in Fb, c \in Cpu : (a # b \/ c # i) => port'[a][c] = port[a][c]
<1> DEFINE Row == [Port -> Fb \cup {NULL}]
<1>1. port \in [Fb -> [Cpu -> Row]] /\ row \in Row
    OBVIOUS
<1> HIDE DEF Row
<1>2. port' \in [Fb -> [Cpu -> Row]]
    BY <1>1
<1>3. QED
    BY <1>1, <1>2 DEF Row

(* The assignment to the port and write_sequnlock. *)
LEMMA WriteEffect ==
    ASSUME TypeInv, NEW p \in Ctl, Write(p)
    PROVE  /\ Act(ctl[p]) /\ ctl[p].pc = "write"
           /\ OthersStay(p) /\ ctl' \in [Ctl -> CtlRec] /\ CtlType(ctl'[p])
           /\ writer' \in [Fb -> [Cpu -> Ctl \cup {NULL}]]
           /\ port' \in [Fb -> [Cpu -> [Port -> Fb \cup {NULL}]]]
           /\ rx' \in [Cpu -> RxRec] /\ \A d \in Cpu : SameReader(d)
           /\ kind' = kind
           /\ \/ Target(ctl[p]) = NULL /\ Refused(p)
              \/ Target(ctl[p]) # NULL /\ Written(p)
<1> DEFINE s == ctl[p]
           b == Receiver(s)
           q == Target(s)
           new == [port[b][s.i] EXCEPT ![q] = New(s)]
<1>1. Act(s) /\ s \in CtlRec /\ CtlType(s) /\ b \in Fb /\ s.i \in Cpu /\ MsgIdp(s) \in Fb
    BY ReceiverType DEF Write, Act, CtlType
<1>2. /\ ctl \in [Ctl -> CtlRec] /\ rx \in [Cpu -> RxRec]
      /\ port \in [Fb -> [Cpu -> [Port -> Fb \cup {NULL}]]]
      /\ writer \in [Fb -> [Cpu -> Ctl \cup {NULL}]]
    BY DEF TypeInv, TypeOK
<1>3. s.pc = "write" /\ kind' = kind
    BY DEF Write
<1>4. writer' \in [Fb -> [Cpu -> Ctl \cup {NULL}]]
    <2>1. writer' = [writer EXCEPT ![b][s.i] = NULL]
        BY DEF Write
    <2>2. QED
        BY <1>1, <1>2, <2>1
<1>5. IF q = NULL
      THEN ctl' = [ctl EXCEPT ![p] = EventBad(s)] /\ UNCHANGED <<port, rx>>
      ELSE /\ port' = [port EXCEPT ![b][s.i] = new]
           /\ ctl' = [ctl EXCEPT ![p] = NextCpu(s)]
           /\ rx' = Stale(b, s.i)
    BY ChoiceIsChosen DEF Write, Target, New
<1>6. CASE q = NULL
    <2>1. CtlType(EventBad(s))
        BY <1>1, BadType
    <2>2. ctl'[p] = EventBad(s) /\ OthersStay(p) /\ ctl' \in [Ctl -> CtlRec]
        BY <1>2, <1>5, <1>6, <2>1 DEF OthersStay, CtlType
    <2>3. \A d \in Cpu : SameReader(d)
        BY <1>5, <1>6 DEF SameReader
    <2>4. QED
        BY <1>1, <1>2, <1>3, <1>4, <1>5, <1>6, <2>1, <2>2, <2>3 DEF Refused
<1>7. CASE q # NULL
    <2>1. CtlType(NextCpu(s))
        BY <1>1, NextCpuType
    <2>2. ctl'[p] = NextCpu(s) /\ OthersStay(p) /\ ctl' \in [Ctl -> CtlRec]
        BY <1>2, <1>5, <1>7, <2>1 DEF OthersStay, CtlType
    <2>3. /\ rx' \in [Cpu -> RxRec] /\ \A d \in Cpu : SameReader(d)
          /\ rx[s.i].b = b => rx'[s.i].stale
        BY <1>1, <1>2, <1>5, <1>7, StaleEffect
    <2>4. New(s) \in Fb \cup {NULL}
        BY <1>1 DEF New
    <2>5. new \in [Port -> Fb \cup {NULL}]
        <3>1. port[b][s.i] \in [Port -> Fb \cup {NULL}]
            BY <1>1, <1>2
        <3>2. QED
            BY <2>4, <3>1
    <2> HIDE DEF new, q, b
    <2>6. port' = [port EXCEPT ![b][s.i] = new]
        BY <1>5, <1>7
    <2>7. /\ port' \in [Fb -> [Cpu -> [Port -> Fb \cup {NULL}]]]
          /\ port'[b][s.i] = new
          /\ \A a \in Fb, c \in Cpu : (a # b \/ c # s.i) => port'[a][c] = port[a][c]
        BY <1>1, <1>2, <2>5, <2>6, PortSet
    <2>8. Written(p)
        BY <2>2, <2>3, <2>7 DEF Written, new, q, b
    <2>9. QED
        BY <1>1, <1>3, <1>4, <1>7, <2>1, <2>2, <2>3, <2>7, <2>8 DEF q
<1>8. QED
    BY <1>6, <1>7

-----------------------------------------------------------------------------
(* What a packet's step does. *)
RxOthers(c) == \A d \in Cpu : d # c => rx'[d] = rx[d]
RxOnly(c) == RxOthers(c) /\ rx' \in [Cpu -> RxRec] /\ UNCHANGED <<kind, port, writer, ctl>>

(* A packet arrives at a block. *)
LEMMA ReceiveEffect ==
    ASSUME TypeInv, NEW c \in Cpu, NEW b \in Fb, NEW dir \in Dir, Receive(c, b, dir)
    PROVE  RxOnly(c) /\ rx'[c].b = b /\ rx'[c].pc \in {"peek", "begin"}
<1> DEFINE t == [IdleRx EXCEPT !.b = b, !.dir = dir,
                               !.pc = IF kind[b].rx = "frame" THEN "peek" ELSE "begin"]
<1>1. t \in RxRec /\ t.b = b /\ t.pc \in {"peek", "begin"}
    BY DEF IdleRx, RxRec
<1>2. rx' = [rx EXCEPT ![c] = t] /\ rx \in [Cpu -> RxRec]
    BY DEF Receive, TypeInv, TypeOK
<1> HIDE DEF t
<1>3. QED
    BY <1>1, <1>2 DEF Receive, RxOnly, RxOthers

(* The test of fb_eth_handle_frame outside the seqlock. *)
LEMMA PeekEffect ==
    ASSUME TypeInv, NEW c \in Cpu, Peek(c)
    PROVE  /\ RxOnly(c) /\ rx[c].pc = "peek" /\ rx'[c].b = rx[c].b
           /\ \/ rx'[c].pc = "begin"
              \/ rx'[c].pc = "done" /\ rx'[c].drop
<1> DEFINE t == IF port[rx[c].b][c]["ingress"] = NULL
                THEN [rx[c] EXCEPT !.pc = "done", !.drop = TRUE]
                ELSE [rx[c] EXCEPT !.pc = "begin"]
<1>1. rx[c] \in RxRec /\ rx \in [Cpu -> RxRec]
    BY DEF TypeInv, TypeOK
<1>2. t \in RxRec /\ t.b = rx[c].b /\ (t.pc = "begin" \/ (t.pc = "done" /\ t.drop))
    BY <1>1 DEF RxRec
<1>3. rx' = [rx EXCEPT ![c] = t]
    BY DEF Peek
<1> HIDE DEF t
<1>4. QED
    BY <1>1, <1>2, <1>3 DEF Peek, RxOnly, RxOthers

(* read_seqbegin. *)
LEMMA ReadSeqbeginEffect ==
    ASSUME TypeInv, NEW c \in Cpu, ReadSeqbegin(c)
    PROVE  /\ RxOnly(c) /\ rx[c].pc = "begin" /\ kind[rx[c].b].lock = "seq"
           /\ rx'[c].b = rx[c].b /\ rx'[c].pc = "next"
<1> DEFINE t == [rx[c] EXCEPT !.pc = "next", !.stale = FALSE]
<1>1. rx[c] \in RxRec /\ rx \in [Cpu -> RxRec]
    BY DEF TypeInv, TypeOK
<1>2. t \in RxRec /\ t.b = rx[c].b /\ t.pc = "next"
    BY <1>1 DEF RxRec
<1>3. rx' = [rx EXCEPT ![c] = t]
    BY DEF ReadSeqbegin
<1> HIDE DEF t
<1>4. QED
    BY <1>1, <1>2, <1>3 DEF ReadSeqbegin, RxOnly, RxOthers

(* The first read of the port. *)
LEMMA ReadNextEffect ==
    ASSUME TypeInv, NEW c \in Cpu, ReadNext(c)
    PROVE  /\ RxOnly(c) /\ rx[c].pc = "next"
           /\ rx'[c].b = rx[c].b /\ rx'[c].dir = rx[c].dir
           /\ rx'[c].next = port[rx[c].b][c][rx[c].dir]
           /\ rx'[c].pc = IF kind[rx[c].b].rx = "forward" THEN "drop" ELSE "retry"
<1> DEFINE n == port[rx[c].b][c][rx[c].dir]
           x == IF kind[rx[c].b].rx = "forward" THEN "drop" ELSE "retry"
           t == [rx[c] EXCEPT !.next = n, !.pc = x]
<1>1. rx[c] \in RxRec /\ rx \in [Cpu -> RxRec] /\ rx[c].pc = "next"
    BY DEF TypeInv, TypeOK, ReadNext
<1>2. n \in Fb \cup {NULL}
    <2>1. rx[c].b \in Fb /\ rx[c].dir \in Port
        BY <1>1 DEF TypeInv, RxArgs, RxRec, Port
    <2>2. port \in [Fb -> [Cpu -> [Port -> Fb \cup {NULL}]]]
        BY DEF TypeInv, TypeOK
    <2>3. QED
        BY <2>1, <2>2
<1>3. x \in {"drop", "retry"}
    OBVIOUS
<1>4. rx' = [rx EXCEPT ![c] = t]
    BY DEF ReadNext
<1> HIDE DEF n, x
<1>5. t \in RxRec /\ t.b = rx[c].b /\ t.dir = rx[c].dir /\ t.next = n /\ t.pc = x
    BY <1>1, <1>2, <1>3 DEF RxRec
<1> HIDE DEF t
<1>6. rx'[c] = t /\ RxOthers(c) /\ rx' \in [Cpu -> RxRec]
    BY <1>1, <1>4, <1>5 DEF RxOthers
<1>7. QED
    BY <1>1, <1>5, <1>6 DEF ReadNext, RxOnly, n, x

(* The second read of the port. *)
LEMMA ReadDropEffect ==
    ASSUME TypeInv, NEW c \in Cpu, ReadDrop(c)
    PROVE  /\ RxOnly(c) /\ rx[c].pc = "drop"
           /\ rx'[c].b = rx[c].b /\ rx'[c].next = rx[c].next /\ rx'[c].pc = "retry"
           /\ rx'[c].stale = rx[c].stale
           /\ port[rx[c].b][c][rx[c].dir] = NULL => rx'[c].drop
<1> DEFINE d == rx[c].drop \/ port[rx[c].b][c][rx[c].dir] = NULL
           t == [rx[c] EXCEPT !.drop = d, !.pc = "retry"]
<1>1. rx[c] \in RxRec /\ rx \in [Cpu -> RxRec]
    BY DEF TypeInv, TypeOK
<1>2. /\ t \in RxRec /\ t.b = rx[c].b /\ t.next = rx[c].next /\ t.pc = "retry"
      /\ t.stale = rx[c].stale /\ t.drop = d
    BY <1>1 DEF RxRec
<1>3. rx' = [rx EXCEPT ![c] = t]
    BY DEF ReadDrop
<1>4. port[rx[c].b][c][rx[c].dir] = NULL => d
    OBVIOUS
<1> HIDE DEF t, d
<1>5. rx'[c] = t /\ RxOthers(c) /\ rx' \in [Cpu -> RxRec]
    BY <1>1, <1>2, <1>3 DEF RxOthers
<1>6. QED
    BY <1>2, <1>4, <1>5 DEF ReadDrop, RxOnly

(* read_seqretry. *)
LEMMA ReadSeqretryEffect ==
    ASSUME TypeInv, NEW c \in Cpu, ReadSeqretry(c)
    PROVE  /\ RxOnly(c) /\ rx[c].pc = "retry"
           /\ rx'[c].b = rx[c].b /\ rx'[c].next = rx[c].next /\ rx'[c].drop = rx[c].drop
           /\ \/ rx'[c].pc = "begin"
              \/ rx'[c].pc = "done" /\ ~rx[c].stale
<1> DEFINE x == IF rx[c].stale THEN "begin" ELSE "done"
           t == [rx[c] EXCEPT !.pc = x]
<1>1. rx[c] \in RxRec /\ rx \in [Cpu -> RxRec]
    BY DEF TypeInv, TypeOK
<1>2. t \in RxRec /\ t.b = rx[c].b /\ t.next = rx[c].next /\ t.drop = rx[c].drop /\ t.pc = x
    BY <1>1 DEF RxRec
<1>3. rx' = [rx EXCEPT ![c] = t]
    BY DEF ReadSeqretry
<1>4. x = "begin" \/ (x = "done" /\ ~rx[c].stale)
    OBVIOUS
<1> HIDE DEF t, x
<1>5. rx'[c] = t /\ RxOthers(c) /\ rx' \in [Cpu -> RxRec]
    BY <1>1, <1>2, <1>3 DEF RxOthers
<1>6. QED
    BY <1>2, <1>4, <1>5 DEF ReadSeqretry, RxOnly

(* fb_bpf_netrx reads under its own lock. *)
LEMMA FilterEffect ==
    ASSUME TypeInv, NEW c \in Cpu, Filter(c)
    PROVE  /\ RxOnly(c) /\ rx[c].pc = "begin"
           /\ rx'[c].b = rx[c].b /\ rx'[c].pc = "done"
           /\ rx'[c].drop \/ rx'[c].next # NULL
<1> DEFINE q == port[rx[c].b][c][rx[c].dir]
           t == [rx[c] EXCEPT !.pc = "done", !.drop = TRUE]
           u == [rx[c] EXCEPT !.pc = "done", !.next = q, !.drop = (q = NULL)]
<1>1. rx[c] \in RxRec /\ rx \in [Cpu -> RxRec] /\ rx[c].pc = "begin"
    BY DEF TypeInv, TypeOK, Filter
<1>2. q \in Fb \cup {NULL}
    <2>1. rx[c].b \in Fb /\ rx[c].dir \in Port
        BY <1>1 DEF TypeInv, RxArgs, RxRec, Port
    <2>2. port \in [Fb -> [Cpu -> [Port -> Fb \cup {NULL}]]]
        BY DEF TypeInv, TypeOK
    <2>3. QED
        BY <2>1, <2>2
<1>3. rx' = [rx EXCEPT ![c] = t] \/ rx' = [rx EXCEPT ![c] = u]
    BY DEF Filter
<1> HIDE DEF q
<1>4. t \in RxRec /\ t.b = rx[c].b /\ t.pc = "done" /\ t.drop
    BY <1>1 DEF RxRec
<1>5. /\ u \in RxRec /\ u.b = rx[c].b /\ u.pc = "done" /\ u.next = q
      /\ u.drop = (q = NULL)
    BY <1>1, <1>2 DEF RxRec
<1> HIDE DEF t, u
<1>6. RxOthers(c) /\ rx' \in [Cpu -> RxRec] /\ (rx'[c] = t \/ rx'[c] = u)
    BY <1>1, <1>3, <1>4, <1>5 DEF RxOthers
<1>7. QED
    BY <1>1, <1>4, <1>5, <1>6 DEF Filter, RxOnly

(* netrx returns. *)
LEMMA ReturnEffect ==
    ASSUME TypeInv, NEW c \in Cpu, Return(c)
    PROVE  RxOnly(c) /\ rx'[c].pc = "idle"
<1>1. IdleRx \in RxRec /\ IdleRx.pc = "idle"
    BY DEF IdleRx, RxRec, Dir
<1>2. rx \in [Cpu -> RxRec]
    BY DEF TypeInv, TypeOK
<1>3. QED
    BY <1>1, <1>2 DEF Return, RxOnly, RxOthers
-----------------------------------------------------------------------------
(* Type correctness. *)
LEMMA TypeInvInit == Init => TypeInv
<1> SUFFICES ASSUME Init PROVE TypeInv
    OBVIOUS
<1>1. IdleRx \in RxRec /\ IdleRx.pc = "idle"
    BY DEF IdleRx, RxRec, Dir
<1>2. /\ kind \in [Fb -> Kinds] /\ writer \in [Fb -> [Cpu -> Ctl \cup {NULL}]]
      /\ port \in [Fb -> [Cpu -> [Port -> Fb \cup {NULL}]]]
    BY DEF Init
<1>3. ctl \in [Ctl -> CtlRec] /\ \A p \in Ctl : ~Act(ctl[p])
    BY IdleCtlType DEF Init
<1>4. rx \in [Cpu -> RxRec] /\ \A c \in Cpu : rx[c].pc = "idle"
    BY <1>1 DEF Init
<1>5. QED
    BY <1>2, <1>3, <1>4 DEF TypeInv, TypeOK, CtlArgs, RxArgs

(* What the steps of processes and packets share. *)
LEMMA CtlArgsStep ==
    ASSUME TypeInv, NEW p \in Ctl, OthersStay(p), CtlType(ctl'[p])
    PROVE  CtlArgs'
BY DEF TypeInv, CtlArgs, OthersStay, CtlType, Act

(* Where no reader moves, readers stay in their blocks. *)
LEMMA RxArgsKept ==
    ASSUME TypeInv, kind' = kind, \A d \in Cpu : SameReader(d)
    PROVE  RxArgs'
BY DEF TypeInv, RxArgs, SameReader

(* The step of one reader keeps the types. *)
LEMMA RxTypeStep ==
    ASSUME TypeInv, NEW c \in Cpu, RxOnly(c),
           rx'[c].pc # "idle" => rx'[c].b \in Fb,
           rx'[c].pc \in {"next", "drop", "retry"} => kind[rx'[c].b].lock = "seq"
    PROVE  TypeInv'
<1>1. TypeOK'
    BY DEF TypeInv, TypeOK, RxOnly
<1>2. CtlArgs'
    BY DEF TypeInv, CtlArgs, RxOnly
<1>3. RxArgs'
    BY DEF TypeInv, RxArgs, RxOnly, RxOthers
<1>4. QED
    BY <1>1, <1>2, <1>3 DEF TypeInv

(* Every step keeps the types. *)
LEMMA TypeInvStep ==
    ASSUME TypeInv, [Next]_vars
    PROVE  TypeInv'
<1>1. ASSUME NEW p \in Ctl, NEW op \in Op, NEW fb1 \in Fb, NEW fb2 \in Fb,
             Start(p, op, fb1, fb2)
      PROVE  TypeInv'
    <2>1. /\ OthersStay(p) /\ ctl' \in [Ctl -> CtlRec] /\ CtlType(ctl'[p])
          /\ UNCHANGED <<kind, port, writer, rx>>
        BY <1>1, StartEffect
    <2>2. CtlArgs'
        BY <2>1, CtlArgsStep
    <2>3. QED
        BY <2>1, <2>2 DEF TypeInv, TypeOK, RxArgs
<1>2. ASSUME NEW p \in Ctl, Check(p) PROVE TypeInv'
    <2>1. /\ OthersStay(p) /\ ctl' \in [Ctl -> CtlRec] /\ CtlType(ctl'[p])
          /\ UNCHANGED <<kind, port, writer, rx>>
        BY <1>2, CheckEffect
    <2>2. CtlArgs'
        BY <2>1, CtlArgsStep
    <2>3. QED
        BY <2>1, <2>2 DEF TypeInv, TypeOK, RxArgs
<1>3. ASSUME NEW p \in Ctl, Lock(p) PROVE TypeInv'
    <2>1. /\ OthersStay(p) /\ ctl' \in [Ctl -> CtlRec] /\ CtlType(ctl'[p])
          /\ writer' \in [Fb -> [Cpu -> Ctl \cup {NULL}]]
          /\ rx' \in [Cpu -> RxRec] /\ \A d \in Cpu : SameReader(d)
          /\ UNCHANGED <<kind, port>>
        BY <1>3, LockEffect
    <2>2. CtlArgs' /\ RxArgs'
        BY <2>1, CtlArgsStep, RxArgsKept
    <2>3. QED
        BY <2>1, <2>2 DEF TypeInv, TypeOK
<1>4. ASSUME NEW p \in Ctl, Write(p) PROVE TypeInv'
    <2>1. /\ OthersStay(p) /\ ctl' \in [Ctl -> CtlRec] /\ CtlType(ctl'[p])
          /\ writer' \in [Fb -> [Cpu -> Ctl \cup {NULL}]]
          /\ port' \in [Fb -> [Cpu -> [Port -> Fb \cup {NULL}]]]
          /\ rx' \in [Cpu -> RxRec] /\ \A d \in Cpu : SameReader(d)
          /\ kind' = kind
        BY <1>4, WriteEffect
    <2>2. CtlArgs' /\ RxArgs'
        BY <2>1, CtlArgsStep, RxArgsKept
    <2>3. QED
        BY <2>1, <2>2 DEF TypeInv, TypeOK
<1>5. ASSUME NEW c \in Cpu, NEW b \in Fb, NEW dir \in Dir, Receive(c, b, dir) PROVE TypeInv'
    <2>1. RxOnly(c) /\ rx'[c].b = b /\ rx'[c].pc \in {"peek", "begin"}
        BY <1>5, ReceiveEffect
    <2>2. QED
        BY <2>1, RxTypeStep
<1>6. ASSUME NEW c \in Cpu, Peek(c) PROVE TypeInv'
    <2>1. RxOnly(c) /\ rx[c].pc = "peek" /\ rx'[c].b = rx[c].b /\ rx'[c].pc \in {"begin", "done"}
        BY <1>6, PeekEffect
    <2>2. rx[c].b \in Fb
        BY <2>1 DEF TypeInv, RxArgs
    <2>3. QED
        BY <2>1, <2>2, RxTypeStep
<1>7. ASSUME NEW c \in Cpu, ReadSeqbegin(c) PROVE TypeInv'
    <2>1. /\ RxOnly(c) /\ rx[c].pc = "begin" /\ kind[rx[c].b].lock = "seq"
          /\ rx'[c].b = rx[c].b
        BY <1>7, ReadSeqbeginEffect
    <2>2. rx[c].b \in Fb
        BY <2>1 DEF TypeInv, RxArgs
    <2>3. QED
        BY <2>1, <2>2, RxTypeStep
<1>8. ASSUME NEW c \in Cpu, ReadNext(c) PROVE TypeInv'
    <2>1. RxOnly(c) /\ rx[c].pc = "next" /\ rx'[c].b = rx[c].b
        BY <1>8, ReadNextEffect
    <2>2. rx[c].b \in Fb /\ kind[rx[c].b].lock = "seq"
        BY <2>1 DEF TypeInv, RxArgs
    <2>3. QED
        BY <2>1, <2>2, RxTypeStep
<1>9. ASSUME NEW c \in Cpu, ReadDrop(c) PROVE TypeInv'
    <2>1. RxOnly(c) /\ rx[c].pc = "drop" /\ rx'[c].b = rx[c].b
        BY <1>9, ReadDropEffect
    <2>2. rx[c].b \in Fb /\ kind[rx[c].b].lock = "seq"
        BY <2>1 DEF TypeInv, RxArgs
    <2>3. QED
        BY <2>1, <2>2, RxTypeStep
<1>10. ASSUME NEW c \in Cpu, ReadSeqretry(c) PROVE TypeInv'
    <2>1. RxOnly(c) /\ rx[c].pc = "retry" /\ rx'[c].b = rx[c].b
        BY <1>10, ReadSeqretryEffect
    <2>2. rx[c].b \in Fb /\ kind[rx[c].b].lock = "seq"
        BY <2>1 DEF TypeInv, RxArgs
    <2>3. QED
        BY <2>1, <2>2, RxTypeStep
<1>11. ASSUME NEW c \in Cpu, Filter(c) PROVE TypeInv'
    <2>1. RxOnly(c) /\ rx[c].pc = "begin" /\ rx'[c].b = rx[c].b /\ rx'[c].pc = "done"
        BY <1>11, FilterEffect
    <2>2. rx[c].b \in Fb
        BY <2>1 DEF TypeInv, RxArgs
    <2>3. QED
        BY <2>1, <2>2, RxTypeStep
<1>12. ASSUME NEW c \in Cpu, Return(c) PROVE TypeInv'
    <2>1. RxOnly(c) /\ rx'[c].pc = "idle"
        BY <1>12, ReturnEffect
    <2>2. QED
        BY <2>1, RxTypeStep
<1>13. CASE UNCHANGED vars
    BY <1>13 DEF vars, TypeInv, TypeOK, CtlArgs, RxArgs
<1>14. \A c \in RxCpu : c \in Cpu
    BY RxCpuAssumption DEF Cpu
<1>15. QED
    BY <1>1, <1>2, <1>3, <1>4, <1>5, <1>6, <1>7, <1>8, <1>9, <1>10, <1>11, <1>12, <1>13, <1>14
       DEF Next, CtlStep, RxStep

(* The per-CPU ports, their locks, the control processes and the packets   *)
(* are well-typed in every state.                                          *)
THEOREM TypeCorrect == Spec => []TypeOK
<1>1. TypeInv => TypeOK
    BY DEF TypeInv
<1>2. QED
    BY <1>1, TypeInvInit, TypeInvStep, PTL DEF Spec

-----------------------------------------------------------------------------
(* The readers. *)
LEMMA ReadKept ==
    ASSUME TypeInv, ReadInv, kind' = kind, port' = port, \A d \in Cpu : SameReader(d)
    PROVE  ReadInv'
<1>1. \A d \in Cpu : rx[d].stale \in BOOLEAN /\ rx[d].drop \in BOOLEAN
    BY DEF TypeInv, TypeOK, RxRec
<1>2. ReadValid'
    BY <1>1 DEF ReadInv, ReadValid, SameReader
<1>3. SuccessHasNext'
    BY DEF ReadInv, SuccessHasNext, SameReader
<1>4. QED
    BY <1>2, <1>3 DEF ReadInv

(* A reader whose port is written has to start again. *)
LEMMA ReadWritten ==
    ASSUME TypeInv, ReadInv, NEW p \in Ctl, Act(ctl[p]), kind' = kind, Written(p),
           \A d \in Cpu : SameReader(d)
    PROVE  ReadInv'
<1>1. ReadValid'
    <2> SUFFICES ASSUME NEW d \in Cpu, rx'[d].pc \in {"drop", "retry"},
                        kind'[rx'[d].b].rx = "forward", ~rx'[d].stale
                 PROVE  /\ rx'[d].pc = "drop" => rx'[d].next = port'[rx'[d].b][d][rx'[d].dir]
                        /\ rx'[d].pc = "retry" => rx'[d].drop \/ rx'[d].next # NULL
        BY DEF ReadValid
    <2>1. SameReader(d)
        OBVIOUS
    <2>2. ~rx[d].stale /\ rx[d].pc = rx'[d].pc /\ rx[d].b = rx'[d].b
        BY <2>1 DEF SameReader
    <2>3. /\ rx[d].pc = "drop" => rx[d].next = port[rx[d].b][d][rx[d].dir]
          /\ rx[d].pc = "retry" => rx[d].drop \/ rx[d].next # NULL
        BY <2>2 DEF ReadInv, ReadValid
    <2>4. rx[d].b \in Fb
        BY <2>2 DEF TypeInv, RxArgs
    <2>5. port'[rx[d].b][d] = port[rx[d].b][d]
        BY <2>2, <2>4 DEF Written
    <2>6. QED
        BY <2>1, <2>2, <2>3, <2>5 DEF SameReader
<1>2. SuccessHasNext'
    BY DEF ReadInv, SuccessHasNext, SameReader
<1>3. QED
    BY <1>1, <1>2 DEF ReadInv

(* A packet's own step. *)
LEMMA ReadOwn ==
    ASSUME TypeInv, ReadInv, NEW c \in Cpu, RxOnly(c),
           rx'[c].pc \in {"drop", "retry"} /\ kind[rx'[c].b].rx = "forward" /\ ~rx'[c].stale =>
               /\ rx'[c].pc = "drop" => rx'[c].next = port[rx'[c].b][c][rx'[c].dir]
               /\ rx'[c].pc = "retry" => rx'[c].drop \/ rx'[c].next # NULL,
           rx'[c].pc = "done" /\ kind[rx'[c].b].rx \in {"forward", "filter"}
               => (rx'[c].drop \/ rx'[c].next # NULL)
    PROVE  ReadInv'
<1>1. ReadValid'
    BY DEF ReadInv, ReadValid, RxOnly, RxOthers
<1>2. SuccessHasNext'
    BY DEF ReadInv, SuccessHasNext, RxOnly, RxOthers
<1>3. QED
    BY <1>1, <1>2 DEF ReadInv

(* Every step keeps what a reader knows of the ports. *)
LEMMA ReadStep ==
    ASSUME TypeInv, ReadInv, [Next]_vars
    PROVE  ReadInv'
<1>1. ASSUME kind' = kind, port' = port, rx' = rx PROVE ReadInv'
    <2>1. \A d \in Cpu : SameReader(d)
        BY <1>1 DEF SameReader
    <2>2. QED
        BY <1>1, <2>1, ReadKept
<1>2. ASSUME NEW p \in Ctl, NEW op \in Op, NEW fb1 \in Fb, NEW fb2 \in Fb,
             Start(p, op, fb1, fb2)
      PROVE  ReadInv'
    BY <1>1, <1>2 DEF Start
<1>3. ASSUME NEW p \in Ctl, Check(p) PROVE ReadInv'
    BY <1>1, <1>3 DEF Check
<1>4. ASSUME NEW p \in Ctl, Lock(p) PROVE ReadInv'
    BY <1>4, LockEffect, ReadKept
<1>5. ASSUME NEW p \in Ctl, Write(p) PROVE ReadInv'
    <2>1. Act(ctl[p]) /\ kind' = kind /\ \A d \in Cpu : SameReader(d)
        BY <1>5, WriteEffect
    <2>2. CASE Refused(p)
        BY <1>1, <2>1, <2>2 DEF Refused
    <2>3. CASE Written(p)
        BY <2>1, <2>3, ReadWritten
    <2>4. QED
        BY <1>5, <2>2, <2>3, WriteEffect
<1>6. ASSUME NEW c \in Cpu, NEW b \in Fb, NEW dir \in Dir, Receive(c, b, dir) PROVE ReadInv'
    <2>1. RxOnly(c) /\ rx'[c].pc \in {"peek", "begin"}
        BY <1>6, ReceiveEffect
    <2>2. QED
        BY <2>1, ReadOwn
<1>7. ASSUME NEW c \in Cpu, Peek(c) PROVE ReadInv'
    <2>1. RxOnly(c) /\ (rx'[c].pc = "begin" \/ (rx'[c].pc = "done" /\ rx'[c].drop))
        BY <1>7, PeekEffect
    <2>2. QED
        BY <2>1, ReadOwn
<1>8. ASSUME NEW c \in Cpu, ReadSeqbegin(c) PROVE ReadInv'
    <2>1. RxOnly(c) /\ rx'[c].pc = "next"
        BY <1>8, ReadSeqbeginEffect
    <2>2. QED
        BY <2>1, ReadOwn
<1>9. ASSUME NEW c \in Cpu, ReadNext(c) PROVE ReadInv'
    <2>1. /\ RxOnly(c) /\ rx'[c].b = rx[c].b /\ rx'[c].dir = rx[c].dir
          /\ rx'[c].next = port[rx[c].b][c][rx[c].dir]
          /\ rx'[c].pc = IF kind[rx[c].b].rx = "forward" THEN "drop" ELSE "retry"
        BY <1>9, ReadNextEffect
    <2>2. QED
        BY <2>1, ReadOwn
<1>10. ASSUME NEW c \in Cpu, ReadDrop(c) PROVE ReadInv'
    <2>1. /\ RxOnly(c) /\ rx[c].pc = "drop"
          /\ rx'[c].b = rx[c].b /\ rx'[c].next = rx[c].next /\ rx'[c].pc = "retry"
          /\ rx'[c].stale = rx[c].stale
          /\ port[rx[c].b][c][rx[c].dir] = NULL => rx'[c].drop
        BY <1>10, ReadDropEffect
    <2>2. kind[rx[c].b].rx = "forward" /\ ~rx[c].stale
              => rx[c].next = port[rx[c].b][c][rx[c].dir]
        BY <2>1 DEF ReadInv, ReadValid
    <2>3. QED
        BY <2>1, <2>2, ReadOwn
<1>11. ASSUME NEW c \in Cpu, ReadSeqretry(c) PROVE ReadInv'
    <2>1. /\ RxOnly(c) /\ rx[c].pc = "retry"
          /\ rx'[c].b = rx[c].b /\ rx'[c].next = rx[c].next /\ rx'[c].drop = rx[c].drop
          /\ rx'[c].pc = "begin" \/ (rx'[c].pc = "done" /\ ~rx[c].stale)
        BY <1>11, ReadSeqretryEffect
    <2>2. rx[c].b \in Fb /\ kind[rx[c].b].lock = "seq"
        BY <2>1 DEF TypeInv, RxArgs
    <2>3. kind[rx[c].b].rx # "filter"
        BY <2>2, KindFields DEF TypeInv, TypeOK
    <2>4. kind[rx[c].b].rx = "forward" /\ ~rx[c].stale => rx[c].drop \/ rx[c].next # NULL
        BY <2>1 DEF ReadInv, ReadValid
    <2>5. QED
        BY <2>1, <2>3, <2>4, ReadOwn
<1>12. ASSUME NEW c \in Cpu, Filter(c) PROVE ReadInv'
    <2>1. RxOnly(c) /\ rx'[c].pc = "done" /\ (rx'[c].drop \/ rx'[c].next # NULL)
        BY <1>12, FilterEffect
    <2>2. QED
        BY <2>1, ReadOwn
<1>13. ASSUME NEW c \in Cpu, Return(c) PROVE ReadInv'
    <2>1. RxOnly(c) /\ rx'[c].pc = "idle"
        BY <1>13, ReturnEffect
    <2>2. QED
        BY <2>1, ReadOwn
<1>14. CASE UNCHANGED vars
    BY <1>1, <1>14 DEF vars
<1>15. \A c \in RxCpu : c \in Cpu
    BY RxCpuAssumption DEF Cpu
<1>16. QED
    BY <1>2, <1>3, <1>4, <1>5, <1>6, <1>7, <1>8, <1>9, <1>10, <1>11, <1>12, <1>13, <1>14, <1>15
       DEF Next, CtlStep, RxStep

(* A netrx that returns PPE_SUCCESS has written a next idp to the packet,  *)
(* however many control processes write the ports meanwhile: the seqlock   *)
(* makes it read again, and a port that it found empty once is remembered. *)
THEOREM SuccessNamesNext == Spec => []SuccessHasNext
<1>1. Init => ReadInv
    <2>1. Init => \A c \in Cpu : rx[c].pc = "idle"
        BY DEF Init, IdleRx
    <2>2. QED
        BY <2>1 DEF ReadInv, ReadValid, SuccessHasNext
<1>2. TypeInv /\ ReadInv /\ [Next]_vars => ReadInv'
    BY ReadStep
<1>3. ReadInv => SuccessHasNext
    BY DEF ReadInv
<1>4. QED
    BY TypeInvInit, TypeInvStep, <1>1, <1>2, <1>3, PTL DEF Spec
-----------------------------------------------------------------------------
(* Events, when there is a single control process. *)
OneWriter == \A p, q \in Ctl : p = q
AllAgree  == \A b \in Fb, c, d \in Cpu : port[b][c] = port[b][d]

(* It suffices to look at the process that moves. *)
LEMMA EventOwn ==
    ASSUME OneWriter, NEW p \in Ctl,
           ctl'[p].stage = "idle" => AllAgree',
           ctl'[p].stage # "panic",
           Act(ctl'[p]) => (Visited(ctl[p]) /\ ChoiceHolds(ctl[p]) /\ Releasable(ctl[p]))'
    PROVE  EventInv'
<1>1. \A q \in Ctl : q = p
    BY DEF OneWriter
<1>2. CpusAgree' /\ NoPanic'
    BY <1>1 DEF CpusAgree, Quiet, AllAgree, NoPanic
<1>3. \A q \in Ctl : Act(ctl'[q]) => (Visited(ctl[q]) /\ ChoiceHolds(ctl[q]) /\ Releasable(ctl[q]))'
    BY <1>1
<1>4. QED
    BY <1>2, <1>3 DEF EventInv

(* An event that starts where all CPUs agree. *)
LEMMA EventStarts ==
    ASSUME AllAgree', NEW p \in Ctl, kind' = kind, ctl'[p] \in CtlRec, Act(ctl'[p]),
           ctl'[p].i = 1, ctl'[p].pc = FirstPc(Receiver(ctl'[p])),
           ctl'[p].stage = "undo" \/ (ctl'[p].stage = "two" /\ ctl'[p].op = "bind")
               => \A c \in Cpu : Found(ctl[p], c)'
    PROVE  (Visited(ctl[p]) /\ ChoiceHolds(ctl[p]) /\ Releasable(ctl[p]))'
<1>1. \A c \in Cpu : ~(c < ctl'[p].i)
    BY DEF Cpu
<1>2. Visited(ctl[p])'
    BY <1>1 DEF Visited, AllAgree
<1>3. ChoiceHolds(ctl[p])'
    BY FirstPcType DEF ChoiceHolds
<1>4. Releasable(ctl[p])'
    BY DEF Releasable
<1>5. QED
    BY <1>2, <1>3, <1>4

(* Events of the same stage and command have the same receiver, ... *)
LEMMA SameEvent ==
    ASSUME NEW s, NEW t, SameCmd(t, s), t.stage = s.stage
    PROVE  /\ Receiver(t) = Receiver(s) /\ MsgDir(t) = MsgDir(s)
           /\ Old(t) = Old(s) /\ New(t) = New(s)
BY DEF SameCmd, Receiver, MsgDir, Old, New, Binds, MsgIdp

(* A refusal comes from the first CPU: the later ones have what the first  *)
(* one had.                                                                *)
LEMMA RefusedFirst ==
    ASSUME TypeInv, EventInv, NEW p \in Ctl, Act(ctl[p]), Chosen(ctl[p], ctl[p].i) = NULL
    PROVE  ctl[p].i = 1
<1> DEFINE s == ctl[p]
<1>1. SUFFICES ASSUME s.i # 1 PROVE FALSE
    OBVIOUS
<1>2. s.i \in Cpu /\ Visited(s)
    BY ReceiverType DEF EventInv
<1>3. 1 \in Cpu /\ 1 < s.i /\ s.i <= s.i
    BY <1>1, <1>2, CpuAssumption DEF Cpu
<1>4. QED
    BY <1>2, <1>3 DEF Visited

(* After a refusal all CPUs agree still. *)
LEMMA EventRefused ==
    ASSUME OneWriter, TypeInv, EventInv, NEW p \in Ctl, Act(ctl[p]), kind' = kind, Refused(p),
           Chosen(ctl[p], ctl[p].i) = NULL
    PROVE  EventInv'
<1> DEFINE s == ctl[p]
<1>1. s \in CtlRec /\ s.i \in Cpu /\ Visited(s) /\ Releasable(s)
    BY ReceiverType DEF CtlType, EventInv
<1>2. s.i = 1
    BY RefusedFirst
<1>3. AllAgree
    <2>1. \A c \in Cpu : ~(c < s.i)
        BY <1>2 DEF Cpu
    <2>2. QED
        BY <1>1, <2>1 DEF Visited, AllAgree
<1>4. AllAgree' /\ ctl'[p] = EventBad(s) /\ port' = port
    BY <1>3 DEF Refused, AllAgree
<1>5. CASE s.stage = "two" /\ s.op = "bind" /\ Release(EventBad(s), s)
    <2>1. /\ ctl'[p] \in CtlRec /\ Act(ctl'[p]) /\ ctl'[p].i = 1 /\ ctl'[p].stage = "undo"
          /\ ctl'[p].pc = FirstPc(Receiver(ctl'[p]))
          /\ ctl'[p].fb1 = s.fb1 /\ ctl'[p].fb2 = s.fb2
        BY <1>4, <1>5 DEF Release, SameCmd, Act, Receiver
    <2>2. \A c \in Cpu : Found(s, c)
        <3>1. \A c \in Cpu : s.i <= c
            BY <1>2 DEF Cpu
        <3>2. QED
            BY <1>1, <1>5, <3>1 DEF Releasable
    <2>3. \A c \in Cpu : Found(ctl[p], c)'
        BY <1>4, <2>1, <2>2 DEF Found
    <2>4. (Visited(ctl[p]) /\ ChoiceHolds(ctl[p]) /\ Releasable(ctl[p]))'
        BY <1>4, <2>1, <2>3, EventStarts
    <2>5. QED
        BY <2>1, <2>4, EventOwn
<1>6. CASE s.stage = "undo"
    <2>1. s.i <= s.i
        BY <1>1 DEF Cpu
    <2>2. Found(s, s.i)
        BY <1>1, <1>6, <2>1 DEF Releasable
    <2>3. Chosen(s, s.i) # NULL
        BY <1>6, <2>2 DEF Found, Chosen, Receiver, MsgDir, Old, Binds, MsgIdp
    <2>4. QED
        BY <2>3
<1>7. CASE EventBad(s) = IdleCtl
    <2>1. ctl'[p].stage = "idle" /\ ~Act(ctl'[p])
        BY <1>4, <1>7, IdleCtlType
    <2>2. QED
        BY <1>4, <2>1, EventOwn
<1>8. QED
    BY <1>1, <1>5, <1>6, <1>7, EventBadFields

(* The rows of the receiver after a CPU was visited. *)
LEMMA EventWritten ==
    ASSUME OneWriter, TypeInv, EventInv, NEW p \in Ctl, Act(ctl[p]), ctl[p].pc = "write",
           kind' = kind, Target(ctl[p]) # NULL, Written(p)
    PROVE  EventInv'
<1> DEFINE s == ctl[p]
           b == Receiver(s)
           q == Chosen(s, s.i)
<1>1. /\ s \in CtlRec /\ CtlType(s) /\ s.i \in Cpu /\ b \in Fb /\ MsgDir(s) \in Dir
      /\ Visited(s) /\ Releasable(s) /\ ChoiceHolds(s)
    BY ReceiverType DEF CtlType, EventInv
<1>2. q = Target(s) /\ q # NULL
    BY <1>1 DEF Target, ChoiceHolds
<1>3. /\ port'[b][s.i] = [port[b][s.i] EXCEPT ![q] = New(s)]
      /\ \A a \in Fb, c \in Cpu : (a # b \/ c # s.i) => port'[a][c] = port[a][c]
      /\ ctl'[p] = NextCpu(s)
    BY <1>2 DEF Written
<1>o. \A c, d \in Cpu : /\ (c < d \/ d <= c) /\ (c <= d /\ d <= c => c = d)
                        /\ c <= c /\ (c < d + 1 <=> c <= d) /\ (c + 1 <= d <=> c < d)
                        /\ (c <= d <=> c < d \/ c = d) /\ ~(c < c)
    BY CpuAssumption DEF Cpu
<1>4. \A c \in Cpu : c <= s.i => port'[b][c] = port'[b][s.i]
    <2> SUFFICES ASSUME NEW c \in Cpu, c < s.i PROVE port'[b][c] = port'[b][s.i]
        BY <1>1, <1>o
    <2>1. port[b][c] = [port[b][s.i] EXCEPT ![q] = New(s)]
        BY <1>1, <1>o DEF Visited
    <2>2. QED
        BY <1>1, <1>3, <1>o, <2>1
<1>5. \A c \in Cpu : s.i < c => port'[b][c] = port[b][s.i]
    <2> SUFFICES ASSUME NEW c \in Cpu, s.i < c PROVE port'[b][c] = port[b][s.i]
        OBVIOUS
    <2>1. ~(c < s.i) /\ ~(s.i < s.i) /\ c # s.i
        BY <1>1, <1>o
    <2>2. port[b][c] = port[b][s.i]
        BY <1>1, <2>1 DEF Visited
    <2>3. QED
        BY <1>1, <1>3, <2>1, <2>2
<1>6. \A a \in Fb, c, d \in Cpu : a # b => port'[a][c] = port'[a][d]
    BY <1>1, <1>3 DEF Visited
<1>7. CASE s.i # NCpu /\ Onward(NextCpu(s), s)
    <2> DEFINE t == ctl'[p]
    <2>1. /\ t \in CtlRec /\ SameCmd(t, s) /\ t.stage = s.stage /\ t.i = s.i + 1
          /\ t.pc = FirstPc(Receiver(t)) /\ Act(t)
          /\ Receiver(t) = b /\ MsgDir(t) = MsgDir(s) /\ Old(t) = Old(s) /\ New(t) = New(s)
        BY <1>3, <1>7, SameEvent DEF Onward, SameCmd, Act
    <2>2. \A c \in Cpu : (c < t.i <=> c <= s.i) /\ (t.i <= c <=> s.i < c)
        BY <1>1, <1>o, <2>1
    <2>3. Visited(ctl[p])'
        <3>1. \A a \in Fb, c, d \in Cpu :
                  (a # b \/ (c <= s.i <=> d <= s.i)) => port'[a][c] = port'[a][d]
            BY <1>1, <1>4, <1>5, <1>6, <1>o
        <3>2. ASSUME NEW c \in Cpu, NEW d \in Cpu, c <= s.i, s.i < d
              PROVE  /\ Chosen(ctl[p], d)' = q
                     /\ port'[b][c] = [port'[b][d] EXCEPT ![q] = New(s)]
            <4>1. port'[b][d] = port[b][s.i] /\ port'[b][c] = port'[b][s.i]
                BY <1>4, <1>5, <3>2
            <4>2. Chosen(ctl[p], d)' = q
                BY <2>1, <4>1 DEF Chosen
            <4>3. QED
                BY <1>3, <4>1, <4>2
        <3>3. \A c, d \in Cpu : c < t.i /\ t.i <= d =>
                  /\ Chosen(ctl[p], d)' # NULL
                  /\ port'[b][c] = [port'[b][d] EXCEPT ![Chosen(ctl[p], d)'] = New(s)]
            BY <1>2, <2>2, <3>2
        <3>4. \A a \in Fb, c, d \in Cpu :
                  (a # b \/ (c < t.i <=> d < t.i)) => port'[a][c] = port'[a][d]
            BY <2>2, <3>1
        <3>5. QED
            BY <2>1, <3>3, <3>4 DEF Visited
    <2>4. ChoiceHolds(ctl[p])'
        BY <2>1, FirstPcType DEF ChoiceHolds
    <2>5. Releasable(ctl[p])'
        <3> SUFFICES ASSUME s.stage = "undo" \/ (s.stage = "two" /\ s.op = "bind"),
                            NEW c \in Cpu, s.i < c
                     PROVE  Found(ctl[p], c)'
            BY <2>1, <2>2 DEF Releasable, SameCmd
        <3>1. Found(s, c)
            BY <1>1, <1>o DEF Releasable
        <3>2. s.fb1 \in Fb /\ c # s.i
            BY <1>1, <1>o DEF CtlType
        <3>3. port'[s.fb1][c] = port[s.fb1][c]
            BY <1>3, <3>2
        <3>4. QED
            BY <2>1, <3>1, <3>3 DEF Found, SameCmd
    <2>6. t.stage # "idle" /\ t.stage # "panic"
        BY <2>1 DEF Act
    <2>7. QED
        BY <2>3, <2>4, <2>5, <2>6, EventOwn
<1>8. ASSUME s.i = NCpu PROVE AllAgree'
    <2>1. \A c \in Cpu : c <= s.i
        BY <1>8, CpuAssumption DEF Cpu
    <2>2. QED
        BY <1>4, <1>6, <2>1 DEF AllAgree
<1>9. CASE s.i = NCpu /\ s.stage = "one" /\ Second(NextCpu(s), s)
    <2>1. /\ ctl'[p] \in CtlRec /\ Act(ctl'[p]) /\ ctl'[p].i = 1 /\ ctl'[p].stage = "two"
          /\ ctl'[p].pc = FirstPc(Receiver(ctl'[p]))
          /\ ctl'[p].fb1 = s.fb1 /\ ctl'[p].fb2 = s.fb2 /\ ctl'[p].op = s.op
        BY <1>3, <1>9 DEF Second, SameCmd, Act, Receiver
    <2>2. ASSUME s.op = "bind", NEW c \in Cpu PROVE Found(ctl[p], c)'
        <3>1. b = s.fb1 /\ New(s) = s.fb2 /\ MsgDir(s) = "egress"
            BY <1>9, <2>2 DEF Receiver, New, Binds, MsgIdp, MsgDir
        <3>2. q \in Port /\ (q = "egress" \/ (kind[b].clone /\ q = "clone"))
            BY <1>1, <1>2, <3>1, PickPortType DEF Chosen
        <3>3. port[b][s.i] \in [Port -> Fb \cup {NULL}]
            BY <1>1 DEF TypeInv, TypeOK
        <3>4. port'[b][s.i][q] = s.fb2
            BY <1>3, <3>1, <3>2, <3>3
        <3>5. port'[b][c] = port'[b][s.i]
            BY <1>1, <1>8, <1>9 DEF AllAgree
        <3>6. NULL \notin Port
            BY NullAssumption
        <3>7. QED
            BY <2>1, <3>1, <3>2, <3>4, <3>5, <3>6 DEF Found, PickPort, Port, Dir
    <2>3. (Visited(ctl[p]) /\ ChoiceHolds(ctl[p]) /\ Releasable(ctl[p]))'
        BY <1>8, <1>9, <2>1, <2>2, EventStarts
    <2>4. QED
        BY <2>1, <2>3, EventOwn
<1>10. CASE s.i = NCpu /\ NextCpu(s) = IdleCtl
    <2>1. ctl'[p].stage = "idle" /\ ~Act(ctl'[p])
        BY <1>3, <1>10, IdleCtlType
    <2>2. QED
        BY <1>8, <1>10, <2>1, EventOwn
<1>11. QED
    BY <1>1, <1>7, <1>9, <1>10, NextCpuFields

(* A process that has chosen a port or taken the lock. *)
LEMMA EventGoesOn ==
    ASSUME OneWriter, TypeInv, EventInv, NEW p \in Ctl, Act(ctl[p]), kind' = kind, port' = port,
           SameCmd(ctl'[p], ctl[p]), ctl'[p].stage = ctl[p].stage, ctl'[p].i = ctl[p].i,
           kind[Receiver(ctl[p])].lock = "seq" =>
               ctl'[p].p = Chosen(ctl[p], ctl[p].i) /\ ctl'[p].p # NULL
    PROVE  EventInv'
<1> DEFINE s == ctl[p]
           t == ctl'[p]
<1>1. /\ Receiver(t) = Receiver(s) /\ MsgDir(t) = MsgDir(s)
      /\ Old(t) = Old(s) /\ New(t) = New(s) /\ t.stage \in {"one", "two", "undo"}
      /\ t.fb1 = s.fb1 /\ t.fb2 = s.fb2 /\ t.op = s.op
    BY SameEvent DEF SameCmd, Act
<1>2. Visited(s) /\ Releasable(s)
    BY DEF EventInv
<1>3. \A c \in Cpu : Chosen(ctl[p], c)' = Chosen(s, c) /\ Found(ctl[p], c)' = Found(s, c)
    BY <1>1 DEF Chosen, Found
<1>4. Visited(ctl[p])'
    BY <1>1, <1>2, <1>3 DEF Visited
<1>5. ChoiceHolds(ctl[p])'
    <2>1. s.i \in Cpu
        BY ReceiverType
    <2>2. QED
        BY <1>1, <1>3, <2>1 DEF ChoiceHolds
<1>6. Releasable(ctl[p])'
    BY <1>1, <1>2, <1>3 DEF Releasable
<1>7. QED
    BY <1>1, <1>4, <1>5, <1>6, EventOwn

(* No event is under way at first. *)
LEMMA EventInit == Init => EventInv
<1> SUFFICES ASSUME Init PROVE EventInv
    OBVIOUS
<1>1. \A p \in Ctl : ~Act(ctl[p]) /\ ctl[p].stage = "idle"
    BY IdleCtlType DEF Init
<1>2. CpusAgree
    BY DEF Init, CpusAgree
<1>3. QED
    BY <1>1, <1>2 DEF EventInv, NoPanic

(* Every step keeps what is known of an event under way, with one control  *)
(* process.                                                                *)
LEMMA EventStep ==
    ASSUME OneWriter, TypeInv, EventInv, [Next]_vars
    PROVE  EventInv'
<1>1. ASSUME NEW p \in Ctl, NEW op \in Op, NEW fb1 \in Fb, NEW fb2 \in Fb,
             Start(p, op, fb1, fb2)
      PROVE  EventInv'
    <2>1. /\ ctl[p].stage = "idle" /\ CtlType(ctl'[p]) /\ ctl'[p].stage = "one"
          /\ ctl'[p].fb1 = fb1 /\ ctl'[p].i = 1 /\ ctl'[p].pc = FirstPc(fb1)
          /\ UNCHANGED <<kind, port>>
        BY <1>1, StartEffect
    <2>2. AllAgree'
        BY <2>1 DEF OneWriter, EventInv, CpusAgree, Quiet, AllAgree
    <2>3. ctl'[p] \in CtlRec /\ Act(ctl'[p]) /\ Receiver(ctl'[p]) = fb1
        BY <2>1 DEF CtlType, Act, Receiver
    <2>4. (Visited(ctl[p]) /\ ChoiceHolds(ctl[p]) /\ Releasable(ctl[p]))'
        BY <2>1, <2>2, <2>3, EventStarts
    <2>5. QED
        BY <2>1, <2>4, EventOwn
<1>2. ASSUME NEW p \in Ctl, Check(p) PROVE EventInv'
    <2>1. Act(ctl[p]) /\ UNCHANGED <<kind, port>>
        BY <1>2, CheckEffect
    <2>2. CASE Chosen(ctl[p], ctl[p].i) = NULL /\ Refused(p)
        BY <2>1, <2>2, EventRefused
    <2>3. CASE /\ Chosen(ctl[p], ctl[p].i) # NULL /\ ctl'[p].p = Chosen(ctl[p], ctl[p].i)
               /\ SameCmd(ctl'[p], ctl[p])
               /\ ctl'[p].stage = ctl[p].stage /\ ctl'[p].i = ctl[p].i
        BY <2>1, <2>3, EventGoesOn
    <2>4. QED
        BY <1>2, <2>2, <2>3, CheckEffect
<1>3. ASSUME NEW p \in Ctl, Lock(p) PROVE EventInv'
    <2>1. /\ Act(ctl[p]) /\ ctl[p].pc = "lock" /\ ctl'[p].p = ctl[p].p
          /\ SameCmd(ctl'[p], ctl[p]) /\ ctl'[p].stage = ctl[p].stage /\ ctl'[p].i = ctl[p].i
          /\ UNCHANGED <<kind, port>>
        BY <1>3, LockEffect
    <2>2. ChoiceHolds(ctl[p])
        BY <2>1 DEF EventInv
    <2>3. QED
        BY <2>1, <2>2, EventGoesOn DEF ChoiceHolds
<1>4. ASSUME NEW p \in Ctl, Write(p) PROVE EventInv'
    <2>1. Act(ctl[p]) /\ ctl[p].pc = "write" /\ kind' = kind
        BY <1>4, WriteEffect
    <2>2. CASE Target(ctl[p]) = NULL /\ Refused(p)
        <3>1. Chosen(ctl[p], ctl[p].i) = NULL
            BY <2>1, <2>2 DEF EventInv, ChoiceHolds, Target
        <3>2. QED
            BY <2>1, <2>2, <3>1, EventRefused
    <2>3. CASE Target(ctl[p]) # NULL /\ Written(p)
        BY <2>1, <2>3, EventWritten
    <2>4. QED
        BY <1>4, <2>2, <2>3, WriteEffect
<1>5. ASSUME UNCHANGED <<kind, port, ctl>> PROVE EventInv'
    BY <1>5 DEF EventInv, CpusAgree, Quiet, NoPanic, Visited, ChoiceHolds, Releasable, Chosen, Found
<1>6. ASSUME NEW c \in RxCpu, NEW b \in Fb, NEW dir \in Dir, Receive(c, b, dir) PROVE EventInv'
    BY <1>5, <1>6 DEF Receive
<1>7. ASSUME NEW c \in RxCpu, RxStep(c) PROVE EventInv'
    BY <1>5, <1>7 DEF RxStep, Peek, ReadSeqbegin, ReadNext, ReadDrop, ReadSeqretry, Filter, Return
<1>8. CASE UNCHANGED vars
    BY <1>5, <1>8 DEF vars
<1>9. QED
    BY <1>1, <1>2, <1>3, <1>4, <1>6, <1>7, <1>8 DEF Next, CtlStep

(* With one control process at a time, all CPUs have the same ports        *)
(* between two commands, although the events of __fblock_bind and          *)
(* __fblock_unbind write them one CPU after the other and are refused by   *)
(* some blocks: a refusal comes from the first CPU or not at all.          *)
THEOREM AllCpusAgree ==
    ASSUME OneWriter
    PROVE  Spec => []CpusAgree
<1>1. TypeInv /\ EventInv /\ [Next]_vars => EventInv'
    BY EventStep
<1>2. EventInv => CpusAgree
    BY DEF EventInv
<1>3. QED
    BY TypeInvInit, TypeInvStep, EventInit, <1>1, <1>2, PTL DEF Spec

(* The panic of __fblock_bind ("cannot release") is not reached: what the  *)
(* first event has bound is found again on every CPU when the second block *)
(* refuses.                                                                *)
THEOREM BindNeverPanics ==
    ASSUME OneWriter
    PROVE  Spec => []NoPanic
<1>1. TypeInv /\ EventInv /\ [Next]_vars => EventInv'
    BY EventStep
<1>2. EventInv => NoPanic
    BY DEF EventInv
<1>3. QED
    BY TypeInvInit, TypeInvStep, EventInit, <1>1, <1>2, PTL DEF Spec
-----------------------------------------------------------------------------
(* Both ends of a connection, when there is a single control process. *)

(* It suffices to look at the process that moves. *)
LEMMA SymOwn ==
    ASSUME OneWriter, NEW p \in Ctl,
           \A a, b \in Fb, c \in Cpu :
               (TwoPort(a) /\ TwoPort(b))' =>
                   \/ Sym(a, b, c)'
                   \/ Act(ctl'[p]) /\ ctl'[p].fb1 = a /\ ctl'[p].fb2 = b,
           Act(ctl'[p]) => PairBound(ctl[p])'
    PROVE  SymInv'
<1>1. \A q \in Ctl : q = p
    BY DEF OneWriter
<1>2. \A q \in Ctl : Act(ctl'[q]) => PairBound(ctl[q])'
    BY <1>1
<1>3. QED
    BY <1>1, <1>2 DEF SymInv

(* Pairs that no command is about are symmetric. *)
LEMMA SymOthers ==
    ASSUME OneWriter, SymInv, NEW p \in Ctl, NEW a \in Fb, NEW b \in Fb, NEW c \in Cpu,
           TwoPort(a), TwoPort(b),
           ~Act(ctl[p]) \/ a # ctl[p].fb1 \/ b # ctl[p].fb2
    PROVE  Sym(a, b, c)
BY DEF OneWriter, SymInv

(* A block with two ports has the port that the event looks for, or        *)
(* refuses.                                                                *)
LEMMA TwoPortChoice ==
    ASSUME NEW s, NEW c, TwoPort(Receiver(s)), NULL \notin Dir
    PROVE  /\ Chosen(s, c) # NULL => /\ Chosen(s, c) = MsgDir(s)
                                     /\ port[Receiver(s)][c][MsgDir(s)] = Old(s)
           /\ Chosen(s, c) = NULL => port[Receiver(s)][c][MsgDir(s)] # Old(s)
<1>1. MsgDir(s) # NULL
    BY DEF MsgDir, Dir
<1>2. QED
    BY <1>1 DEF TwoPort, Chosen, PickPort

(* What a write changes of a connection between two-port blocks: only the  *)
(* end of the receiver, and only of the pair of the command.               *)
LEMMA WrittenEnds ==
    ASSUME TypeInv, EventInv, NEW p \in Ctl, Act(ctl[p]), ctl[p].pc = "write", kind' = kind,
           Target(ctl[p]) # NULL, Written(p)
    PROVE  /\ \A a, b \in Fb, c \in Cpu :
                  /\ TwoPort(a) /\ TwoPort(b)
                  /\ a # ctl[p].fb1 \/ b # ctl[p].fb2 \/ c # ctl[p].i
                  => /\ port'[a][c]["egress"] = b <=> port[a][c]["egress"] = b
                     /\ port'[b][c]["ingress"] = a <=> port[b][c]["ingress"] = a
           /\ TwoPort(Receiver(ctl[p])) =>
                  /\ port[Receiver(ctl[p])][ctl[p].i][MsgDir(ctl[p])] = Old(ctl[p])
                  /\ port'[Receiver(ctl[p])][ctl[p].i][MsgDir(ctl[p])] = New(ctl[p])
           /\ \A a \in Fb, c \in Cpu, d \in Dir :
                  (a # Receiver(ctl[p]) \/ c # ctl[p].i \/ d # MsgDir(ctl[p])) /\ TwoPort(a)
                      => port'[a][c][d] = port[a][c][d]
<1> DEFINE s == ctl[p]
           r == Receiver(s)
           q == Target(s)
<1>1. /\ s \in CtlRec /\ s.i \in Cpu /\ r \in Fb /\ MsgDir(s) \in Dir /\ MsgIdp(s) \in Fb
      /\ ChoiceHolds(s)
    BY ReceiverType DEF CtlType, EventInv
<1>2. q = Chosen(s, s.i)
    BY <1>1 DEF Target, ChoiceHolds
<1>3. /\ port'[r][s.i] = [port[r][s.i] EXCEPT ![q] = New(s)]
      /\ \A a \in Fb, c \in Cpu : (a # r \/ c # s.i) => port'[a][c] = port[a][c]
    BY DEF Written
<1>4. NULL \notin Dir /\ NULL \notin Fb
    BY NullAssumption DEF Port
<1>5. TwoPort(r) => q = MsgDir(s) /\ port[r][s.i][q] = Old(s)
    BY <1>2, <1>4, TwoPortChoice
<1>6. port[r][s.i] \in [Port -> Fb \cup {NULL}] /\ Dir \subseteq Port
    <2>1. port[r][s.i] \in [Port -> Fb \cup {NULL}]
        BY <1>1 DEF TypeInv, TypeOK
    <2>2. QED
        BY <2>1 DEF Port
<1>7. /\ TwoPort(r) => port'[r][s.i][MsgDir(s)] = New(s)
      /\ \A d \in Dir : TwoPort(r) /\ d # MsgDir(s) => port'[r][s.i][d] = port[r][s.i][d]
    BY <1>1, <1>3, <1>5, <1>6
<1>8. \A a \in Fb, c \in Cpu, d \in Dir :
          (a # r \/ c # s.i \/ d # MsgDir(s)) /\ TwoPort(a) => port'[a][c][d] = port[a][c][d]
    BY <1>3, <1>7
<1>9. /\ Old(s) \in {NULL, MsgIdp(s)} /\ New(s) \in {NULL, MsgIdp(s)}
      /\ "egress" \in Dir /\ "ingress" \in Dir
    BY DEF Old, New, Dir
<1>10. \/ r = s.fb1 /\ MsgIdp(s) = s.fb2 /\ MsgDir(s) = "egress"
       \/ r = s.fb2 /\ MsgIdp(s) = s.fb1 /\ MsgDir(s) = "ingress"
    BY DEF Receiver, MsgIdp, MsgDir
<1>11. ASSUME NEW a \in Fb, NEW b \in Fb, NEW c \in Cpu, TwoPort(a), TwoPort(b),
              a # s.fb1 \/ b # s.fb2 \/ c # s.i
       PROVE  port'[a][c]["egress"] = b <=> port[a][c]["egress"] = b
    <2>1. CASE a # r \/ c # s.i \/ MsgDir(s) # "egress"
        BY <1>8, <1>9, <1>11, <2>1
    <2>2. CASE a = r /\ c = s.i /\ MsgDir(s) = "egress"
        <3>1. a = s.fb1 /\ MsgIdp(s) = s.fb2
            BY <1>10, <2>2
        <3>2. port[a][c]["egress"] # b
            BY <1>4, <1>5, <1>9, <1>11, <2>2, <3>1
        <3>3. port'[a][c]["egress"] # b
            BY <1>4, <1>7, <1>9, <1>11, <2>2, <3>1
        <3>4. QED
            BY <3>2, <3>3
    <2>3. QED
        BY <2>1, <2>2
<1>12. ASSUME NEW a \in Fb, NEW b \in Fb, NEW c \in Cpu, TwoPort(a), TwoPort(b),
              a # s.fb1 \/ b # s.fb2 \/ c # s.i
       PROVE  port'[b][c]["ingress"] = a <=> port[b][c]["ingress"] = a
    <2>1. CASE b # r \/ c # s.i \/ MsgDir(s) # "ingress"
        BY <1>8, <1>9, <1>12, <2>1
    <2>2. CASE b = r /\ c = s.i /\ MsgDir(s) = "ingress"
        <3>1. b = s.fb2 /\ MsgIdp(s) = s.fb1
            BY <1>10, <2>2
        <3>2. port[b][c]["ingress"] # a
            BY <1>4, <1>5, <1>9, <1>12, <2>2, <3>1
        <3>3. port'[b][c]["ingress"] # a
            BY <1>4, <1>7, <1>9, <1>12, <2>2, <3>1
        <3>4. QED
            BY <3>2, <3>3
    <2>3. QED
        BY <2>1, <2>2
<1>13. QED
    BY <1>5, <1>7, <1>8, <1>11, <1>12

(* The ends of the command's connection after a write. *)
LEMMA EndsWritten ==
    ASSUME TypeInv, EventInv, NEW p \in Ctl, Act(ctl[p]), ctl[p].pc = "write", kind' = kind,
           Target(ctl[p]) # NULL, Written(p), PairBound(ctl[p]),
           TwoPort(ctl[p].fb1), TwoPort(ctl[p].fb2), NEW c \in Cpu,
           NEW A, A <=> port'[ctl[p].fb1][c]["egress"] = ctl[p].fb2,
           NEW B, B <=> port'[ctl[p].fb2][c]["ingress"] = ctl[p].fb1
    PROVE  /\ (ctl[p].stage = "one" /\ c <= ctl[p].i) => /\ A <=> ctl[p].op = "bind"
                                                         /\ B <=> ctl[p].op = "unbind"
           /\ (ctl[p].stage = "one" /\ ctl[p].i < c) => (A <=> B)
           /\ ctl[p].stage = "two" => /\ A <=> ctl[p].op = "bind"
                                      /\ B <=> (ctl[p].op = "bind" <=> c <= ctl[p].i)
           /\ ctl[p].stage = "undo" => ~B /\ (A <=> ctl[p].i < c)
<1> DEFINE s == ctl[p]
           r == Receiver(s)
<1>1. /\ s \in CtlRec /\ s.i \in Cpu /\ s.fb1 \in Fb /\ s.fb2 \in Fb /\ s.op \in {"bind", "unbind"}
      /\ s.stage \in {"one", "two", "undo"} /\ EndsAt(s, c)
    <2>1. s \in CtlRec /\ s.i \in Cpu /\ s.fb1 \in Fb /\ s.fb2 \in Fb
        BY ReceiverType DEF CtlType
    <2>2. s.op \in {"bind", "unbind"}
        BY <2>1 DEF CtlRec, Op
    <2>3. QED
        BY <2>1, <2>2 DEF Act, PairBound
<1>2. /\ (c # s.i) => (A <=> Above(s, c)) /\ (B <=> Below(s, c))
      /\ TwoPort(r) => port[r][s.i][MsgDir(s)] = Old(s) /\ port'[r][s.i][MsgDir(s)] = New(s)
      /\ \A a \in Fb, e \in Cpu, d \in Dir :
             (a # r \/ e # s.i \/ d # MsgDir(s)) /\ TwoPort(a) => port'[a][e][d] = port[a][e][d]
    BY <1>1, WrittenEnds DEF Above, Below
<1>3. /\ c < s.i \/ c = s.i \/ s.i < c
      /\ c < s.i => c # s.i /\ c <= s.i /\ ~(s.i <= c) /\ ~(s.i < c)
      /\ s.i < c => c # s.i /\ ~(c <= s.i) /\ s.i <= c /\ ~(c < s.i)
      /\ c = s.i => c <= s.i /\ s.i <= c /\ ~(c < s.i) /\ ~(s.i < c)
    BY <1>1 DEF Cpu
<1>4. CASE c < s.i
    BY <1>1, <1>2, <1>3, <1>4 DEF EndsAt
<1>5. CASE s.i < c
    BY <1>1, <1>2, <1>3, <1>5 DEF EndsAt
<1>6. CASE c = s.i
    <2>1. NULL # s.fb1 /\ NULL # s.fb2 /\ "egress" \in Dir /\ "ingress" \in Dir
        BY <1>1, NullAssumption DEF Dir
    <2>2. CASE s.stage = "one"
        <3>1. /\ r = s.fb1 /\ MsgDir(s) = "egress"
              /\ Old(s) = (IF s.op = "bind" THEN NULL ELSE s.fb2)
              /\ New(s) = (IF s.op = "bind" THEN s.fb2 ELSE NULL)
            BY <2>2 DEF Receiver, MsgDir, Old, New, Binds, MsgIdp
        <3>2. (A <=> s.op = "bind") /\ (Above(s, c) <=> s.op = "unbind")
            BY <1>1, <1>2, <1>6, <2>1, <3>1 DEF Above
        <3>3. B <=> Below(s, c)
            BY <1>1, <1>2, <1>6, <2>1, <3>1 DEF Below
        <3>4. QED
            BY <1>1, <1>3, <1>6, <2>2, <3>2, <3>3 DEF EndsAt
    <2>3. CASE s.stage = "two"
        <3>1. /\ r = s.fb2 /\ MsgDir(s) = "ingress"
              /\ New(s) = (IF s.op = "bind" THEN s.fb1 ELSE NULL)
            BY <2>3 DEF Receiver, MsgDir, New, Binds, MsgIdp
        <3>2. B <=> s.op = "bind"
            BY <1>1, <1>2, <1>6, <2>1, <3>1
        <3>3. A <=> Above(s, c)
            BY <1>1, <1>2, <1>6, <2>1, <3>1 DEF Above
        <3>4. QED
            BY <1>1, <1>3, <1>6, <2>3, <3>2, <3>3 DEF EndsAt
    <2>4. CASE s.stage = "undo"
        <3>1. r = s.fb1 /\ MsgDir(s) = "egress" /\ New(s) = NULL
            BY <2>4 DEF Receiver, MsgDir, New, Binds, MsgIdp
        <3>2. ~A
            BY <1>1, <1>2, <1>6, <2>1, <3>1
        <3>3. B <=> Below(s, c)
            BY <1>1, <1>2, <1>6, <2>1, <3>1 DEF Below
        <3>4. QED
            BY <1>1, <1>3, <1>6, <2>4, <3>2, <3>3 DEF EndsAt
    <2>5. QED
        BY <1>1, <2>2, <2>3, <2>4
<1>7. QED
    BY <1>3, <1>4, <1>5, <1>6

(* A CPU was visited. *)
LEMMA SymWritten ==
    ASSUME OneWriter, TypeInv, EventInv, SymInv, NEW p \in Ctl, Act(ctl[p]),
           ctl[p].pc = "write", kind' = kind, Target(ctl[p]) # NULL, Written(p)
    PROVE  SymInv'
<1> DEFINE s == ctl[p]
           t == ctl'[p]
           A(c) == port'[s.fb1][c]["egress"] = s.fb2
           B(c) == port'[s.fb2][c]["ingress"] = s.fb1
           two  == TwoPort(s.fb1) /\ TwoPort(s.fb2)
<1>1. /\ s \in CtlRec /\ s.i \in Cpu /\ s.fb1 \in Fb /\ s.fb2 \in Fb /\ PairBound(s)
      /\ s.stage \in {"one", "two", "undo"}
    BY ReceiverType DEF CtlType, SymInv, Act
<1>2. t = NextCpu(s) /\ \A a \in Fb : TwoPort(a)' = TwoPort(a)
    BY DEF Written, TwoPort
<1>3. ASSUME NEW a \in Fb, NEW b \in Fb, NEW c \in Cpu, TwoPort(a), TwoPort(b),
             a # s.fb1 \/ b # s.fb2
      PROVE  Sym(a, b, c)'
    <2>1. Sym(a, b, c)
        BY <1>3, SymOthers
    <2>2. /\ port'[a][c]["egress"] = b <=> port[a][c]["egress"] = b
          /\ port'[b][c]["ingress"] = a <=> port[b][c]["ingress"] = a
        BY <1>3, WrittenEnds
    <2>3. QED
        BY <2>1, <2>2 DEF Sym
<1>4. ASSUME two, NEW c \in Cpu
      PROVE  /\ (s.stage = "one" /\ c <= s.i) => /\ A(c) <=> s.op = "bind"
                                                 /\ B(c) <=> s.op = "unbind"
             /\ (s.stage = "one" /\ s.i < c) => (A(c) <=> B(c))
             /\ s.stage = "two" => /\ A(c) <=> s.op = "bind"
                                   /\ B(c) <=> (s.op = "bind" <=> c <= s.i)
             /\ s.stage = "undo" => ~B(c) /\ (A(c) <=> s.i < c)
    BY <1>1, <1>4, EndsWritten
<1>5. CASE s.i # NCpu /\ Onward(NextCpu(s), s)
    <2>1. /\ t.fb1 = s.fb1 /\ t.fb2 = s.fb2 /\ t.op = s.op /\ t.stage = s.stage
          /\ t.i = s.i + 1 /\ Act(t)
        BY <1>1, <1>2, <1>5 DEF Onward, SameCmd, Act
    <2>2. \A c \in Cpu : (c < t.i <=> c <= s.i) /\ (t.i <= c <=> s.i < c)
        BY <1>1, <2>1 DEF Cpu
    <2>3. ASSUME two, NEW c \in Cpu PROVE EndsAt(ctl[p], c)'
        <3>1. (Above(ctl[p], c)' <=> A(c)) /\ (Below(ctl[p], c)' <=> B(c))
            BY <2>1 DEF Above, Below
        <3> HIDE DEF A, B
        <3>2. QED
            BY <1>4, <2>1, <2>2, <2>3, <3>1 DEF EndsAt
    <2>4. PairBound(ctl[p])'
        BY <1>1, <1>2, <2>1, <2>3 DEF PairBound
    <2>5. QED
        BY <1>2, <1>3, <2>1, <2>4, SymOwn
<1>6. \A c \in Cpu : s.i = NCpu => c <= s.i /\ ~(s.i < c)
    BY CpuAssumption DEF Cpu
<1>7. CASE s.i = NCpu /\ s.stage = "one" /\ Second(NextCpu(s), s)
    <2>1. /\ t.fb1 = s.fb1 /\ t.fb2 = s.fb2 /\ t.op = s.op /\ t.stage = "two"
          /\ t.i = 1 /\ Act(t)
        BY <1>2, <1>7 DEF Second, SameCmd, Act
    <2>2. \A c \in Cpu : ~(c < t.i)
        BY <2>1 DEF Cpu
    <2>3. s.op \in {"bind", "unbind"}
        BY <1>1 DEF CtlRec, Op
    <2>4. ASSUME two, NEW c \in Cpu PROVE EndsAt(ctl[p], c)'
        <3>1. (Above(ctl[p], c)' <=> A(c)) /\ (Below(ctl[p], c)' <=> B(c))
            BY <2>1 DEF Above, Below
        <3> HIDE DEF A, B
        <3>2. (A(c) <=> s.op = "bind") /\ (B(c) <=> s.op = "unbind")
            BY <1>4, <1>6, <1>7, <2>4
        <3>3. QED
            BY <2>1, <2>2, <2>3, <3>1, <3>2 DEF EndsAt
    <2>5. PairBound(ctl[p])'
        BY <1>1, <1>2, <2>1, <2>4 DEF PairBound
    <2>6. QED
        BY <1>2, <1>3, <2>1, <2>5, SymOwn
<1>8. CASE s.i = NCpu /\ s.stage # "one" /\ NextCpu(s) = IdleCtl
    <2>1. ~Act(t)
        BY <1>2, <1>8, IdleCtlType
    <2>2. ASSUME two, NEW c \in Cpu, NEW a \in Fb, NEW b \in Fb, a = s.fb1, b = s.fb2
          PROVE  Sym(a, b, c)'
        <3>1. A(c) <=> B(c)
            <4> HIDE DEF A, B
            <4>1. QED
                BY <1>1, <1>4, <1>6, <1>8, <2>2
        <3>2. QED
            BY <2>2, <3>1 DEF Sym
    <2>3. \A a, b \in Fb, c \in Cpu : TwoPort(a) /\ TwoPort(b) => Sym(a, b, c)'
        BY <1>3, <2>2
    <2>4. QED
        BY <1>2, <2>1, <2>3, SymOwn
<1>9. QED
    BY <1>1, <1>5, <1>7, <1>8, NextCpuFields

(* A refusal: nothing has been written by the event, and the events that   *)
(* must not be refused are not.                                            *)
LEMMA SymRefused ==
    ASSUME OneWriter, TypeInv, EventInv, SymInv, NEW p \in Ctl, Act(ctl[p]), kind' = kind,
           Refused(p), Chosen(ctl[p], ctl[p].i) = NULL
    PROVE  SymInv'
<1> DEFINE s == ctl[p]
           t == ctl'[p]
           two == TwoPort(s.fb1) /\ TwoPort(s.fb2)
<1>1. /\ s \in CtlRec /\ s.i \in Cpu /\ s.fb1 \in Fb /\ s.fb2 \in Fb /\ PairBound(s)
      /\ s.stage \in {"one", "two", "undo"} /\ s.i = 1
    BY ReceiverType, RefusedFirst DEF CtlType, SymInv, Act
<1>2. t = EventBad(s) /\ port' = port /\ \A a \in Fb : TwoPort(a)' = TwoPort(a)
    BY DEF Refused, TwoPort
<1>3. \A c \in Cpu : s.i <= c /\ ~(c < s.i)
    BY <1>1 DEF Cpu
<1>4. ASSUME NEW a \in Fb, NEW b \in Fb, NEW c \in Cpu, TwoPort(a), TwoPort(b),
             a # s.fb1 \/ b # s.fb2
      PROVE  Sym(a, b, c)'
    <2>1. Sym(a, b, c)
        BY <1>4, SymOthers
    <2>2. QED
        BY <1>2, <2>1 DEF Sym
<1>5. NULL \notin Dir
    BY NullAssumption DEF Port
<1>6. CASE s.stage = "two" /\ s.op = "bind" /\ Release(EventBad(s), s)
    <2>1. /\ t.fb1 = s.fb1 /\ t.fb2 = s.fb2 /\ t.stage = "undo" /\ t.i = 1 /\ Act(t)
        BY <1>2, <1>6 DEF Release, SameCmd, Act
    <2>2. ASSUME two, NEW c \in Cpu PROVE EndsAt(ctl[p], c)'
        <3>1. (Above(ctl[p], c)' <=> Above(s, c)) /\ (Below(ctl[p], c)' <=> Below(s, c))
            BY <1>2, <2>1 DEF Above, Below
        <3>2. Above(s, c) /\ ~Below(s, c)
            BY <1>1, <1>3, <1>6, <2>2 DEF PairBound, EndsAt
        <3>3. QED
            BY <1>1, <1>3, <2>1, <3>1, <3>2 DEF EndsAt
    <2>3. PairBound(ctl[p])'
        BY <1>1, <1>2, <2>1, <2>2 DEF PairBound
    <2>4. QED
        BY <1>2, <1>4, <2>1, <2>3, SymOwn
<1>7. CASE ~Act(t) /\ ~(s.stage = "two" /\ s.op = "bind")
    <2>1. ASSUME two PROVE s.stage = "one"
        <3>1. s.op \in {"bind", "unbind"} /\ EndsAt(s, s.i) /\ s.i <= s.i /\ ~(s.i < s.i)
            BY <1>1, <1>3, <2>1 DEF CtlRec, Op, PairBound
        <3>2. TwoPort(Receiver(s))
            BY <2>1 DEF Receiver
        <3>3. port[Receiver(s)][s.i][MsgDir(s)] # Old(s)
            BY <1>5, <3>2, TwoPortChoice
        <3>4. CASE s.stage = "two"
            <4>1. Below(s, s.i)
                BY <1>7, <3>1, <3>4 DEF EndsAt
            <4>2. port[Receiver(s)][s.i][MsgDir(s)] = Old(s)
                BY <1>7, <3>4, <4>1 DEF Below, Receiver, MsgDir, Old, Binds, MsgIdp
            <4>3. QED
                BY <3>3, <4>2
        <3>5. CASE s.stage = "undo"
            <4>1. Above(s, s.i)
                BY <3>1, <3>5 DEF EndsAt
            <4>2. port[Receiver(s)][s.i][MsgDir(s)] = Old(s)
                BY <3>5, <4>1 DEF Above, Receiver, MsgDir, Old, Binds, MsgIdp
            <4>3. QED
                BY <3>3, <4>2
        <3>6. QED
            BY <1>1, <3>4, <3>5
    <2>2. ASSUME two, NEW c \in Cpu, NEW a \in Fb, NEW b \in Fb, a = s.fb1, b = s.fb2
          PROVE  Sym(a, b, c)'
        <3>1. Above(s, c) <=> Below(s, c)
            BY <1>1, <1>3, <2>1, <2>2 DEF PairBound, EndsAt
        <3>2. QED
            BY <1>2, <2>2, <3>1 DEF Sym, Above, Below
    <2>3. \A a, b \in Fb, c \in Cpu : TwoPort(a) /\ TwoPort(b) => Sym(a, b, c)'
        BY <1>4, <2>2
    <2>4. QED
        BY <1>2, <1>7, <2>3, SymOwn
<1>8. QED
    <2>1. CASE s.stage = "undo" /\ EventBad(s) \in CtlRec /\ EventBad(s).stage = "panic"
        BY <1>2, <1>7, <2>1 DEF Act
    <2>2. CASE (s.stage = "one" \/ (s.stage = "two" /\ s.op = "unbind")) /\ EventBad(s) = IdleCtl
        BY <1>2, <1>7, <2>2, IdleCtlType
    <2>3. QED
        BY <1>1, <1>6, <2>1, <2>2, EventBadFields

(* A step that keeps the ports and the stage of the event. *)
LEMMA SymGoesOn ==
    ASSUME OneWriter, SymInv, NEW p \in Ctl, Act(ctl[p]), kind' = kind, port' = port,
           SameCmd(ctl'[p], ctl[p]), ctl'[p].stage = ctl[p].stage, ctl'[p].i = ctl[p].i
    PROVE  SymInv'
<1> DEFINE s == ctl[p]
           t == ctl'[p]
<1>1. /\ t.fb1 = s.fb1 /\ t.fb2 = s.fb2 /\ t.op = s.op /\ t.stage = s.stage /\ t.i = s.i /\ Act(t)
    BY DEF SameCmd, Act
<1>2. PairBound(s)
    BY DEF SymInv
<1>3. PairBound(ctl[p])'
    <2>1. \A c \in Cpu : (Above(ctl[p], c)' <=> Above(s, c)) /\ (Below(ctl[p], c)' <=> Below(s, c))
        BY <1>1 DEF Above, Below
    <2>2. \A c \in Cpu : EndsAt(s, c) => EndsAt(ctl[p], c)'
        BY <1>1, <2>1 DEF EndsAt
    <2>3. QED
        BY <1>1, <1>2, <2>2 DEF PairBound, TwoPort
<1>4. ASSUME NEW a \in Fb, NEW b \in Fb, NEW c \in Cpu, TwoPort(a), TwoPort(b),
             a # s.fb1 \/ b # s.fb2
      PROVE  Sym(a, b, c)'
    <2>1. Sym(a, b, c)
        BY <1>4, SymOthers
    <2>2. QED
        BY <2>1 DEF Sym
<1>5. \A a \in Fb : TwoPort(a)' = TwoPort(a)
    BY DEF TwoPort
<1>6. QED
    BY <1>1, <1>3, <1>4, <1>5, SymOwn

(* No block is bound at first. *)
LEMMA SymInit == Init => SymInv
<1> SUFFICES ASSUME Init PROVE SymInv
    OBVIOUS
<1>1. \A p \in Ctl : ~Act(ctl[p])
    BY IdleCtlType DEF Init
<1>2. \A a, b \in Fb, c \in Cpu : Sym(a, b, c)
    BY NullAssumption DEF Init, Sym, Port, Dir
<1>3. QED
    BY <1>1, <1>2 DEF SymInv

(* Every step keeps both ends of a connection in accord, with one control  *)
(* process.                                                                *)
LEMMA SymStep ==
    ASSUME OneWriter, TypeInv, EventInv, SymInv, [Next]_vars
    PROVE  SymInv'
<1>1. ASSUME NEW p \in Ctl, NEW op \in Op, NEW fb1 \in Fb, NEW fb2 \in Fb,
             Start(p, op, fb1, fb2)
      PROVE  SymInv'
    <2>1. /\ ctl[p].stage = "idle" /\ ctl'[p].stage = "one"
          /\ ctl'[p].fb1 = fb1 /\ ctl'[p].fb2 = fb2 /\ ctl'[p].i = 1
          /\ UNCHANGED <<kind, port>>
        BY <1>1, StartEffect
    <2>2. ASSUME NEW a \in Fb, NEW b \in Fb, NEW c \in Cpu, TwoPort(a), TwoPort(b)
          PROVE  Sym(a, b, c)
        BY <2>1, <2>2, SymOthers DEF Act
    <2>3. ASSUME NEW c \in Cpu, TwoPort(fb1), TwoPort(fb2) PROVE EndsAt(ctl[p], c)'
        <3>1. (Above(ctl[p], c) <=> Below(ctl[p], c))'
            BY <2>1, <2>2, <2>3 DEF Sym, Above, Below
        <3>2. ~(c < ctl'[p].i)
            BY <2>1 DEF Cpu
        <3>3. QED
            BY <2>1, <3>1, <3>2 DEF EndsAt
    <2>4. PairBound(ctl[p])'
        BY <2>1, <2>3 DEF PairBound, TwoPort
    <2>5. \A a, b \in Fb, c \in Cpu : (TwoPort(a) /\ TwoPort(b))' => Sym(a, b, c)'
        BY <2>1, <2>2 DEF Sym, TwoPort
    <2>6. QED
        BY <2>4, <2>5, SymOwn
<1>2. ASSUME NEW p \in Ctl, Check(p) PROVE SymInv'
    <2>1. Act(ctl[p]) /\ UNCHANGED <<kind, port>>
        BY <1>2, CheckEffect
    <2>2. CASE Chosen(ctl[p], ctl[p].i) = NULL /\ Refused(p)
        BY <2>1, <2>2, SymRefused
    <2>3. CASE /\ SameCmd(ctl'[p], ctl[p])
               /\ ctl'[p].stage = ctl[p].stage /\ ctl'[p].i = ctl[p].i
        BY <2>1, <2>3, SymGoesOn
    <2>4. QED
        BY <1>2, <2>2, <2>3, CheckEffect
<1>3. ASSUME NEW p \in Ctl, Lock(p) PROVE SymInv'
    <2>1. /\ Act(ctl[p])
          /\ SameCmd(ctl'[p], ctl[p]) /\ ctl'[p].stage = ctl[p].stage /\ ctl'[p].i = ctl[p].i
          /\ UNCHANGED <<kind, port>>
        BY <1>3, LockEffect
    <2>2. QED
        BY <2>1, SymGoesOn
<1>4. ASSUME NEW p \in Ctl, Write(p) PROVE SymInv'
    <2>1. Act(ctl[p]) /\ ctl[p].pc = "write" /\ kind' = kind
        BY <1>4, WriteEffect
    <2>2. CASE Target(ctl[p]) = NULL /\ Refused(p)
        <3>1. Chosen(ctl[p], ctl[p].i) = NULL
            BY <2>1, <2>2 DEF EventInv, ChoiceHolds, Target
        <3>2. QED
            BY <2>1, <2>2, <3>1, SymRefused
    <2>3. CASE Target(ctl[p]) # NULL /\ Written(p)
        BY <2>1, <2>3, SymWritten
    <2>4. QED
        BY <1>4, <2>2, <2>3, WriteEffect
<1>5. ASSUME UNCHANGED <<kind, port, ctl>> PROVE SymInv'
    BY <1>5 DEF SymInv, PairBound, EndsAt, Above, Below, Sym, TwoPort
<1>6. ASSUME NEW c \in RxCpu, NEW b \in Fb, NEW dir \in Dir, Receive(c, b, dir) PROVE SymInv'
    BY <1>5, <1>6 DEF Receive
<1>7. ASSUME NEW c \in RxCpu, RxStep(c) PROVE SymInv'
    BY <1>5, <1>7 DEF RxStep, Peek, ReadSeqbegin, ReadNext, ReadDrop, ReadSeqretry, Filter, Return
<1>8. CASE UNCHANGED vars
    BY <1>5, <1>8 DEF vars
<1>9. QED
    BY <1>1, <1>2, <1>3, <1>4, <1>6, <1>7, <1>8 DEF Next, CtlStep

(* Between two commands a connection of two-port blocks is known at both   *)
(* of its ends on every CPU, whatever was refused: __fblock_bind releases  *)
(* above what was refused below, and an unbinding that was accepted above  *)
(* is accepted below.                                                      *)
THEOREM BothEndsKnow ==
    ASSUME OneWriter
    PROVE  Spec => []ConnectionsSymmetric
<1>1. TypeInv /\ EventInv /\ [Next]_vars => EventInv'
    BY EventStep
<1>2. TypeInv /\ EventInv /\ SymInv /\ [Next]_vars => SymInv'
    BY SymStep
<1>3. SymInv => ConnectionsSymmetric
    <2> SUFFICES ASSUME SymInv, Quiet PROVE ConnectionsSymmetric
        BY DEF ConnectionsSymmetric
    <2>1. \A p \in Ctl : ~Act(ctl[p])
        BY DEF Quiet, Act
    <2>2. QED
        BY <2>1 DEF SymInv, Sym, ConnectionsSymmetric
<1>4. QED
    BY TypeInvInit, TypeInvStep, EventInit, SymInit, <1>1, <1>2, <1>3, PTL DEF Spec
=============================================================================
