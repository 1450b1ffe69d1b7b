---------------------------- MODULE EngineProofs ----------------------------
(***************************************************************************)
(* Proofs about Engine for any number of CPUs and packets, any hop bound,  *)
(* any threshold and any placement of the timers.                          *)
(***************************************************************************)
EXTENDS Engine, TLAPS

(* A context that is about to process a packet has one in its hands. *)
HasPacket ==
    \A c \in Cpu, l \in Level :
        pc[c][l] \in {"check", "start", "loop"} => skb[c][l] \in Skb

(* A timer handler knows the CPU it works for. *)
HasDisc ==
    \A c \in Cpu :
        pc[c]["soft"] \in {"t_active", "t_empty", "t_cpu", "t_reduce"}
            => disc[c] \in Cpu

TypeInv == TypeOK /\ HasPacket /\ HasDisc

(* The engine starts with TypeInv: init_engine leaves every CPU idle. *)
LEMMA TypeInvInit == Init => TypeInv
BY HopsAssumption
   DEF Init, TypeInv, TypeOK, HasPacket, HasDisc, PC, Level, IDP_UNKNOWN

(* Moving one context to another step. *)
LEMMA GotoType ==
    ASSUME pc \in [Cpu -> [Level -> PC]], NEW c \in Cpu, NEW l \in Level,
           NEW step \in PC, Goto(c, l, step)
    PROVE  pc' \in [Cpu -> [Level -> PC]]
BY DEF Goto

(* The first packet and the rest of a backlog that is not empty. *)
LEMMA HeadTail ==
    ASSUME NEW q \in Seq(Skb), q # <<>>
    PROVE  Head(q) \in Skb /\ Tail(q) \in Seq(Skb)
OBVIOUS

(* A backlog with a packet added at its tail. *)
LEMMA AppendPacket ==
    ASSUME NEW q \in Seq(Skb), NEW s \in Skb
    PROVE  Append(q, s) \in Seq(Skb) /\ Append(q, s) # <<>>
<1>1. Append(q, s) \in Seq(Skb) /\ Len(Append(q, s)) = Len(q) + 1 /\ Len(q) \in Nat
    OBVIOUS
<1>2. QED
    BY <1>1

(* Every step of process_packet and of the timer handler keeps TypeInv. *)
LEMMA TypeInvStep == TypeInv /\ [Next]_vars => TypeInv'
<1> SUFFICES ASSUME TypeInv, [Next]_vars PROVE TypeInv'
    OBVIOUS
<1>a. active \in [Cpu -> BOOLEAN]
    BY DEF TypeInv, TypeOK
<1>b. backlog \in [Cpu -> Seq(Skb)]
    BY DEF TypeInv, TypeOK
<1>c. pc \in [Cpu -> [Level -> PC]]
    BY DEF TypeInv, TypeOK
<1>s. skb \in [Cpu -> [Level -> Skb \cup {NULL}]]
    BY DEF TypeInv, TypeOK
<1>d. disc \in [Cpu -> Cpu \cup {NULL}]
    BY DEF TypeInv, TypeOK
<1>n. next \in [Skb -> 0 .. MaxHops]
    BY DEF TypeInv, TypeOK
<1>v. live \subseteq Skb
    BY DEF TypeInv, TypeOK
<1>h. HasPacket /\ HasDisc
    BY DEF TypeInv
<1>l. "proc" \in Level /\ "soft" \in Level
    BY DEF Level
<1>p. {"idle", "check", "start", "loop", "reduce", "inactive", "t_active",
       "t_empty", "t_cpu", "t_reduce", "t_bug"} \subseteq PC
    BY DEF PC
<1>1. ASSUME NEW c \in Cpu, NEW l \in Level, Enter(c, l) PROVE TypeInv'
    <2>1. pc' \in [Cpu -> [Level -> PC]]
        BY <1>1, <1>c, <1>p, <1>l, GotoType DEF Enter
    <2>2. skb' \in [Cpu -> [Level -> Skb \cup {NULL}]]
        BY <1>1, <1>s DEF Enter
    <2>3. next' \in [Skb -> 0 .. MaxHops]
        BY <1>1, <1>n, <1>s, HopsAssumption, EntryAssumption DEF Enter, IDP_UNKNOWN
    <2>4. live' \subseteq Skb
        BY <1>1, <1>v DEF Enter
    <2>5. TypeOK'
        BY <1>1, <1>a, <1>b, <1>c, <1>s, <1>d, <1>n, <1>v, <2>1, <2>2, <2>3, <2>4
           DEF TypeOK, Enter
    <2>6. HasPacket'
        BY <1>1, <1>c, <1>s, <1>h DEF HasPacket, Enter, Goto, Level
    <2>7. HasDisc'
        BY <1>1, <1>c, <1>d, <1>h DEF HasDisc, Enter, Goto, Level
    <2>8. QED
        BY <2>5, <2>6, <2>7 DEF TypeInv
<1>2. ASSUME NEW c \in Cpu, NEW l \in Level, CheckActive(c, l) PROVE TypeInv'
    <2>1. skb[c][l] \in Skb
        BY <1>2, <1>h DEF CheckActive, HasPacket
    <2>2. backlog' = [backlog EXCEPT ![c] = Append(@, skb[c][l])] \/ backlog' = backlog
        BY <1>2, <1>b DEF CheckActive
    <2>3. pc' \in [Cpu -> [Level -> PC]]
        BY <1>2, <1>c, <1>p, <1>l, GotoType DEF CheckActive, Return
    <2>4. skb' \in [Cpu -> [Level -> Skb \cup {NULL}]]
        BY <1>2, <1>s, <2>1, <2>2 DEF CheckActive
    <2>5. backlog' \in [Cpu -> Seq(Skb)]
        BY <1>b, AppendPacket, <2>1, <2>2
    <2>6. disc' \in [Cpu -> Cpu \cup {NULL}]
        BY <1>2, <1>d DEF CheckActive, Return
    <2>7. TypeOK'
        BY <1>2, <1>a, <1>b, <1>c, <1>s, <1>d, <1>n, <1>v, <2>3, <2>4, <2>5, <2>6
           DEF TypeOK, CheckActive
    <2>8. HasPacket'
        BY <1>2, <1>c, <1>s, <1>h, <2>1, <2>2 DEF HasPacket, CheckActive, Goto, Return, Level
    <2>9. HasDisc'
        BY <1>2, <1>c, <1>d, <1>h DEF HasDisc, CheckActive, Goto, Return, Level
    <2>10. QED
        BY <2>7, <2>8, <2>9 DEF TypeInv
<1>3. ASSUME NEW c \in Cpu, NEW l \in Level, SetActive(c, l) PROVE TypeInv'
    <2>1. pc' \in [Cpu -> [Level -> PC]]
        BY <1>3, <1>c, <1>p, <1>l, GotoType DEF SetActive
    <2>2. active' \in [Cpu -> BOOLEAN]
        BY <1>3, <1>a DEF SetActive
    <2>3. TypeOK'
        BY <1>3, <1>a, <1>b, <1>c, <1>s, <1>d, <1>n, <1>v, <2>1, <2>2
           DEF TypeOK, SetActive
    <2>4. HasPacket'
        BY <1>3, <1>c, <1>s, <1>h DEF HasPacket, SetActive, Goto, Level
    <2>5. HasDisc'
        BY <1>3, <1>c, <1>d, <1>h DEF HasDisc, SetActive, Goto, Level
    <2>6. QED
        BY <2>3, <2>4, <2>5 DEF TypeInv
<1>4. ASSUME NEW c \in Cpu, NEW l \in Level, NoNext(c, l) PROVE TypeInv'
    <2>1. pc' \in [Cpu -> [Level -> PC]]
        BY <1>4, <1>c, <1>p, <1>l, GotoType DEF NoNext
    <2>2. skb' \in [Cpu -> [Level -> Skb \cup {NULL}]]
        BY <1>4, <1>s DEF NoNext
    <2>3. TypeOK'
        BY <1>4, <1>a, <1>b, <1>c, <1>s, <1>d, <1>n, <1>v, <2>1, <2>2
           DEF TypeOK, NoNext
    <2>4. HasPacket'
        BY <1>4, <1>c, <1>s, <1>h DEF HasPacket, NoNext, Goto, Level
    <2>5. HasDisc'
        BY <1>4, <1>c, <1>d, <1>h DEF HasDisc, NoNext, Goto, Level
    <2>6. QED
        BY <2>3, <2>4, <2>5 DEF TypeInv
<1>5. ASSUME NEW c \in Cpu, NEW l \in Level, Drop(c, l) PROVE TypeInv'
    <2>1. skb[c][l] \in Skb
        BY <1>5, <1>h DEF Drop, HasPacket
    <2>2. pc' \in [Cpu -> [Level -> PC]]
        BY <1>5, <1>c, <1>p, <1>l, GotoType DEF Drop
    <2>3. skb' \in [Cpu -> [Level -> Skb \cup {NULL}]]
        BY <1>5, <1>s, <2>1 DEF Drop
    <2>4. next' \in [Skb -> 0 .. MaxHops]
        BY <1>5, <1>n, <1>s, <2>1, HopsAssumption, EntryAssumption DEF Drop, IDP_UNKNOWN
    <2>5. live' \subseteq Skb
        BY <1>5, <1>v, <2>1 DEF Drop
    <2>6. TypeOK'
        BY <1>5, <1>a, <1>b, <1>c, <1>s, <1>d, <1>n, <1>v, <2>2, <2>3, <2>4, <2>5
           DEF TypeOK, Drop
    <2>7. HasPacket'
        BY <1>5, <1>c, <1>s, <1>h, <2>1 DEF HasPacket, Drop, Goto, Level
    <2>8. HasDisc'
        BY <1>5, <1>c, <1>d, <1>h DEF HasDisc, Drop, Goto, Level
    <2>9. QED
        BY <2>6, <2>7, <2>8 DEF TypeInv
<1>6. ASSUME NEW c \in Cpu, NEW l \in Level, Forward(c, l) PROVE TypeInv'
    <2>1. skb[c][l] \in Skb
        BY <1>6, <1>h DEF Forward, HasPacket
    <2>2. next' \in [Skb -> 0 .. MaxHops]
        BY <1>6, <1>n, <1>s, <2>1, HopsAssumption, EntryAssumption DEF Forward, IDP_UNKNOWN
    <2>3. TypeOK'
        BY <1>6, <1>a, <1>b, <1>c, <1>s, <1>d, <1>n, <1>v, <2>2
           DEF TypeOK, Forward
    <2>4. HasPacket'
        BY <1>6, <1>c, <1>s, <1>h, <2>1 DEF HasPacket, Forward, Level
    <2>5. HasDisc'
        BY <1>6, <1>c, <1>d, <1>h DEF HasDisc, Forward, Level
    <2>6. QED
        BY <2>3, <2>4, <2>5 DEF TypeInv
<1>7. ASSUME NEW c \in Cpu, NEW l \in Level, Tee(c, l) PROVE TypeInv'
    <2>1. skb[c][l] \in Skb
        BY <1>7, <1>h DEF Tee, HasPacket
    <2>2. \E s \in Skb : backlog' = [backlog EXCEPT ![c] = Append(@, s)]
        BY <1>7, <1>b DEF Tee
    <2>3. pc' \in [Cpu -> [Level -> PC]]
        BY <1>7, <1>c, <1>p, <1>l, GotoType DEF Tee
    <2>4. skb' \in [Cpu -> [Level -> Skb \cup {NULL}]]
        BY <1>7, <1>s, <2>1 DEF Tee
    <2>5. backlog' \in [Cpu -> Seq(Skb)]
        <3>1. PICK s \in Skb : backlog' = [backlog EXCEPT ![c] = Append(@, s)]
            BY <2>2
        <3>2. Append(backlog[c], s) \in Seq(Skb)
            BY <1>b, AppendPacket
        <3>3. QED
            BY <1>b, <3>1, <3>2
    <2>6. next' \in [Skb -> 0 .. MaxHops]
        <3>1. next[skb[c][l]] \in 0 .. MaxHops /\ next[skb[c][l]] > 1
            BY <1>7, <1>n, <2>1 DEF Tee
        <3>2. next[skb[c][l]] - 1 \in 0 .. MaxHops /\ IDP_UNKNOWN \in 0 .. MaxHops
            BY <3>1, HopsAssumption DEF IDP_UNKNOWN
        <3>3. \E s \in Skb, k \in {IDP_UNKNOWN, next[skb[c][l]] - 1} :
                  next' = [next EXCEPT ![skb[c][l]] = k, ![s] = next[skb[c][l]] - 1]
            BY <1>7 DEF Tee
        <3>4. QED
            BY <1>n, <2>1, <3>2, <3>3
    <2>7. live' \subseteq Skb
        BY <1>7, <1>v, <2>1 DEF Tee
    <2>8. TypeOK'
        BY <1>7, <1>a, <1>b, <1>c, <1>s, <1>d, <1>n, <1>v, <2>3, <2>4, <2>5, <2>6, <2>7
           DEF TypeOK, Tee
    <2>9. HasPacket'
        BY <1>7, <1>c, <1>s, <1>h, <2>1, <2>2 DEF HasPacket, Tee, Goto, Level
    <2>10. HasDisc'
        BY <1>7, <1>c, <1>d, <1>h DEF HasDisc, Tee, Goto, Level
    <2>11. QED
        BY <2>8, <2>9, <2>10 DEF TypeInv
<1>8. ASSUME NEW c \in Cpu, NEW l \in Level, Reduce(c, l) PROVE TypeInv'
    <2>1. backlog[c] # <<>> => Head(backlog[c]) \in Skb /\ Tail(backlog[c]) \in Seq(Skb)
        BY <1>8, <1>b, HeadTail DEF Reduce
    <2>2. pc' \in [Cpu -> [Level -> PC]]
        BY <1>8, <1>c, <1>p, <1>l, GotoType DEF Reduce
    <2>3. skb' \in [Cpu -> [Level -> Skb \cup {NULL}]]
        BY <1>8, <1>s, <2>1 DEF Reduce
    <2>4. backlog' \in [Cpu -> Seq(Skb)]
        BY <1>8, <1>b, <2>1 DEF Reduce
    <2>5. active' \in [Cpu -> BOOLEAN]
        BY <1>8, <1>a DEF Reduce
    <2>6. TypeOK'
        BY <1>8, <1>a, <1>b, <1>c, <1>s, <1>d, <1>n, <1>v, <2>2, <2>3, <2>4, <2>5
           DEF TypeOK, Reduce
    <2>7. HasPacket'
        <3>1. CASE backlog[c] # <<>>
            <4>1. \A d \in Cpu, m \in Level :
                      (d # c \/ m # l) => pc'[d][m] = pc[d][m] /\ skb'[d][m] = skb[d][m]
                BY <3>1, <1>8, <1>c, <1>s DEF Reduce, Goto
            <4>2. skb'[c][l] = Head(backlog[c])
                BY <3>1, <1>8, <1>s DEF Reduce
            <4>3. QED
                BY <1>h, <2>1, <3>1, <4>1, <4>2 DEF HasPacket
        <3>2. CASE backlog[c] = <<>>
            BY <3>2, <1>8, <1>c, <1>h DEF HasPacket, Reduce, Goto
        <3>3. QED
            BY <3>1, <3>2
    <2>8. HasDisc'
        BY <1>8, <1>c, <1>d, <1>h DEF HasDisc, Reduce, Goto, Level
    <2>9. QED
        BY <2>6, <2>7, <2>8 DEF TypeInv
<1>9. ASSUME NEW c \in Cpu, NEW l \in Level, SetInactive(c, l) PROVE TypeInv'
    <2>1. pc' \in [Cpu -> [Level -> PC]]
        BY <1>9, <1>c, <1>p, <1>l, GotoType DEF SetInactive, Return
    <2>2. active' \in [Cpu -> BOOLEAN]
        BY <1>9, <1>a DEF SetInactive
    <2>3. disc' \in [Cpu -> Cpu \cup {NULL}]
        BY <1>9, <1>d DEF SetInactive, Return
    <2>4. TypeOK'
        BY <1>9, <1>a, <1>b, <1>c, <1>s, <1>d, <1>n, <1>v, <2>1, <2>2, <2>3
           DEF TypeOK, SetInactive
    <2>5. HasPacket'
        BY <1>9, <1>c, <1>s, <1>h DEF HasPacket, SetInactive, Goto, Return, Level
    <2>6. HasDisc'
        BY <1>9, <1>c, <1>d, <1>h DEF HasDisc, SetInactive, Goto, Return, Level
    <2>7. QED
        BY <2>4, <2>5, <2>6 DEF TypeInv
<1>10. ASSUME NEW c \in Cpu, NEW d \in Cpu, TimerExpires(c, d) PROVE TypeInv'
    <2>1. pc' \in [Cpu -> [Level -> PC]]
        BY <1>10, <1>c, <1>p, <1>l, GotoType DEF TimerExpires
    <2>2. disc' \in [Cpu -> Cpu \cup {NULL}]
        BY <1>10, <1>d DEF TimerExpires
    <2>3. TypeOK'
        BY <1>10, <1>a, <1>b, <1>c, <1>s, <1>d, <1>n, <1>v, <2>1, <2>2
           DEF TypeOK, TimerExpires
    <2>4. HasPacket'
        BY <1>10, <1>c, <1>s, <1>h DEF HasPacket, TimerExpires, Goto, Level
    <2>5. HasDisc'
        BY <1>10, <1>c, <1>d, <1>h DEF HasDisc, TimerExpires, Goto, Level
    <2>6. QED
        BY <2>3, <2>4, <2>5 DEF TypeInv
<1>11. ASSUME NEW c \in Cpu, TimerActive(c) PROVE TypeInv'
    <2>1. pc' \in [Cpu -> [Level -> PC]]
        BY <1>11, <1>c, <1>p, <1>l, GotoType DEF TimerActive, Return
    <2>2. disc' \in [Cpu -> Cpu \cup {NULL}]
        BY <1>11, <1>d DEF TimerActive, Return
    <2>3. TypeOK'
        BY <1>11, <1>a, <1>b, <1>c, <1>s, <1>d, <1>n, <1>v, <2>1, <2>2
           DEF TypeOK, TimerActive
    <2>4. HasPacket'
        BY <1>11, <1>c, <1>s, <1>h DEF HasPacket, TimerActive, Goto, Return, Level
    <2>5. HasDisc'
        BY <1>11, <1>c, <1>d, <1>h DEF HasDisc, TimerActive, Goto, Return, Level
    <2>6. QED
        BY <2>3, <2>4, <2>5 DEF TypeInv
<1>12. ASSUME NEW c \in Cpu, TimerEmpty(c) PROVE TypeInv'
    <2>1. pc' \in [Cpu -> [Level -> PC]]
        BY <1>12, <1>c, <1>p, <1>l, GotoType DEF TimerEmpty, Return
    <2>2. disc' \in [Cpu -> Cpu \cup {NULL}]
        BY <1>12, <1>d DEF TimerEmpty, Return
    <2>3. TypeOK'
        BY <1>12, <1>a, <1>b, <1>c, <1>s, <1>d, <1>n, <1>v, <2>1, <2>2
           DEF TypeOK, TimerEmpty
    <2>4. HasPacket'
        BY <1>12, <1>c, <1>s, <1>h DEF HasPacket, TimerEmpty, Goto, Return, Level
    <2>5. HasDisc'
        BY <1>12, <1>c, <1>d, <1>h DEF HasDisc, TimerEmpty, Goto, Return, Level
    <2>6. QED
        BY <2>3, <2>4, <2>5 DEF TypeInv
<1>13. ASSUME NEW c \in Cpu, TimerCpu(c) PROVE TypeInv'
    <2>1. pc' \in [Cpu -> [Level -> PC]]
        BY <1>13, <1>c, <1>p, <1>l, GotoType DEF TimerCpu, Return
    <2>2. disc' \in [Cpu -> Cpu \cup {NULL}]
        BY <1>13, <1>d DEF TimerCpu, Return
    <2>3. TypeOK'
        BY <1>13, <1>a, <1>b, <1>c, <1>s, <1>d, <1>n, <1>v, <2>1, <2>2
           DEF TypeOK, TimerCpu
    <2>4. HasPacket'
        BY <1>13, <1>c, <1>s, <1>h DEF HasPacket, TimerCpu, Goto, Return, Level
    <2>5. HasDisc'
        BY <1>13, <1>c, <1>d, <1>h DEF HasDisc, TimerCpu, Goto, Return, Level
    <2>6. QED
        BY <2>3, <2>4, <2>5 DEF TypeInv
<1>14. ASSUME NEW c \in Cpu, TimerReduce(c) PROVE TypeInv'
    <2>1. disc[c] \in Cpu
        BY <1>14, <1>h DEF TimerReduce, HasDisc
    <2>2. backlog[disc[c]] # <<>> =>
              Head(backlog[disc[c]]) \in Skb /\ Tail(backlog[disc[c]]) \in Seq(Skb)
        BY <1>14, <1>b, <2>1, HeadTail DEF TimerReduce
    <2>3. pc' \in [Cpu -> [Level -> PC]]
        BY <1>14, <1>c, <1>p, <1>l, GotoType DEF TimerReduce
    <2>4. skb' \in [Cpu -> [Level -> Skb \cup {NULL}]]
        BY <1>14, <1>s, <2>1, <2>2 DEF TimerReduce
    <2>5. backlog' \in [Cpu -> Seq(Skb)]
        BY <1>14, <1>b, <2>1, <2>2 DEF TimerReduce
    <2>6. TypeOK'
        BY <1>14, <1>a, <1>b, <1>c, <1>s, <1>d, <1>n, <1>v, <2>3, <2>4, <2>5
           DEF TypeOK, TimerReduce
    <2>7. HasPacket'
        BY <1>14, <1>c, <1>s, <1>h, <2>1, <2>2 DEF HasPacket, TimerReduce, Goto, Level
    <2>8. HasDisc'
        BY <1>14, <1>c, <1>d, <1>h DEF HasDisc, TimerReduce, Goto, Level
    <2>9. QED
        BY <2>6, <2>7, <2>8 DEF TypeInv
<1>15. CASE UNCHANGED vars
    BY <1>15 DEF vars, TypeInv, TypeOK, HasPacket, HasDisc
<1>16. QED
    BY <1>1, <1>2, <1>3, <1>4, <1>5, <1>6, <1>7, <1>8, <1>9, <1>10, <1>11,
       <1>12, <1>13, <1>14, <1>15
       DEF Next, ProcessPacket, TimerHandler

(* Type correctness of the engine's state in every behaviour. *)
THEOREM TypeCorrect == Spec => []TypeOK
<1>1. TypeInv => TypeOK
    BY DEF TypeInv
<1>2. QED
    BY TypeInvInit, TypeInvStep, <1>1, PTL DEF Spec

-----------------------------------------------------------------------------
(* Mutual exclusion.  OneContextInEngine is not inductive: a softirq that  *)
(* has read the flag as FALSE enters the engine later.  It may because no  *)
(* process of its CPU moves meanwhile, which is what SoftMayEnter records. *)
SoftMayEnter == \A c \in Cpu : pc[c]["soft"] = "start" => ~InEngine(c, "proc")

ExclusionInv == OneContextInEngine /\ ActiveExact /\ SoftMayEnter

(* No CPU is in the engine at first. *)
LEMMA ExclusionInit == Init => ExclusionInv
BY DEF Init, ExclusionInv, OneContextInEngine, ActiveExact, SoftMayEnter,
       InEngine, Level

(* Every step keeps at most one context per CPU in the engine. *)
LEMMA ExclusionStep == TypeInv /\ ExclusionInv /\ [Next]_vars => ExclusionInv'
<1> SUFFICES ASSUME TypeInv, ExclusionInv, [Next]_vars PROVE ExclusionInv'
    OBVIOUS
<1>0. /\ active \in [Cpu -> BOOLEAN]
      /\ pc \in [Cpu -> [Level -> PC]]
    BY DEF TypeInv, TypeOK
<1> USE <1>0 DEF ExclusionInv, OneContextInEngine, ActiveExact, SoftMayEnter,
                 InEngine, Level, PC
<1>1. ASSUME NEW c \in Cpu, NEW l \in Level, Enter(c, l) PROVE ExclusionInv'
    BY <1>1 DEF Enter, Goto
<1>2. ASSUME NEW c \in Cpu, NEW l \in Level, CheckActive(c, l) PROVE ExclusionInv'
    BY <1>2 DEF CheckActive, Goto, Return
<1>3. ASSUME NEW c \in Cpu, NEW l \in Level, SetActive(c, l) PROVE ExclusionInv'
    BY <1>3 DEF SetActive, Goto, Runs
<1>4. ASSUME NEW c \in Cpu, NEW l \in Level, NoNext(c, l) PROVE ExclusionInv'
    BY <1>4 DEF NoNext, Goto
<1>5. ASSUME NEW c \in Cpu, NEW l \in Level, Drop(c, l) PROVE ExclusionInv'
    BY <1>5 DEF Drop, Goto
<1>6. ASSUME NEW c \in Cpu, NEW l \in Level, Forward(c, l) PROVE ExclusionInv'
    BY <1>6 DEF Forward
<1>7. ASSUME NEW c \in Cpu, NEW l \in Level, Tee(c, l) PROVE ExclusionInv'
    <2>1. pc' = pc \/ pc' = [pc EXCEPT ![c][l] = "reduce"]
        BY <1>7 DEF Tee, Goto
    <2>2. active' = active /\ pc[c][l] = "loop"
        BY <1>7 DEF Tee
    <2>3. QED
        BY <2>1, <2>2
<1>8. ASSUME NEW c \in Cpu, NEW l \in Level, Reduce(c, l) PROVE ExclusionInv'
    <2>1. pc[c][l] = "reduce" /\ active[c]
        BY <1>8 DEF Reduce
    <2>2. active' = active
        BY <1>8, <2>1 DEF Reduce
    <2>3. \E step \in {"loop", "inactive"} : pc' = [pc EXCEPT ![c][l] = step]
        BY <1>8 DEF Reduce, Goto
    <2>4. QED
        BY <2>1, <2>2, <2>3
<1>9. ASSUME NEW c \in Cpu, NEW l \in Level, SetInactive(c, l) PROVE ExclusionInv'
    BY <1>9 DEF SetInactive, Goto, Return
<1>10. ASSUME NEW c \in Cpu, NEW d \in Cpu, TimerExpires(c, d) PROVE ExclusionInv'
    BY <1>10 DEF TimerExpires, Goto
<1>11. ASSUME NEW c \in Cpu, TimerActive(c) PROVE ExclusionInv'
    <2>1. /\ pc[c]["soft"] = "t_active" /\ active' = active
          /\ \E step \in {"idle", "t_empty"} : pc' = [pc EXCEPT ![c]["soft"] = step]
        BY <1>11 DEF TimerActive, Goto, Return
    <2>2. QED
        BY <2>1
<1>12. ASSUME NEW c \in Cpu, TimerEmpty(c) PROVE ExclusionInv'
    <2>1. /\ pc[c]["soft"] = "t_empty" /\ active' = active
          /\ \E step \in {"idle", "t_cpu"} : pc' = [pc EXCEPT ![c]["soft"] = step]
        BY <1>12 DEF TimerEmpty, Goto, Return
    <2>2. QED
        BY <2>1
<1>13. ASSUME NEW c \in Cpu, TimerCpu(c) PROVE ExclusionInv'
    <2>1. /\ pc[c]["soft"] = "t_cpu" /\ active' = active
          /\ \E step \in {"idle", "t_reduce"} : pc' = [pc EXCEPT ![c]["soft"] = step]
        BY <1>13 DEF TimerCpu, Goto, Return
    <2>2. QED
        BY <2>1
<1>14. ASSUME NEW c \in Cpu, TimerReduce(c) PROVE ExclusionInv'
    BY <1>14 DEF TimerReduce, Goto
<1>15. CASE UNCHANGED vars
    BY <1>15 DEF vars
<1>16. QED
    BY <1>1, <1>2, <1>3, <1>4, <1>5, <1>6, <1>7, <1>8, <1>9, <1>10, <1>11,
       <1>12, <1>13, <1>14, <1>15
       DEF Next, ProcessPacket, TimerHandler

(* On every CPU, and wherever the timers expire, at most one context is    *)
(* between set_active and set_inactive: the unlocked per-CPU flag is       *)
(* enough to keep the functional blocks' per-CPU data to one context.      *)
THEOREM MutualExclusion == Spec => []OneContextInEngine
<1>1. ExclusionInv => OneContextInEngine
    BY DEF ExclusionInv
<1>2. QED
    BY TypeInvInit, TypeInvStep, ExclusionInit, ExclusionStep, <1>1, PTL DEF Spec

(* The flag is set exactly while a context of the CPU is in the engine. *)
THEOREM ActiveFlagExact == Spec => []ActiveExact
<1>1. ExclusionInv => ActiveExact
    BY DEF ExclusionInv
<1>2. QED
    BY TypeInvInit, TypeInvStep, ExclusionInit, ExclusionStep, <1>1, PTL DEF Spec

-----------------------------------------------------------------------------
(* BUG_ON(!skb).  A timer that expires on its own CPU keeps every context  *)
(* of that CPU from running between its look at the backlog and its        *)
(* dequeue, and no second handler works on the same engine_disc.           *)
OneHandler ==
    \A b, c \in Cpu : disc[b] = disc[c] /\ disc[c] # NULL => b = c
SeenBacklog ==
    \A c \in Cpu : pc[c]["soft"] \in {"t_cpu", "t_reduce"} /\ disc[c] = c
                       => backlog[c] # <<>>

BugInv == OneHandler /\ SeenBacklog /\ NoBug

(* No timer handler runs at first. *)
LEMMA BugInit == Init => BugInv
BY DEF Init, BugInv, OneHandler, SeenBacklog, NoBug, Level

(* Every step keeps what a handler on its own CPU has seen true. *)
LEMMA BugStep ==
    ASSUME TypeInv, BugInv, [Next]_vars
    PROVE  BugInv'
<1>c. pc \in [Cpu -> [Level -> PC]]
    BY DEF TypeInv, TypeOK
<1>b. backlog \in [Cpu -> Seq(Skb)]
    BY DEF TypeInv, TypeOK
<1>d. disc \in [Cpu -> Cpu \cup {NULL}]
    BY DEF TypeInv, TypeOK
<1>n. NULL \notin Cpu
    BY CpuAssumption
<1>i. OneHandler /\ SeenBacklog /\ NoBug
    BY DEF BugInv
<1> USE DEF OneHandler, SeenBacklog, NoBug, Level
<1>1. ASSUME NEW c \in Cpu, NEW l \in Level, Enter(c, l) PROVE BugInv'
    BY <1>1, <1>c, <1>i DEF BugInv, Enter, Goto
<1>2. ASSUME NEW c \in Cpu, NEW l \in Level, CheckActive(c, l) PROVE BugInv'
    <2>1. Append(backlog[c], skb[c][l]) # <<>>
        <3>1. skb[c][l] \in Skb
            BY <1>2 DEF CheckActive, TypeInv, HasPacket
        <3>2. QED
            BY <3>1, <1>b, AppendPacket
    <2>2. backlog' = backlog \/ backlog' = [backlog EXCEPT ![c] = Append(@, skb[c][l])]
        BY <1>2 DEF CheckActive
    <2>3. pc' = [pc EXCEPT ![c][l] = "idle"] \/ pc' = [pc EXCEPT ![c][l] = "start"]
        BY <1>2 DEF CheckActive, Goto, Return
    <2>4. disc' = disc \/ disc' = [disc EXCEPT ![c] = NULL]
        BY <1>2 DEF CheckActive, Return
    <2>5. SeenBacklog'
        <3> SUFFICES ASSUME NEW d \in Cpu, pc'[d]["soft"] \in {"t_cpu", "t_reduce"},
                            disc'[d] = d
                     PROVE  backlog'[d] # <<>>
            OBVIOUS
        <3>1. pc[d]["soft"] \in {"t_cpu", "t_reduce"}
            BY <1>c, <2>3
        <3>2. disc[d] = d
            BY <1>d, <1>n, <2>4
        <3>3. backlog[d] # <<>>
            BY <1>i, <3>1, <3>2
        <3>4. QED
            <4>1. CASE backlog' = backlog
                BY <4>1, <3>3
            <4>2. CASE backlog' = [backlog EXCEPT ![c] = Append(@, skb[c][l])]
                <5>1. d = c => backlog'[d] = Append(backlog[c], skb[c][l])
                    BY <4>2, <1>b
                <5>2. d # c => backlog'[d] = backlog[d]
                    BY <4>2, <1>b
                <5>3. QED
                    BY <2>1, <3>3, <5>1, <5>2
            <4>3. QED
                BY <2>2, <4>1, <4>2
    <2>6. NoBug'
        <3>1. \A d \in Cpu : pc'[d]["soft"] = pc[d]["soft"] \/ pc'[d]["soft"] \in {"idle", "start"}
            BY <1>c, <2>3
        <3>2. \A d \in Cpu : disc'[d] = disc[d] \/ disc'[d] = NULL
            BY <1>d, <2>4
        <3>3. QED
            BY <1>n, <1>i, <3>1, <3>2
    <2>7. OneHandler'
        BY <1>d, <1>i, <2>4
    <2>8. QED
        BY <2>5, <2>6, <2>7 DEF BugInv
<1>3. ASSUME NEW c \in Cpu, NEW l \in Level, SetActive(c, l) PROVE BugInv'
    BY <1>3, <1>c, <1>i DEF BugInv, SetActive, Goto
<1>4. ASSUME NEW c \in Cpu, NEW l \in Level, NoNext(c, l) PROVE BugInv'
    BY <1>4, <1>c, <1>i DEF BugInv, NoNext, Goto
<1>5. ASSUME NEW c \in Cpu, NEW l \in Level, Drop(c, l) PROVE BugInv'
    BY <1>5, <1>c, <1>i DEF BugInv, Drop, Goto
<1>6. ASSUME NEW c \in Cpu, NEW l \in Level, Forward(c, l) PROVE BugInv'
    BY <1>6, <1>c, <1>i DEF BugInv, Forward
<1>7. ASSUME NEW c \in Cpu, NEW l \in Level, Tee(c, l) PROVE BugInv'
    <2>1. PICK s \in Skb : backlog' = [backlog EXCEPT ![c] = Append(@, s)]
        BY <1>7 DEF Tee
    <2>2. Append(backlog[c], s) # <<>>
        BY <1>b, AppendPacket
    <2>3. pc' = pc \/ pc' = [pc EXCEPT ![c][l] = "reduce"]
        BY <1>7 DEF Tee, Goto
    <2>4. disc' = disc
        BY <1>7 DEF Tee
    <2>5. QED
        <3>1. \A d \in Cpu : backlog'[d] = backlog[d] \/ backlog'[d] # <<>>
            BY <1>b, <2>1, <2>2
        <3>2. \A d \in Cpu : pc'[d]["soft"] = pc[d]["soft"] \/ pc'[d]["soft"] = "reduce"
            BY <1>c, <2>3
        <3>3. QED
            BY <1>i, <2>4, <3>1, <3>2 DEF BugInv
<1>8. ASSUME NEW c \in Cpu, NEW l \in Level, Reduce(c, l) PROVE BugInv'
    <2>1. pc[c]["soft"] \in {"idle", "reduce"}
        BY <1>8 DEF Reduce, Runs
    <2>2. \A d \in Cpu : d # c => backlog'[d] = backlog[d]
        BY <1>8, <1>b DEF Reduce
    <2>3. pc' = [pc EXCEPT ![c][l] = "loop"] \/ pc' = [pc EXCEPT ![c][l] = "inactive"]
        BY <1>8 DEF Reduce, Goto
    <2>4. disc' = disc
        BY <1>8 DEF Reduce
    <2>5. QED
        BY <1>c, <1>i, <2>1, <2>2, <2>3, <2>4 DEF BugInv
<1>9. ASSUME NEW c \in Cpu, NEW l \in Level, SetInactive(c, l) PROVE BugInv'
    BY <1>9, <1>c, <1>d, <1>n, <1>i DEF BugInv, SetInactive, Goto, Return
<1>10. ASSUME NEW c \in Cpu, NEW d \in Cpu, TimerExpires(c, d) PROVE BugInv'
    <2>1. OneHandler'
        BY <1>10, <1>d, <1>i DEF TimerExpires
    <2>2. SeenBacklog' /\ NoBug'
        BY <1>10, <1>c, <1>d, <1>i DEF TimerExpires, Goto
    <2>3. QED
        BY <2>1, <2>2 DEF BugInv
<1>11. ASSUME NEW c \in Cpu, TimerActive(c) PROVE BugInv'
    BY <1>11, <1>c, <1>d, <1>n, <1>i DEF BugInv, TimerActive, Goto, Return
<1>12. ASSUME NEW c \in Cpu, TimerEmpty(c) PROVE BugInv'
    <2>1. /\ backlog' = backlog
          /\ \/ /\ disc' = [disc EXCEPT ![c] = NULL]
                /\ pc' = [pc EXCEPT ![c]["soft"] = "idle"]
             \/ /\ disc' = disc /\ backlog[disc[c]] # <<>>
                /\ pc' = [pc EXCEPT ![c]["soft"] = "t_cpu"]
        BY <1>12 DEF TimerEmpty, Goto, Return
    <2>2. OneHandler'
        BY <2>1, <1>d, <1>i
    <2>3. SeenBacklog'
        <3>1. CASE disc' = disc
            BY <2>1, <3>1, <1>c, <1>d, <1>n, <1>i
        <3>2. CASE disc' = [disc EXCEPT ![c] = NULL] /\ pc' = [pc EXCEPT ![c]["soft"] = "idle"]
            BY <2>1, <3>2, <1>c, <1>d, <1>n, <1>i
        <3>3. QED
            BY <2>1, <3>1, <3>2
    <2>4. NoBug'
        BY <2>1, <1>c, <1>d, <1>n, <1>i
    <2>5. QED
        BY <2>2, <2>3, <2>4 DEF BugInv
<1>13. ASSUME NEW c \in Cpu, TimerCpu(c) PROVE BugInv'
    <2>1. /\ backlog' = backlog /\ pc[c]["soft"] = "t_cpu"
          /\ \/ /\ disc' = [disc EXCEPT ![c] = NULL]
                /\ pc' = [pc EXCEPT ![c]["soft"] = "idle"]
             \/ /\ disc' = disc
                /\ pc' = [pc EXCEPT ![c]["soft"] = "t_reduce"]
        BY <1>13 DEF TimerCpu, Goto, Return
    <2>2. OneHandler'
        BY <2>1, <1>d, <1>i
    <2>3. SeenBacklog'
        <3>1. CASE disc' = disc
            BY <2>1, <3>1, <1>c, <1>d, <1>n, <1>i
        <3>2. CASE disc' = [disc EXCEPT ![c] = NULL] /\ pc' = [pc EXCEPT ![c]["soft"] = "idle"]
            BY <2>1, <3>2, <1>c, <1>d, <1>n, <1>i
        <3>3. QED
            BY <2>1, <3>1, <3>2
    <2>4. NoBug'
        BY <2>1, <1>c, <1>d, <1>n, <1>i
    <2>5. QED
        BY <2>2, <2>3, <2>4 DEF BugInv
<1>14. ASSUME NEW c \in Cpu, TimerReduce(c) PROVE BugInv'
    <2>1. disc[c] \in Cpu /\ disc' = disc
        BY <1>14 DEF TimerReduce, TypeInv, HasDisc
    <2>2. \A d \in Cpu : d # disc[c] => backlog'[d] = backlog[d]
        BY <1>14, <1>b, <2>1 DEF TimerReduce
    <2>3. \/ pc' = [pc EXCEPT ![c]["soft"] = "check"]
          \/ pc' = [pc EXCEPT ![c]["soft"] = "t_bug"] /\ backlog[disc[c]] = <<>>
        BY <1>14 DEF TimerReduce, Goto
    <2>4. pc[c]["soft"] = "t_reduce"
        BY <1>14 DEF TimerReduce
    <2>5. SeenBacklog'
        BY <1>c, <1>i, <1>n, <2>1, <2>2, <2>3
    <2>6. NoBug'
        BY <1>c, <1>i, <2>1, <2>3, <2>4
    <2>7. QED
        BY <1>i, <2>1, <2>5, <2>6 DEF BugInv
<1>15. CASE UNCHANGED vars
    BY <1>15, <1>i DEF BugInv, vars
<1>16. QED
    BY <1>1, <1>2, <1>3, <1>4, <1>5, <1>6, <1>7, <1>8, <1>9, <1>10, <1>11,
       <1>12, <1>13, <1>14, <1>15
       DEF Next, ProcessPacket, TimerHandler

(* BUG_ON(!skb) is never reached by a timer handler that runs on the CPU   *)
(* of its own engine_disc.  (By a handler on another CPU it can be: that   *)
(* CPU may empty its backlog between the test and the dequeue.)            *)
THEOREM OwnTimerNeverBug == Spec => []NoBug
<1>1. TypeInv /\ BugInv /\ [Next]_vars => BugInv'
    BY BugStep
<1>2. BugInv => NoBug
    BY DEF BugInv
<1>3. QED
    BY TypeInvInit, TypeInvStep, BugInit, <1>1, <1>2, PTL DEF Spec
=============================================================================
